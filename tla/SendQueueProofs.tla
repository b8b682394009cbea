--------------------------- MODULE SendQueueProofs ---------------------------
(* Proofs about SendQueue for any messages, any capacity of the channel, any *)
(* mix of blocking sends and both kinds of peers.                            *)
EXTENDS SendQueue, SequenceLemmas, FiniteSetTheorems, TLAPS

\* The contents of the channel and of the wire, what is neither there nor with
\* writePump any more, the messages whose send reported success, and those that
\* must be accounted for: the send reported success or dropped them.
Queued == ToSet(queue)
Written == ToSet(wire)
Gone == reported \cup failed \cup purged
Accepted == {m \in Msg : pc[m] = "ok"}
Handled == {m \in Msg : pc[m] \in {"ok", "dropped"}}

\* No message is lost in two ways, and one that its send dropped was reported.
Apart ==
    /\ reported \cap failed = {} /\ reported \cap purged = {} /\ failed \cap purged = {}
    /\ \A m \in Msg : pc[m] = "dropped" => m \in reported

\* A message is accepted or dropped when it is in one of the four places, and
\* these are disjoint and hold no message twice.
Placed ==
    /\ IsInjective(queue) /\ IsInjective(wire)
    /\ \A m \in Msg :
          /\ m \in Handled <=> \/ m \in Queued \/ m \in Written
                               \/ held = m \/ m \in Gone
          /\ m \in Queued => m \notin Written /\ held # m /\ m \notin Gone
          /\ m \in Written => held # m /\ m \notin Gone
          /\ held = m => m \notin Gone

\* What is further down the line was not accepted before what is ahead of it
\* began.
InLine ==
    /\ WireInOrder
    /\ \A i, j \in DOMAIN queue : i < j => queue[j] \notin prior[queue[i]]
    /\ \A x \in Msg : x \in Written \/ held = x => prior[x] \cap Queued = {}
    /\ \A x \in Msg : x \in Written => held \notin prior[x]
    /\ \A x \in Msg : prior[x] \subseteq Accepted

\* writePump holds a message while it writes one, and ends with the close frame.
Pumping ==
    /\ held # NoMsg <=> writer = "write"
    /\ CloseFrame \in Written => writer = "done"

\* A later send has taken m out of the channel to make room.
Evicted(m) == \E x \in Msg : m \in victims[x]

\* With a peer that stays, the connection is open until the close frame is on
\* the wire, and what was queued at the close and not evicted since is written
\* already or will still be: it is ahead of the pump, within the rounds of the
\* flush.
Flushing ==
    ~PeerBreaks =>
    /\ connOpen <=> CloseFrame \notin Written
    /\ connOpen <=> writer # "done"
    /\ connOpen => unreg = "no" /\ closeMode # "abrupt"
    /\ closeMode = "open" => flushDue = {} /\ writer \notin {"flush", "frame", "done"}
    /\ \A m \in flushDue : m \notin Written /\ ~Evicted(m) =>
          \/ writer \in {"select", "write", "drain"} /\ (m \in Queued \/ held = m)
          \/ writer = "flush" /\ \E i \in DOMAIN queue : i <= budget /\ queue[i] = m

\* The part of the invariant about where the messages are.
Line == Placed /\ Apart /\ InLine

\* The inductive invariant.
IInv == QueueTypeOK /\ Line /\ Pumping /\ Flushing

-----------------------------------------------------------------------------
(* The moves of a message                                                    *)

\* A step after which the same messages are accepted and the same are dropped.
SameVerdicts ==
    \A x \in Msg : /\ pc'[x] = "ok" <=> pc[x] = "ok"
                   /\ pc'[x] = "dropped" <=> pc[x] = "dropped"

\* Nothing moves.
LEMMA StayKeeps ==
    ASSUME QueueTypeOK, Line, UNCHANGED <<queue, wire, held, lossVars>>, SameVerdicts,
           \/ prior' = prior
           \/ \E m \in Msg : pc[m] \notin {"ok", "dropped"}
                              /\ prior' = [prior EXCEPT ![m] = Accepted]
    PROVE  Line'
<1>1. /\ Queued' = Queued /\ Written' = Written /\ Accepted' = Accepted
      /\ Gone' = Gone /\ Handled' = Handled
    BY DEF Queued, Written, Accepted, Gone, Handled, SameVerdicts, lossVars
<1>2. Placed' /\ Apart'
    BY <1>1 DEF Line, Placed, Apart, SameVerdicts, lossVars
<1>3. \A x \in Msg : pc[x] \in {"ok", "dropped"} => prior'[x] = prior[x]
    BY DEF QueueTypeOK
<1>4. \A x \in Msg : prior'[x] \subseteq Accepted
    BY DEF QueueTypeOK, Line, InLine
<1>5. \A x \in Msg : x \in Written \/ held = x \/ x \in Queued => prior'[x] = prior[x]
    BY <1>3 DEF Line, Placed, Handled
<1>6. /\ \A i \in DOMAIN wire : wire[i] \in Written
      /\ \A i \in DOMAIN queue : queue[i] \in Queued /\ queue[i] \in Msg
      /\ \A i \in DOMAIN wire : wire[i] = CloseFrame \/ wire[i] \in Msg
    BY DEF Written, Queued, ToSet, QueueTypeOK
<1>7. WireInOrder'
    BY <1>5, <1>6 DEF Line, InLine, WireInOrder
<1>8. \A i, j \in DOMAIN queue : i < j => queue[j] \notin prior'[queue[i]]
    BY <1>5, <1>6 DEF Line, InLine
<1> QED
    BY <1>1, <1>2, <1>4, <1>5, <1>7, <1>8 DEF Line, InLine

\* A send is accepted.
LEMMA AcceptKeeps ==
    ASSUME QueueTypeOK, Line, NEW m \in Msg, pc[m] \notin {"ok", "dropped"},
           queue' = Append(queue, m), pc' = [pc EXCEPT ![m] = "ok"],
           UNCHANGED <<wire, held, lossVars, prior>>
    PROVE  Line'
<1>1. /\ queue \in Seq(Msg) /\ Written' = Written /\ Gone' = Gone
      /\ \A x \in Msg : x \in Accepted' <=> x \in Accepted \/ x = m
      /\ \A x \in Msg : x \in Handled' <=> x \in Handled \/ x = m
      /\ m \notin Accepted /\ m \notin Handled
    BY DEF QueueTypeOK, Written, Accepted, Handled, Gone, lossVars
<1>2. /\ m \notin Queued /\ m \notin Written /\ held # m /\ m \notin Gone
      /\ \A x \in Msg : m \notin prior[x]
    BY <1>1 DEF Line, Placed, InLine
<1>3. /\ Queued' = Queued \cup {m} /\ DOMAIN queue' = DOMAIN queue \cup {Len(queue) + 1}
      /\ \A i \in DOMAIN queue : queue'[i] = queue[i] /\ queue[i] \in Msg /\ i <= Len(queue)
      /\ queue'[Len(queue) + 1] = m /\ Len(queue) \in Nat
      /\ DOMAIN queue = 1..Len(queue)
    <2>1. ToSet(queue') = ToSet(queue) \cup {m}
        BY <1>1, AppendFacts
    <2>2. /\ DOMAIN queue' = DOMAIN queue \cup {Len(queue) + 1}
          /\ \A i \in DOMAIN queue : queue'[i] = queue[i] /\ queue[i] \in Msg /\ i <= Len(queue)
          /\ queue'[Len(queue) + 1] = m /\ Len(queue) \in Nat
          /\ DOMAIN queue = 1..Len(queue)
        BY <1>1
    <2> QED
        BY <2>1, <2>2 DEF Queued
<1>4. IsInjective(queue')
    BY <1>1, <1>2, AppendKeepsInjective DEF Line, Placed, Queued
<1>5. Placed' /\ Apart'
    <2>1. Apart'
        BY DEF QueueTypeOK, Line, Apart, lossVars
    <2> QED
        BY <1>1, <1>2, <1>3, <1>4, <2>1 DEF Line, Placed
<1>6. \A i, j \in DOMAIN queue' : i < j => queue'[j] \notin prior[queue'[i]]
    BY <1>2, <1>3 DEF Line, InLine
<1>7. WireInOrder'
    BY DEF Line, InLine, WireInOrder
<1>8. \A x \in Msg : prior[x] \subseteq Accepted'
    BY <1>1 DEF Line, InLine, Accepted
<1>9. \A x \in Msg : x \in Written \/ held = x => prior[x] \cap Queued' = {}
    BY <1>2, <1>3 DEF Line, InLine
<1> QED
    BY <1>1, <1>5, <1>6, <1>7, <1>8, <1>9 DEF Line, InLine

\* What taking the head of the channel does to its contents.
LEMMA HeadTaken ==
    ASSUME QueueTypeOK, Line, queue # <<>>, queue' = Tail(queue)
    PROVE  /\ Queued = Queued' \cup {Head(queue)} /\ Head(queue) \notin Queued'
           /\ Head(queue) \in Msg /\ Head(queue) \in Queued
           /\ IsInjective(queue') /\ queue' \in Seq(Msg) /\ Len(queue') <= Cap
           /\ DOMAIN queue = 1..Len(queue) /\ Len(queue) \in Nat \ {0}
           /\ DOMAIN queue' = 1..(Len(queue) - 1)
           /\ Head(queue) = queue[1]
           /\ \A i \in DOMAIN queue' : i + 1 \in DOMAIN queue /\ queue'[i] = queue[i + 1]
           /\ \A i, j \in DOMAIN queue' : i < j => queue'[j] \notin prior[queue'[i]]
           /\ prior[Head(queue)] \cap Queued' = {}
<1>1. queue \in Seq(Msg) /\ Len(queue) <= Cap /\ Cap \in Nat /\ IsInjective(queue)
    BY QueueAssumption DEF QueueTypeOK, Line, Placed
<1>2. ToSet(queue) = ToSet(queue') \cup {Head(queue)} /\ Head(queue) \in Msg
    BY <1>1, TailFacts
<1>3. IsInjective(queue') /\ Head(queue) \notin ToSet(queue')
    BY <1>1, TailKeepsInjective
<1>4. /\ queue' \in Seq(Msg) /\ Len(queue') = Len(queue) - 1
      /\ DOMAIN queue = 1..Len(queue) /\ Len(queue) \in Nat \ {0}
      /\ DOMAIN queue' = 1..(Len(queue) - 1)
      /\ Head(queue) = queue[1]
      /\ \A i \in DOMAIN queue' : i + 1 \in DOMAIN queue /\ queue'[i] = queue[i + 1]
    BY <1>1, TailFacts
<1>5. Len(queue') <= Cap
    BY <1>1, <1>4
<1>6. \A i, j \in DOMAIN queue : i < j => queue[j] \notin prior[queue[i]]
    BY DEF Line, InLine
<1>7. \A i, j \in DOMAIN queue' : i < j => queue'[j] \notin prior[queue'[i]]
    BY <1>4, <1>6
<1>8. \A i \in DOMAIN queue' : queue'[i] \notin prior[Head(queue)]
    BY <1>4, <1>6
<1>9. prior[Head(queue)] \cap Queued' = {}
    BY <1>8 DEF Queued, ToSet
<1> QED
    BY <1>2, <1>3, <1>4, <1>5, <1>7, <1>9 DEF Queued

\* What becoming the last item on the wire does to the wire.
LEMMA WireGrows ==
    ASSUME QueueTypeOK, Line, CloseFrame \notin Written, NEW m \in Msg \cup {CloseFrame},
           m \notin Written, wire' = Append(wire, m), prior' = prior,
           m \in Msg => \A x \in Msg : x \in Written => m \notin prior[x]
    PROVE  /\ Written' = Written \cup {m} /\ wire' \in Seq(Msg \cup {CloseFrame})
           /\ IsInjective(wire') /\ WireInOrder'
<1>1. wire \in Seq(Msg \cup {CloseFrame}) /\ IsInjective(wire)
    BY DEF QueueTypeOK, Line, Placed
<1>2. ToSet(wire') = ToSet(wire) \cup {m}
    BY <1>1, AppendFacts
<1>3. IsInjective(wire')
    BY <1>1, AppendKeepsInjective DEF Written
<1>4. /\ wire' \in Seq(Msg \cup {CloseFrame})
      /\ DOMAIN wire' = DOMAIN wire \cup {Len(wire) + 1} /\ Len(wire) \in Nat
      /\ DOMAIN wire = 1..Len(wire)
      /\ \A i \in DOMAIN wire : wire'[i] = wire[i]
      /\ wire'[Len(wire) + 1] = m
    BY <1>1, AppendFacts
<1>5. \A i \in DOMAIN wire : wire[i] \in Written /\ wire[i] \in Msg
    <2>1. \A i \in DOMAIN wire : wire[i] \in Written /\ wire[i] \in Msg \cup {CloseFrame}
        BY <1>1 DEF Written, ToSet
    <2> QED
        BY <2>1
<1>6. WireInOrder'
    <2> SUFFICES ASSUME NEW i \in DOMAIN wire', NEW j \in DOMAIN wire', i < j
                 PROVE  /\ wire'[i] # CloseFrame
                        /\ wire'[j] # CloseFrame => wire'[j] \notin prior[wire'[i]]
        BY DEF WireInOrder
    <2>1. i \in DOMAIN wire /\ wire'[i] = wire[i] /\ wire[i] \in Msg /\ wire[i] \in Written
        BY <1>4, <1>5
    <2>2. CASE j \in DOMAIN wire
        BY <1>4, <2>1, <2>2 DEF Line, InLine, WireInOrder
    <2>3. CASE j = Len(wire) + 1
        BY <1>4, <2>1, <2>3, QueueAssumption
    <2> QED
        BY <1>4, <2>2, <2>3
<1> QED
    BY <1>2, <1>3, <1>4, <1>6 DEF Written

\* A message becomes lost in one of the three ways.
Loses(m) ==
    \/ reported' = reported \cup {m} /\ UNCHANGED <<failed, purged>>
    \/ failed' = failed \cup {m} /\ UNCHANGED <<reported, purged>>
    \/ purged' = purged \cup {m} /\ UNCHANGED <<reported, failed>>

\* Losing a message that was not lost yet.
LEMMA LosesFacts ==
    ASSUME Line, NEW m \in Msg, Loses(m), m \notin Gone, SameVerdicts
    PROVE  Gone' = Gone \cup {m} /\ Handled' = Handled /\ Accepted' = Accepted /\ Apart'
<1>1. Gone' = Gone \cup {m}
    BY DEF Loses, Gone
<1>2. Handled' = Handled /\ Accepted' = Accepted
    BY DEF SameVerdicts, Handled, Accepted
<1>3. Apart'
    BY DEF Line, Apart, Loses, Gone, SameVerdicts
<1> QED
    BY <1>1, <1>2, <1>3

\* The oldest queued message is evicted, purged, or lost in a failing write.
LEMMA DropHeadKeeps ==
    ASSUME QueueTypeOK, Line, queue # <<>>, queue' = Tail(queue),
           Loses(Head(queue)), UNCHANGED <<wire, held, prior>>, SameVerdicts
    PROVE  Line'
<1>1. /\ Queued = Queued' \cup {Head(queue)} /\ Head(queue) \notin Queued'
      /\ Head(queue) \in Msg /\ Head(queue) \in Queued /\ IsInjective(queue')
      /\ \A i, j \in DOMAIN queue' : i < j => queue'[j] \notin prior[queue'[i]]
    BY HeadTaken
<1>2. Head(queue) \notin Gone
    BY <1>1 DEF Line, Placed
<1>3. /\ Written' = Written /\ Accepted' = Accepted /\ Handled' = Handled
      /\ Gone' = Gone \cup {Head(queue)} /\ Apart'
    BY <1>1, <1>2, LosesFacts DEF Written
<1>4. Placed'
    BY <1>1, <1>3 DEF Line, Placed
<1>5. WireInOrder'
    BY DEF Line, InLine, WireInOrder
<1> QED
    BY <1>1, <1>3, <1>4, <1>5 DEF Line, InLine

\* A send drops its own message.
LEMMA DropKeeps ==
    ASSUME QueueTypeOK, Line, NEW m \in Msg, pc[m] \notin {"ok", "dropped"}, Drop(m),
           UNCHANGED <<queue, wire, held, prior, failed, purged>>
    PROVE  Line'
<1>1. m \notin Handled /\ pc' = [pc EXCEPT ![m] = "dropped"] /\ reported' = reported \cup {m}
    BY DEF Drop, Handled
<1>2. m \notin Queued /\ m \notin Written /\ held # m /\ m \notin Gone
    BY <1>1 DEF Line, Placed
<1>3. /\ Queued' = Queued /\ Written' = Written /\ Accepted' = Accepted
      /\ Gone' = Gone \cup {m} /\ Handled' = Handled \cup {m}
    <2>1. Queued' = Queued /\ Written' = Written /\ Gone' = Gone \cup {m}
        BY <1>1 DEF Queued, Written, Gone
    <2>2. Accepted' = Accepted /\ Handled' = Handled \cup {m}
        BY <1>1 DEF QueueTypeOK, Accepted, Handled
    <2> QED
        BY <2>1, <2>2
<1>4. Apart'
    BY <1>1, <1>2 DEF QueueTypeOK, Line, Apart, Gone
<1>5. Placed'
    BY <1>2, <1>3 DEF Line, Placed
<1>6. WireInOrder'
    BY DEF Line, InLine, WireInOrder
<1> QED
    BY <1>3, <1>4, <1>5, <1>6 DEF Line, InLine

\* drainQueued writes the oldest queued message.
LEMMA WriteHeadKeeps ==
    ASSUME QueueTypeOK, Line, CloseFrame \notin Written, held = NoMsg,
           queue # <<>>, queue' = Tail(queue), wire' = Append(wire, Head(queue)),
           UNCHANGED <<held, lossVars, prior, pc>>
    PROVE  Line' /\ Written' = Written \cup {Head(queue)}
<1>1. /\ Queued = Queued' \cup {Head(queue)} /\ Head(queue) \notin Queued'
      /\ Head(queue) \in Msg /\ Head(queue) \in Queued /\ IsInjective(queue')
      /\ \A i, j \in DOMAIN queue' : i < j => queue'[j] \notin prior[queue'[i]]
      /\ prior[Head(queue)] \cap Queued' = {}
    BY HeadTaken
<1>2. /\ Head(queue) \notin Written
      /\ \A x \in Msg : x \in Written => Head(queue) \notin prior[x]
    BY <1>1 DEF Line, Placed, InLine
<1>3. Written' = Written \cup {Head(queue)} /\ IsInjective(wire') /\ WireInOrder'
    BY <1>1, <1>2, WireGrows
<1>4. Accepted' = Accepted /\ Handled' = Handled /\ Gone' = Gone /\ Apart'
    BY DEF Accepted, Handled, Gone, Line, Apart, lossVars
<1>5. Placed'
    BY <1>1, <1>2, <1>3, <1>4, QueueAssumption DEF Line, Placed
<1>6. \A x \in Msg : x \in Written' => held \notin prior[x]
    BY QueueAssumption DEF QueueTypeOK
<1>7. \A x \in Msg : x \in Written' \/ held = x => prior[x] \cap Queued' = {}
    BY <1>1, <1>3 DEF Line, InLine
<1> QED
    BY <1>1, <1>3, <1>4, <1>5, <1>6, <1>7 DEF Line, InLine

\* writePump takes a message out of the channel.
LEMMA TakeKeeps ==
    ASSUME QueueTypeOK, Line, held = NoMsg, queue # <<>>, queue' = Tail(queue),
           held' = Head(queue), UNCHANGED <<wire, lossVars, prior, pc>>
    PROVE  Line'
<1>1. /\ Queued = Queued' \cup {Head(queue)} /\ Head(queue) \notin Queued'
      /\ Head(queue) \in Msg /\ Head(queue) \in Queued /\ IsInjective(queue')
      /\ \A i, j \in DOMAIN queue' : i < j => queue'[j] \notin prior[queue'[i]]
      /\ prior[Head(queue)] \cap Queued' = {}
    BY HeadTaken
<1>2. /\ Written' = Written /\ Accepted' = Accepted
      /\ Handled' = Handled /\ Gone' = Gone /\ Apart'
    BY DEF Written, Accepted, Handled, Gone, Line, Apart, lossVars
<1>3. Placed'
    BY <1>1, <1>2, QueueAssumption DEF Line, Placed
<1>4. WireInOrder'
    BY DEF Line, InLine, WireInOrder
<1>5. \A x \in Msg : x \in Written' => held' \notin prior[x]
    BY <1>1, <1>2 DEF Line, InLine
<1> QED
    BY <1>1, <1>2, <1>3, <1>4, <1>5 DEF Line, InLine

\* The message writePump holds is written.
LEMMA WriteHeldKeeps ==
    ASSUME QueueTypeOK, Line, CloseFrame \notin Written, held \in Msg, held' = NoMsg,
           wire' = Append(wire, held), UNCHANGED <<queue, lossVars, prior, pc>>
    PROVE  Line' /\ Written' = Written \cup {held}
<1>1. /\ held \notin Written
      /\ \A x \in Msg : x \in Written => held \notin prior[x]
    BY DEF Line, Placed, InLine
<1>2. Written' = Written \cup {held} /\ IsInjective(wire') /\ WireInOrder'
    BY <1>1, WireGrows
<1>3. /\ Accepted' = Accepted /\ Queued' = Queued
      /\ Handled' = Handled /\ Gone' = Gone /\ Apart'
    BY DEF Accepted, Queued, Handled, Gone, Line, Apart, lossVars
<1>4. Placed'
    BY <1>2, <1>3, QueueAssumption DEF Line, Placed
<1>5. \A x \in Msg : held' \notin prior[x]
    BY QueueAssumption DEF QueueTypeOK
<1> QED
    BY <1>2, <1>3, <1>4, <1>5, QueueAssumption DEF Line, InLine

\* The message writePump holds is lost.
LEMMA LoseHeldKeeps ==
    ASSUME QueueTypeOK, Line, held \in Msg, held' = NoMsg, Loses(held),
           UNCHANGED <<queue, wire, prior, pc>>
    PROVE  Line'
<1>1. /\ Accepted' = Accepted /\ Queued' = Queued /\ Written' = Written
      /\ Handled' = Handled /\ Gone' = Gone \cup {held} /\ Apart'
    <2>1. held \notin Gone /\ SameVerdicts
        BY DEF Line, Placed, SameVerdicts
    <2> QED
        BY <2>1, LosesFacts DEF Queued, Written
<1>2. Placed'
    BY <1>1, QueueAssumption DEF Line, Placed
<1>3. WireInOrder'
    BY DEF Line, InLine, WireInOrder
<1>4. \A x \in Msg : held' \notin prior[x]
    BY QueueAssumption DEF QueueTypeOK
<1> QED
    BY <1>1, <1>2, <1>3, <1>4, QueueAssumption DEF Line, InLine

\* The close frame is written.
LEMMA FrameKeeps ==
    ASSUME QueueTypeOK, Line, CloseFrame \notin Written, wire' = Append(wire, CloseFrame),
           UNCHANGED <<queue, held, lossVars, prior, pc>>
    PROVE  Line' /\ Written' = Written \cup {CloseFrame}
<1>1. CloseFrame \notin Msg
    BY QueueAssumption
<1>2. Written' = Written \cup {CloseFrame} /\ IsInjective(wire') /\ WireInOrder'
    BY <1>1, WireGrows
<1>3. /\ Accepted' = Accepted /\ Queued' = Queued
      /\ Handled' = Handled /\ Gone' = Gone /\ Apart'
    BY DEF Accepted, Queued, Handled, Gone, Line, Apart, lossVars
<1>4. Placed'
    BY <1>1, <1>2, <1>3 DEF Line, Placed
<1> QED
    BY <1>1, <1>2, <1>3, <1>4 DEF Line, InLine

-----------------------------------------------------------------------------
(* The steps                                                                 *)

\* The flush owes nothing new when a sender moves or adds to the channel.
LEMMA FlushingStays ==
    ASSUME IInv, UNCHANGED <<closeMode, unreg, connOpen, flushDue, writer, held,
                             budget, wire, victims>>,
           queue' = queue \/ \E m \in Msg : queue' = Append(queue, m)
    PROVE  Flushing' /\ Pumping'
<1>1. Written' = Written /\ \A m : Evicted(m)' = Evicted(m)
    BY DEF Written, Evicted
<1>2. \A i \in DOMAIN queue : i \in DOMAIN queue' /\ queue'[i] = queue[i]
    <2>1. queue \in Seq(Msg)
        BY DEF IInv, QueueTypeOK
    <2>2. CASE queue' = queue
        BY <2>2
    <2>3. ASSUME NEW m \in Msg, queue' = Append(queue, m)
          PROVE  \A i \in DOMAIN queue : i \in DOMAIN queue' /\ queue'[i] = queue[i]
        BY <2>1, <2>3
    <2> QED
        BY <2>2, <2>3
<1>3. Queued \subseteq Queued'
    BY <1>2 DEF Queued, ToSet
<1>4. Pumping'
    BY <1>1 DEF IInv, Pumping
<1>5. ASSUME ~PeerBreaks, NEW m \in flushDue, m \notin Written, ~Evicted(m)
      PROVE  \/ writer \in {"select", "write", "drain"} /\ (m \in Queued' \/ held = m)
             \/ writer = "flush" /\ \E i \in DOMAIN queue' : i <= budget /\ queue'[i] = m
    BY <1>2, <1>3, <1>5 DEF IInv, Flushing
<1> QED
    BY <1>1, <1>4, <1>5 DEF IInv, Flushing

\* A send begins.
LEMMA SendKeeps ==
    ASSUME IInv, NEW m \in Msg, Send(m)
    PROVE  IInv'
<1> USE DEF sendVars, pumpVars, closeVars, lossVars
<1>1. QueueTypeOK'
    <2>1. {x \in Msg : pc[x] = "ok"} \in SUBSET Msg
        OBVIOUS
    <2>2. prior' \in [Msg -> SUBSET Msg]
        BY <2>1 DEF IInv, QueueTypeOK, Send
    <2> QED
        BY <2>2 DEF IInv, QueueTypeOK, Send, Settled
<1>2. /\ SameVerdicts
      /\ pc[m] \notin {"ok", "dropped"} /\ prior' = [prior EXCEPT ![m] = Accepted]
      /\ UNCHANGED <<queue, wire, held, lossVars>>
    BY DEF IInv, QueueTypeOK, Send, Accepted, SameVerdicts
<1>3. Line'
    BY <1>2, StayKeeps DEF IInv
<1>4. Flushing' /\ Pumping'
    BY FlushingStays DEF Send
<1> QED
    BY <1>1, <1>3, <1>4 DEF IInv

\* A send that is accepted, whichever of its channel operations succeeds.
LEMMA AcceptedKeeps ==
    ASSUME IInv, NEW m \in Msg, pc[m] \notin {"ok", "dropped"}, HasRoom,
           queue' = Append(queue, m), pc' = [pc EXCEPT ![m] = "ok"],
           tries' \in 0..2, sendMu' \in Msg \cup {NoMsg},
           UNCHANGED <<policy, victims, prior, pumpVars, closeVars, lossVars>>
    PROVE  IInv'
<1> USE DEF sendVars, pumpVars, closeVars, lossVars
<1>1. queue' \in Seq(Msg) /\ Len(queue') <= Cap
    BY QueueAssumption DEF IInv, QueueTypeOK, HasRoom
<1>2. QueueTypeOK'
    BY <1>1 DEF IInv, QueueTypeOK, Settled
<1>3. Line'
    BY AcceptKeeps DEF IInv
<1>4. Flushing' /\ Pumping'
    BY FlushingStays
<1> QED
    BY <1>2, <1>3, <1>4 DEF IInv

\* A step of a send that neither accepts its message nor evicts one.
LEMMA SenderMoves ==
    ASSUME IInv, NEW m \in Msg, pc[m] \notin {"ok", "dropped"},
           NEW to \in {"lock", "recheck", "evict", "enqueue", "expired"},
           pc' = [pc EXCEPT ![m] = to], tries' \in 0..2, sendMu' \in Msg \cup {NoMsg},
           UNCHANGED <<policy, queue, victims, prior, pumpVars, closeVars, lossVars>>
    PROVE  IInv'
<1> USE DEF sendVars, pumpVars, closeVars, lossVars
<1>1. QueueTypeOK'
    BY DEF IInv, QueueTypeOK, Settled
<1>2. SameVerdicts
    BY DEF IInv, QueueTypeOK, SameVerdicts
<1>3. Line'
    BY <1>2, StayKeeps DEF IInv
<1>4. Flushing' /\ Pumping'
    BY FlushingStays
<1> QED
    BY <1>1, <1>3, <1>4 DEF IInv

\* A send finds the channel full and drops its message.
LEMMA SenderDrops ==
    ASSUME IInv, NEW m \in Msg, pc[m] \notin {"ok", "dropped"}, Drop(m),
           tries' \in 0..2, sendMu' \in Msg \cup {NoMsg},
           UNCHANGED <<policy, queue, victims, prior, pumpVars, closeVars, failed, purged>>
    PROVE  IInv'
<1> USE DEF sendVars, pumpVars, closeVars, lossVars
<1>1. QueueTypeOK'
    BY DEF IInv, QueueTypeOK, Settled, Drop
<1>2. Line'
    BY DropKeeps DEF IInv
<1>3. Flushing' /\ Pumping'
    BY FlushingStays
<1> QED
    BY <1>1, <1>2, <1>3 DEF IInv

\* DropOldest takes the oldest message out, or finds the channel empty.
LEMMA EvictKeeps ==
    ASSUME IInv, NEW m \in Msg, Evict(m)
    PROVE  IInv'
<1> USE DEF sendVars, pumpVars, closeVars, lossVars
<1>1. CASE queue = <<>>
    <2>1. /\ pc[m] \notin {"ok", "dropped"} /\ pc' = [pc EXCEPT ![m] = "enqueue"]
          /\ tries' \in 0..2 /\ sendMu' \in Msg \cup {NoMsg}
          /\ UNCHANGED <<policy, queue, victims, prior, pumpVars, closeVars, lossVars>>
        BY <1>1 DEF Evict, IInv, QueueTypeOK
    <2> QED
        BY <2>1, SenderMoves
<1>2. CASE queue # <<>>
    <2>1. /\ queue' = Tail(queue) /\ reported' = reported \cup {Head(queue)}
          /\ victims' = [victims EXCEPT ![m] = @ \cup {Head(queue)}]
          /\ UNCHANGED <<policy, tries, sendMu, prior, pumpVars, closeVars, failed, purged>>
          /\ pc' = [pc EXCEPT ![m] = "enqueue"] /\ pc[m] = "evict"
        BY <1>2 DEF Evict
    <2>2. /\ queue' \in Seq(Msg) /\ Len(queue') <= Cap /\ Head(queue) \in Msg
          /\ Queued = Queued' \cup {Head(queue)} /\ Head(queue) = queue[1]
          /\ DOMAIN queue = 1..Len(queue) /\ Len(queue) \in Nat \ {0}
          /\ DOMAIN queue' = 1..(Len(queue) - 1)
          /\ \A i \in DOMAIN queue' : queue'[i] = queue[i + 1]
        BY <1>2, <2>1, HeadTaken DEF IInv
    <2>3. QueueTypeOK'
        BY <2>1, <2>2 DEF IInv, QueueTypeOK, Settled
    <2>4. SameVerdicts /\ Loses(Head(queue))
        BY <2>1 DEF IInv, QueueTypeOK, SameVerdicts, Loses
    <2>5. Line'
        BY <1>2, <2>1, <2>4, DropHeadKeeps DEF IInv
    <2>6. Written' = Written
        BY <2>1 DEF Written
    <2>7. Pumping'
        BY <2>1, <2>6 DEF IInv, Pumping
    <2>8. ASSUME NEW x, ~Evicted(x)' PROVE x # Head(queue) /\ ~Evicted(x)
        <3>1. /\ Head(queue) \in victims'[m]
              /\ \A y \in Msg : victims[y] \subseteq victims'[y]
            BY <2>1, <2>2 DEF IInv, QueueTypeOK
        <3> QED
            BY <2>8, <3>1 DEF Evicted
    <2>9. ASSUME ~PeerBreaks, NEW x \in flushDue, x \notin Written, ~Evicted(x)'
          PROVE  \/ writer \in {"select", "write", "drain"} /\ (x \in Queued' \/ held = x)
                 \/ writer = "flush" /\ \E i \in DOMAIN queue' : i <= budget /\ queue'[i] = x
        <3>1. x # Head(queue) /\ ~Evicted(x)
            BY <2>8, <2>9
        <3>2. CASE writer \in {"select", "write", "drain"} /\ (x \in Queued \/ held = x)
            BY <2>2, <3>1, <3>2
        <3>3. CASE writer = "flush" /\ \E i \in DOMAIN queue : i <= budget /\ queue[i] = x
            <4>1. PICK i \in DOMAIN queue : i <= budget /\ queue[i] = x
                BY <3>3
            <4>2. /\ i - 1 \in DOMAIN queue' /\ i - 1 <= budget /\ queue'[i - 1] = x
                BY <2>2, <3>1, <4>1 DEF IInv, QueueTypeOK
            <4> QED
                BY <3>3, <4>2
        <3> QED
            BY <2>9, <3>1, <3>2, <3>3 DEF IInv, Flushing
    <2>10. Flushing'
        BY <2>1, <2>6, <2>9 DEF IInv, Flushing
    <2> QED
        BY <2>3, <2>5, <2>7, <2>10 DEF IInv
<1> QED
    BY <1>1, <1>2

\* Every step of a sender keeps the invariant.
LEMMA SenderKeeps ==
    ASSUME IInv, NEW m \in Msg, Send(m) \/ BlockingSend(m) \/ TryStep(m)
    PROVE  IInv'
<1>1. tries \in 0..2 /\ sendMu \in Msg \cup {NoMsg}
    BY DEF IInv, QueueTypeOK
<1>2. CASE Send(m)
    BY <1>2, SendKeeps
<1>3. CASE BlockingSend(m)
    <2>1. CASE HasRoom /\ queue' = Append(queue, m) /\ pc' = [pc EXCEPT ![m] = "ok"]
        BY <1>1, <1>3, <2>1, AcceptedKeeps DEF BlockingSend
    <2>2. CASE pc' = [pc EXCEPT ![m] = "expired"] /\ UNCHANGED queue
        BY <1>1, <1>3, <2>2, SenderMoves DEF BlockingSend
    <2> QED
        BY <1>3, <2>1, <2>2 DEF BlockingSend
<1>4. CASE FastPath(m)
    <2>1. CASE HasRoom
        BY <1>1, <1>4, <2>1, AcceptedKeeps DEF FastPath, lossVars
    <2>2. CASE ~HasRoom
        <3>1. CASE policy = "DropOldest"
            BY <1>1, <1>4, <2>2, <3>1, SenderMoves DEF FastPath, lossVars
        <3>2. CASE policy # "DropOldest"
            BY <1>1, <1>4, <2>2, <3>2, SenderDrops DEF FastPath
        <3> QED
            BY <3>1, <3>2
    <2> QED
        BY <2>1, <2>2
<1>5. CASE Lock(m)
    <2>1. tries' \in 0..2 /\ sendMu' \in Msg \cup {NoMsg} /\ pc[m] \notin {"ok", "dropped"}
        BY <1>5 DEF Lock
    <2> QED
        BY <1>5, <2>1, SenderMoves DEF Lock
<1>6. CASE Recheck(m)
    <2>1. CASE HasRoom
        BY <1>6, <2>1, AcceptedKeeps DEF Recheck, Unlock
    <2>2. CASE ~HasRoom
        BY <1>1, <1>6, <2>2, SenderMoves DEF Recheck
    <2> QED
        BY <2>1, <2>2
<1>7. CASE Evict(m)
    BY <1>7, EvictKeeps
<1>8. CASE Enqueue(m)
    <2>1. CASE HasRoom
        BY <1>8, <2>1, AcceptedKeeps DEF Enqueue, Unlock, lossVars
    <2>2. CASE ~HasRoom /\ tries > 1
        <3>1. /\ tries' = tries - 1 /\ pc' = [pc EXCEPT ![m] = "evict"]
              /\ UNCHANGED <<queue, sendMu, reported>>
            <4>1. ~HasRoom /\ tries > 1 /\ ~(tries <= 1)
                BY <1>1, <2>2
            <4> QED
                BY <1>8, <4>1, Zenon DEF Enqueue
        <3>2. tries' \in 0..2 /\ sendMu' \in Msg \cup {NoMsg} /\ pc[m] \notin {"ok", "dropped"}
            BY <1>1, <1>8, <2>2, <3>1 DEF Enqueue
        <3> QED
            BY <1>8, <3>1, <3>2, SenderMoves DEF Enqueue, lossVars
    <2>3. CASE ~HasRoom /\ tries <= 1
        <3>1. ~HasRoom /\ tries <= 1 /\ ~(tries > 1)
            BY <1>1, <2>3
        <3>2. Drop(m) /\ Unlock /\ UNCHANGED queue
            BY <1>8, <3>1, Zenon DEF Enqueue
        <3> QED
            BY <1>8, <3>2, SenderDrops DEF Enqueue, Unlock
    <2> QED
        BY <1>1, <2>1, <2>2, <2>3
<1> QED
    BY <1>2, <1>3, <1>4, <1>5, <1>6, <1>7, <1>8 DEF TryStep

-----------------------------------------------------------------------------
\* writePump takes a message from the channel.
LEMMA PumpTakeKeeps == ASSUME IInv, PumpTake PROVE IInv'
<1> USE DEF sendVars, pumpVars, closeVars, lossVars
<1>1. /\ writer = "select" /\ writer' = "write" /\ queue # <<>> /\ queue' = Tail(queue)
      /\ held' = Head(queue)
      /\ UNCHANGED <<policy, sendVars, budget, wire, closeVars, lossVars>>
    BY DEF PumpTake
<1>2. held = NoMsg
    BY <1>1 DEF IInv, Pumping
<1>3. /\ queue' \in Seq(Msg) /\ Len(queue') <= Cap /\ Head(queue) \in Msg
      /\ Queued = Queued' \cup {Head(queue)}
    BY <1>1, HeadTaken DEF IInv
<1>4. QueueTypeOK'
    BY <1>1, <1>3 DEF IInv, QueueTypeOK
<1>5. Line'
    BY <1>1, <1>2, TakeKeeps DEF IInv
<1>6. Written' = Written /\ \A x : Evicted(x)' = Evicted(x)
    BY <1>1 DEF Written, Evicted
<1>7. Pumping'
    BY <1>1, <1>3, <1>6, QueueAssumption DEF IInv, Pumping
<1>8. \A m \in flushDue : m # held
    BY <1>2, QueueAssumption DEF IInv, QueueTypeOK
<1>9. Flushing'
    BY <1>1, <1>3, <1>6, <1>8 DEF IInv, Flushing
<1> QED
    BY <1>4, <1>5, <1>7, <1>9 DEF IInv

\* A write or a ping fails.
LEMMA PumpFailsKeeps == ASSUME IInv, PumpFails PROVE IInv'
<1> USE DEF sendVars, pumpVars, closeVars, lossVars
<1>1. /\ writer \in {"select", "write", "drain"} /\ (~connOpen \/ PeerBreaks)
      /\ writer' = "done" /\ held' = NoMsg /\ budget' = 0 /\ connOpen' = FALSE
      /\ UNCHANGED <<policy, queue, sendVars, wire, closeMode, unreg, flushDue, reported, purged>>
    BY DEF PumpFails
<1>2. \/ held = NoMsg /\ failed' = failed
      \/ held \in Msg /\ failed' = failed \cup {held}
    BY DEF PumpFails, IInv, QueueTypeOK
<1>3. QueueTypeOK'
    <2>1. failed' \subseteq Msg /\ budget' \in 0..Cap
        BY <1>1, <1>2, QueueAssumption DEF IInv, QueueTypeOK
    <2> QED
        BY <1>1, <2>1 DEF IInv, QueueTypeOK
<1>4. Line'
    <2>1. CASE held = NoMsg /\ failed' = failed
        BY <1>1, <2>1, StayKeeps DEF IInv, SameVerdicts
    <2>2. CASE held \in Msg /\ failed' = failed \cup {held}
        BY <1>1, <2>2, LoseHeldKeeps DEF IInv, Loses
    <2> QED
        BY <1>2, <2>1, <2>2
<1>5. Written' = Written
    BY <1>1 DEF Written
<1>6. Pumping'
    BY <1>1, <1>5 DEF IInv, Pumping
<1>7. PeerBreaks
    BY <1>1, QueueAssumption DEF IInv, QueueTypeOK, Flushing
<1> QED
    BY <1>3, <1>4, <1>6, <1>7 DEF IInv, Flushing

\* writePump writes the message it holds.
LEMMA PumpWriteKeeps == ASSUME IInv, PumpWrite PROVE IInv'
<1> USE DEF sendVars, pumpVars, closeVars, lossVars
<1>1. /\ writer = "write" /\ writer' = "drain" /\ connOpen /\ wire' = Append(wire, held)
      /\ held' = NoMsg /\ budget' = Len(queue)
      /\ UNCHANGED <<policy, queue, sendVars, closeVars, lossVars>>
    BY DEF PumpWrite
<1>2. held \in Msg /\ CloseFrame \notin Written
    BY <1>1 DEF IInv, QueueTypeOK, Pumping
<1>3. budget' \in 0..Cap /\ wire' \in Seq(Msg \cup {CloseFrame})
    BY <1>1, <1>2, QueueAssumption DEF IInv, QueueTypeOK
<1>4. QueueTypeOK'
    BY <1>1, <1>3 DEF IInv, QueueTypeOK
<1>5. Line' /\ Written' = Written \cup {held}
    BY <1>1, <1>2, WriteHeldKeeps DEF IInv
<1>6. Queued' = Queued /\ \A x : Evicted(x)' = Evicted(x)
    BY <1>1 DEF Queued, Evicted
<1>7. Pumping'
    BY <1>1, <1>2, <1>5, QueueAssumption DEF IInv, Pumping
<1>8. Flushing'
    BY <1>1, <1>2, <1>5, <1>6, QueueAssumption DEF IInv, Flushing
<1> QED
    BY <1>4, <1>5, <1>7, <1>8 DEF IInv

\* A round of drainQueued: the head is written, or lost and then the caller
\* knows.
LEMMA WriteHeadMoves ==
    ASSUME IInv, WriteHead, queue # <<>>, held = NoMsg, CloseFrame \notin Written,
           UNCHANGED <<held, prior, pc, reported, purged>>
    PROVE  /\ Line' /\ queue' \in Seq(Msg) /\ Len(queue') <= Cap
           /\ wire' \in Seq(Msg \cup {CloseFrame}) /\ failed' \subseteq Msg
           /\ CloseFrame \notin Written'
           /\ Queued = Queued' \cup {Head(queue)} /\ Head(queue) = queue[1]
           /\ DOMAIN queue = 1..Len(queue) /\ Len(queue) \in Nat \ {0}
           /\ DOMAIN queue' = 1..(Len(queue) - 1)
           /\ \A i \in DOMAIN queue' : queue'[i] = queue[i + 1]
           /\ \/ failed' = failed /\ connOpen /\ Written' = Written \cup {Head(queue)}
              \/ failed' # failed /\ (~connOpen \/ PeerBreaks)
<1>1. queue' = Tail(queue)
    BY DEF WriteHead
<1>2. /\ queue' \in Seq(Msg) /\ Len(queue') <= Cap
      /\ Head(queue) \in Msg /\ Head(queue) \in Queued
      /\ Queued = Queued' \cup {Head(queue)} /\ Head(queue) = queue[1]
      /\ DOMAIN queue = 1..Len(queue) /\ Len(queue) \in Nat \ {0}
      /\ DOMAIN queue' = 1..(Len(queue) - 1)
      /\ \A i \in DOMAIN queue' : queue'[i] = queue[i + 1]
    BY <1>1, HeadTaken DEF IInv
<1>3. Head(queue) \notin failed /\ Head(queue) # CloseFrame
    BY <1>2, QueueAssumption DEF IInv, Line, Placed, Gone
<1>4. CASE connOpen /\ wire' = Append(wire, Head(queue)) /\ UNCHANGED failed
    <2>1. Line' /\ Written' = Written \cup {Head(queue)}
        BY <1>1, <1>4, WriteHeadKeeps DEF IInv, lossVars
    <2>2. wire' \in Seq(Msg \cup {CloseFrame}) /\ failed' \subseteq Msg
        BY <1>2, <1>4 DEF IInv, QueueTypeOK
    <2> QED
        BY <1>2, <1>3, <1>4, <2>1, <2>2
<1>5. CASE (~connOpen \/ PeerBreaks) /\ failed' = failed \cup {Head(queue)} /\ UNCHANGED wire
    <2>1. Line'
        BY <1>1, <1>5, DropHeadKeeps DEF IInv, Loses, SameVerdicts
    <2>2. wire' \in Seq(Msg \cup {CloseFrame}) /\ failed' \subseteq Msg /\ Written' = Written
        BY <1>2, <1>5 DEF IInv, QueueTypeOK, Written
    <2>3. failed' # failed
        BY <1>3, <1>5
    <2> QED
        BY <1>2, <1>5, <2>1, <2>2, <2>3
<1> QED
    BY <1>4, <1>5 DEF WriteHead

\* A round of drainQueued after a write.
LEMMA PumpDrainKeeps == ASSUME IInv, PumpDrain PROVE IInv'
<1> USE DEF sendVars, pumpVars, closeVars, lossVars
<1>1. /\ writer = "drain" /\ held = NoMsg /\ CloseFrame \notin Written
      /\ UNCHANGED <<policy, sendVars, held, closeMode, unreg, flushDue, reported, purged>>
    BY DEF PumpDrain, IInv, Pumping
<1>2. \A x : Evicted(x)' = Evicted(x)
    BY <1>1 DEF Evicted
<1>3. CASE budget > 0 /\ queue # <<>>
    <2>1. /\ WriteHead
          /\ \/ failed' = failed /\ writer' = writer /\ budget' = budget - 1 /\ connOpen' = connOpen
             \/ failed' # failed /\ writer' = "done" /\ budget' = 0 /\ connOpen' = FALSE
        BY <1>3 DEF PumpDrain
    <2>2. /\ Line' /\ queue' \in Seq(Msg) /\ Len(queue') <= Cap
          /\ wire' \in Seq(Msg \cup {CloseFrame}) /\ failed' \subseteq Msg
          /\ CloseFrame \notin Written' /\ Queued = Queued' \cup {Head(queue)}
          /\ \/ failed' = failed /\ connOpen /\ Written' = Written \cup {Head(queue)}
             \/ failed' # failed /\ (~connOpen \/ PeerBreaks)
        BY <1>1, <1>3, <2>1, WriteHeadMoves
    <2>3. budget' \in 0..Cap /\ writer' \in {"drain", "done"} /\ connOpen' \in BOOLEAN
        <3>1. budget \in 0..Cap /\ Cap \in Nat /\ connOpen \in BOOLEAN
            BY QueueAssumption DEF IInv, QueueTypeOK
        <3>2. budget' \in 0..Cap
            BY <1>3, <2>1, <3>1
        <3>3. writer' \in {"drain", "done"} /\ connOpen' \in BOOLEAN
            BY <1>1, <2>1, <3>1, Zenon
        <3> QED
            BY <3>2, <3>3
    <2>4. QueueTypeOK'
        BY <1>1, <2>2, <2>3 DEF IInv, QueueTypeOK
    <2>5. Pumping'
        BY <1>1, <2>2, <2>3 DEF IInv, Pumping
    <2>6. Flushing'
        <3>1. CASE failed' = failed
            BY <1>1, <1>2, <2>1, <2>2, <3>1 DEF IInv, Flushing
        <3>2. CASE failed' # failed
            BY <1>1, <2>2, <3>2 DEF IInv, Flushing
        <3> QED
            BY <3>1, <3>2
    <2> QED
        BY <2>2, <2>4, <2>5, <2>6 DEF IInv
<1>4. CASE ~(budget > 0 /\ queue # <<>>)
    <2>1. writer' = "select" /\ budget' = 0 /\ UNCHANGED <<queue, wire, connOpen, failed>>
        BY <1>4 DEF PumpDrain
    <2>2. Written' = Written /\ Queued' = Queued
        BY <2>1 DEF Written, Queued
    <2>3. QueueTypeOK'
        BY <1>1, <2>1, QueueAssumption DEF IInv, QueueTypeOK
    <2>4. Line'
        BY <1>1, <2>1, StayKeeps DEF IInv, SameVerdicts
    <2>5. Pumping' /\ Flushing'
        BY <1>1, <1>2, <2>1, <2>2 DEF IInv, Pumping, Flushing
    <2> QED
        BY <2>3, <2>4, <2>5 DEF IInv
<1> QED
    BY <1>3, <1>4

\* writePump sees done and begins to flush, or leaves.
LEMMA PumpSeesDoneKeeps == ASSUME IInv, PumpSeesDone PROVE IInv'
<1> USE DEF sendVars, pumpVars, closeVars, lossVars
<1>1. /\ writer = "select" /\ held = NoMsg /\ CloseFrame \notin Written /\ closeMode # "open"
      /\ UNCHANGED <<policy, queue, sendVars, held, wire, closeMode, unreg, flushDue, lossVars>>
    BY DEF PumpSeesDone, IInv, Pumping
<1>2. \/ /\ closeMode = "graceful" /\ writer' = "flush" /\ budget' = Len(queue) /\ connOpen' = connOpen
      \/ /\ closeMode = "abrupt" /\ writer' = "done" /\ budget' = 0 /\ connOpen' = FALSE
    BY DEF PumpSeesDone, IInv, QueueTypeOK
<1>3. budget' \in 0..Cap
    BY <1>2, QueueAssumption DEF IInv, QueueTypeOK
<1>4. QueueTypeOK'
    BY <1>1, <1>2, <1>3 DEF IInv, QueueTypeOK
<1>5. Line'
    BY <1>1, StayKeeps DEF IInv, SameVerdicts
<1>6. Written' = Written /\ Queued' = Queued /\ \A x : Evicted(x)' = Evicted(x)
    BY <1>1 DEF Written, Queued, Evicted
<1>7. Pumping'
    BY <1>1, <1>2, <1>6 DEF IInv, Pumping
<1>8. \A m \in Queued : \E i \in DOMAIN queue : i <= Len(queue) /\ queue[i] = m
    BY DEF Queued, ToSet, IInv, QueueTypeOK
<1>9. Flushing'
    <2>1. CASE /\ closeMode = "graceful" /\ writer' = "flush"
               /\ budget' = Len(queue) /\ connOpen' = connOpen
        <3> SUFFICES ASSUME ~PeerBreaks PROVE Flushing'
            BY DEF Flushing
        <3>1. /\ connOpen <=> CloseFrame \notin Written
              /\ connOpen <=> writer # "done"
              /\ connOpen => unreg = "no"
            BY DEF IInv, Flushing
        <3>2. ASSUME NEW m \in flushDue, m \notin Written, ~Evicted(m)
              PROVE  \E i \in DOMAIN queue : i <= Len(queue) /\ queue[i] = m
            <4>1. m \in Queued \/ held = m
                BY <1>1, <3>2 DEF IInv, Flushing
            <4>2. m \in Msg
                BY <3>2 DEF IInv, QueueTypeOK
            <4> QED
                BY <1>1, <1>8, <4>1, <4>2, QueueAssumption
        <3> QED
            BY <1>1, <1>6, <2>1, <3>1, <3>2 DEF Flushing
    <2>2. CASE /\ closeMode = "abrupt" /\ writer' = "done"
               /\ budget' = 0 /\ connOpen' = FALSE
        BY <1>1, <1>6, <2>2, QueueAssumption DEF IInv, Flushing
    <2> QED
        BY <1>2, <2>1, <2>2
<1> QED
    BY <1>4, <1>5, <1>7, <1>9 DEF IInv

\* A round of the flush.
LEMMA PumpFlushKeeps == ASSUME IInv, PumpFlush PROVE IInv'
<1> USE DEF sendVars, pumpVars, closeVars, lossVars
<1>1. /\ writer = "flush" /\ held = NoMsg /\ CloseFrame \notin Written
      /\ UNCHANGED <<policy, sendVars, held, closeVars, reported, purged>>
    BY DEF PumpFlush, IInv, Pumping
<1>2. \A x : Evicted(x)' = Evicted(x)
    BY <1>1 DEF Evicted
<1>3. CASE budget > 0 /\ queue # <<>>
    <2>1. /\ WriteHead /\ writer' = writer
          /\ \/ failed' = failed /\ budget' = budget - 1
             \/ failed' # failed /\ budget' = 0
        BY <1>3 DEF PumpFlush
    <2>2. /\ Line' /\ queue' \in Seq(Msg) /\ Len(queue') <= Cap
          /\ wire' \in Seq(Msg \cup {CloseFrame}) /\ failed' \subseteq Msg
          /\ CloseFrame \notin Written' /\ Head(queue) = queue[1]
          /\ DOMAIN queue = 1..Len(queue) /\ Len(queue) \in Nat \ {0}
          /\ DOMAIN queue' = 1..(Len(queue) - 1)
          /\ \A i \in DOMAIN queue' : queue'[i] = queue[i + 1]
          /\ \/ failed' = failed /\ connOpen /\ Written' = Written \cup {Head(queue)}
             \/ failed' # failed /\ (~connOpen \/ PeerBreaks)
        BY <1>1, <1>3, <2>1, WriteHeadMoves
    <2>3. budget' \in 0..Cap /\ budget \in 0..Cap /\ Cap \in Nat
        BY <1>3, <2>1, QueueAssumption DEF IInv, QueueTypeOK
    <2>4. QueueTypeOK'
        BY <1>1, <2>1, <2>2, <2>3 DEF IInv, QueueTypeOK
    <2>5. Pumping'
        BY <1>1, <2>1, <2>2 DEF IInv, Pumping
    <2>6. ASSUME ~PeerBreaks, NEW m \in flushDue, m \notin Written', ~Evicted(m)
          PROVE  \E i \in DOMAIN queue' : i <= budget' /\ queue'[i] = m
        <3>1. connOpen /\ failed' = failed /\ budget' = budget - 1 /\ Written' = Written \cup {Head(queue)}
            BY <1>1, <2>1, <2>2, <2>6 DEF IInv, Flushing
        <3>2. PICK i \in DOMAIN queue : i <= budget /\ queue[i] = m
            BY <1>1, <2>6, <3>1 DEF IInv, Flushing
        <3>3. i # 1
            BY <2>2, <2>6, <3>1, <3>2
        <3>4. i - 1 \in DOMAIN queue' /\ i - 1 <= budget' /\ queue'[i - 1] = m
            BY <2>2, <2>3, <3>1, <3>2, <3>3
        <3> QED
            BY <3>4
    <2>7. Flushing'
        BY <1>1, <1>2, <2>1, <2>2, <2>6 DEF IInv, Flushing
    <2> QED
        BY <2>2, <2>4, <2>5, <2>7 DEF IInv
<1>4. CASE ~(budget > 0 /\ queue # <<>>)
    <2>1. writer' = "frame" /\ budget' = 0 /\ UNCHANGED <<queue, wire, failed>>
        BY <1>4 DEF PumpFlush
    <2>2. Written' = Written /\ Queued' = Queued
        BY <2>1 DEF Written, Queued
    <2>3. QueueTypeOK'
        BY <1>1, <2>1, QueueAssumption DEF IInv, QueueTypeOK
    <2>4. Line'
        BY <1>1, <2>1, StayKeeps DEF IInv, SameVerdicts
    <2>5. ~\E i \in DOMAIN queue : i <= budget
        BY <1>4, QueueAssumption DEF IInv, QueueTypeOK
    <2>6. Pumping' /\ Flushing'
        BY <1>1, <1>2, <2>1, <2>2, <2>5 DEF IInv, Pumping, Flushing
    <2> QED
        BY <2>3, <2>4, <2>6 DEF IInv
<1> QED
    BY <1>3, <1>4

\* The close frame is written, or lost with the connection.
LEMMA PumpCloseFrameKeeps == ASSUME IInv, PumpCloseFrame PROVE IInv'
<1> USE DEF sendVars, pumpVars, closeVars, lossVars
<1>1. /\ writer = "frame" /\ held = NoMsg /\ CloseFrame \notin Written
      /\ writer' = "done" /\ connOpen' = FALSE
      /\ UNCHANGED <<policy, queue, sendVars, held, budget, closeMode, unreg, flushDue, lossVars>>
    BY DEF PumpCloseFrame, IInv, Pumping
<1>2. Queued' = Queued /\ \A x : Evicted(x)' = Evicted(x)
    BY <1>1 DEF Queued, Evicted
<1>3. CASE connOpen /\ wire' = Append(wire, CloseFrame)
    <2>1. Line' /\ Written' = Written \cup {CloseFrame}
        BY <1>1, <1>3, FrameKeeps DEF IInv
    <2>2. wire' \in Seq(Msg \cup {CloseFrame})
        BY <1>3 DEF IInv, QueueTypeOK
    <2>3. QueueTypeOK'
        BY <1>1, <2>2 DEF IInv, QueueTypeOK
    <2>4. Pumping' /\ Flushing'
        BY <1>1, <1>2, <2>1 DEF IInv, Pumping, Flushing
    <2> QED
        BY <2>1, <2>3, <2>4 DEF IInv
<1>4. CASE (~connOpen \/ PeerBreaks) /\ UNCHANGED wire
    <2>1. Written' = Written
        BY <1>4 DEF Written
    <2>2. QueueTypeOK'
        BY <1>1, <1>4 DEF IInv, QueueTypeOK
    <2>3. Line'
        BY <1>1, <1>4, StayKeeps DEF IInv, SameVerdicts
    <2>4. PeerBreaks
        BY <1>1, <1>4 DEF IInv, Flushing
    <2>5. Pumping' /\ Flushing'
        BY <1>1, <2>1, <2>4 DEF IInv, Pumping, Flushing
    <2> QED
        BY <2>2, <2>3, <2>5 DEF IInv
<1> QED
    BY <1>3, <1>4 DEF PumpCloseFrame

\* Every step of writePump keeps the invariant.
LEMMA PumpKeeps == ASSUME IInv, WritePumpStep PROVE IInv'
BY PumpTakeKeeps, PumpWriteKeeps, PumpDrainKeeps, PumpSeesDoneKeeps, PumpFlushKeeps,
   PumpCloseFrameKeeps, PumpFailsKeeps DEF WritePumpStep

-----------------------------------------------------------------------------
\* The client is closed gracefully.
LEMMA CloseKeeps == ASSUME IInv, QueueCloseWithCode PROVE IInv'
<1> USE DEF sendVars, pumpVars, closeVars, lossVars
<1>1. /\ closeMode = "open" /\ closeMode' = "graceful"
      /\ flushDue' = Queued \cup ({held} \ {NoMsg})
      /\ UNCHANGED <<policy, queue, sendVars, pumpVars, unreg, connOpen, lossVars>>
    BY DEF QueueCloseWithCode, Queued
<1>2. Written' = Written /\ Queued' = Queued /\ \A x : Evicted(x)' = Evicted(x)
    BY <1>1 DEF Written, Queued, Evicted
<1>3. flushDue' \subseteq Msg
    BY <1>1 DEF IInv, QueueTypeOK, Queued, ToSet
<1>4. QueueTypeOK'
    BY <1>1, <1>3 DEF IInv, QueueTypeOK
<1>5. Line'
    BY <1>1, StayKeeps DEF IInv, SameVerdicts
<1>6. Pumping'
    BY <1>1, <1>2 DEF IInv, Pumping
<1>7. Flushing'
    BY <1>1, <1>2 DEF IInv, QueueTypeOK, Flushing
<1> QED
    BY <1>4, <1>5, <1>6, <1>7 DEF IInv

\* Run unregisters the client.
LEMMA UnregisterKeeps == ASSUME IInv, QueueUnregister PROVE IInv'
<1> USE DEF sendVars, pumpVars, closeVars, lossVars
<1>1. /\ (~connOpen \/ PeerBreaks) /\ unreg' = "purging" /\ connOpen' = FALSE
      /\ closeMode' \in {"graceful", "abrupt"}
      /\ UNCHANGED <<policy, queue, sendVars, pumpVars, flushDue, lossVars>>
    BY DEF QueueUnregister, IInv, QueueTypeOK
<1>2. Written' = Written /\ Queued' = Queued /\ \A x : Evicted(x)' = Evicted(x)
    BY DEF Written, Queued, Evicted, QueueUnregister
<1>3. QueueTypeOK'
    BY <1>1 DEF IInv, QueueTypeOK, QueueUnregister
<1>4. Line'
    BY StayKeeps DEF IInv, QueueUnregister, SameVerdicts
<1>5. Pumping'
    BY <1>2 DEF IInv, Pumping, QueueUnregister
<1>6. Flushing'
    BY <1>2 DEF IInv, QueueTypeOK, Flushing, QueueUnregister
<1> QED
    BY <1>3, <1>4, <1>5, <1>6 DEF IInv

\* handleUnregister empties the channel.
LEMMA PurgeKeeps == ASSUME IInv, Purge PROVE IInv'
<1> USE DEF sendVars, pumpVars, closeVars, lossVars
<1>1. /\ unreg = "purging"
      /\ UNCHANGED <<policy, sendVars, pumpVars, closeMode, connOpen, flushDue, reported, failed>>
    BY DEF Purge
<1>2. Written' = Written /\ \A x : Evicted(x)' = Evicted(x)
    BY <1>1 DEF Written, Evicted
<1>3. Pumping'
    BY <1>1, <1>2 DEF IInv, Pumping
<1>4. Flushing'
    BY <1>1, <1>2 DEF IInv, Flushing
<1>5. CASE queue = <<>>
    <2>1. unreg' = "done" /\ UNCHANGED <<queue, purged>>
        BY <1>5 DEF Purge
    <2>2. QueueTypeOK'
        BY <1>1, <2>1 DEF IInv, QueueTypeOK
    <2>3. Line'
        BY <1>1, <2>1, StayKeeps DEF IInv, SameVerdicts
    <2> QED
        BY <1>3, <1>4, <2>2, <2>3 DEF IInv
<1>6. CASE queue # <<>>
    <2>1. queue' = Tail(queue) /\ purged' = purged \cup {Head(queue)} /\ UNCHANGED unreg
        BY <1>6 DEF Purge
    <2>2. queue' \in Seq(Msg) /\ Len(queue') <= Cap /\ Head(queue) \in Msg
        BY <1>6, <2>1, HeadTaken DEF IInv
    <2>3. QueueTypeOK'
        BY <1>1, <2>1, <2>2 DEF IInv, QueueTypeOK
    <2>4. Line'
        BY <1>1, <1>6, <2>1, DropHeadKeeps DEF IInv, Loses, SameVerdicts
    <2> QED
        BY <1>3, <1>4, <2>3, <2>4 DEF IInv
<1> QED
    BY <1>5, <1>6

-----------------------------------------------------------------------------
\* The initial state satisfies the invariant.
LEMMA InitOK == QueueInit => IInv
<1> SUFFICES ASSUME QueueInit PROVE IInv
    OBVIOUS
<1>1. QueueTypeOK
    BY QueueAssumption DEF QueueInit, QueueTypeOK, Settled
<1>2. ToSet(<<>>) = {} /\ IsInjective(<<>>) /\ DOMAIN <<>> = {}
    BY DEF ToSet, IsInjective
<1>3. /\ Queued = {} /\ Written = {} /\ Accepted = {} /\ Handled = {} /\ Gone = {} /\ held = NoMsg /\ NoMsg \notin Msg
      /\ queue = <<>> /\ wire = <<>>
    BY <1>2, QueueAssumption DEF QueueInit, Queued, Written, Accepted, Handled, Gone
<1>4. Line
    BY <1>2, <1>3 DEF QueueInit, Line, Placed, Apart, InLine, WireInOrder
<1>5. Pumping /\ Flushing
    BY <1>3 DEF QueueInit, Pumping, Flushing
<1> QED
    BY <1>1, <1>4, <1>5 DEF IInv

\* Every step keeps the invariant.
LEMMA InvStep == IInv /\ [QueueNext]_queueVars => IInv'
<1> SUFFICES ASSUME IInv, [QueueNext]_queueVars PROVE IInv'
    OBVIOUS
<1>1. CASE \E m \in Msg : Send(m) \/ BlockingSend(m) \/ TryStep(m)
    BY <1>1, SenderKeeps
<1>2. CASE WritePumpStep
    BY <1>2, PumpKeeps
<1>3. CASE QueueCloseWithCode \/ QueueUnregister \/ Purge
    BY <1>3, CloseKeeps, UnregisterKeeps, PurgeKeeps
<1>4. CASE UNCHANGED queueVars
    <2>1. QueueTypeOK'
        BY <1>4 DEF queueVars, sendVars, pumpVars, closeVars, lossVars, IInv, QueueTypeOK
    <2>2. Line'
        BY <1>4, StayKeeps DEF queueVars, sendVars, pumpVars, IInv, SameVerdicts
    <2>3. Flushing' /\ Pumping'
        BY <1>4, FlushingStays DEF queueVars, sendVars, pumpVars, closeVars
    <2> QED
        BY <2>1, <2>2, <2>3 DEF IInv
<1> QED
    BY <1>1, <1>2, <1>3, <1>4 DEF QueueNext

\* The invariant holds in every state.
LEMMA Invariance == QueueSpec => []IInv
BY InitOK, InvStep, PTL DEF QueueSpec

\* The channel of a client never holds more than config.SendChannelSize
\* messages, and every variable of its send path keeps its type.
THEOREM TypeCorrect == QueueSpec => []QueueTypeOK
<1>1. IInv => QueueTypeOK
    BY DEF IInv
<1> QED
    BY Invariance, <1>1, PTL

\* A sequence that holds no item twice holds one copy of what it holds.
LEMMA CountOne ==
    ASSUME NEW S, NEW s \in Seq(S), IsInjective(s), NEW m
    PROVE  Count(m, s) = IF m \in ToSet(s) THEN 1 ELSE 0
<1>1. CASE m \in ToSet(s)
    <2>1. PICK i \in DOMAIN s : s[i] = m
        BY <1>1 DEF ToSet
    <2>2. {j \in DOMAIN s : s[j] = m} = {i}
        BY <2>1 DEF IsInjective
    <2> QED
        BY <1>1, <2>2, FS_Singleton DEF Count
<1>2. CASE m \notin ToSet(s)
    <2>1. {j \in DOMAIN s : s[j] = m} = {}
        BY <1>2 DEF ToSet
    <2> QED
        BY <1>2, <2>1, FS_EmptySet DEF Count
<1> QED
    BY <1>1, <1>2

\* Whatever the senders, writePump, CloseWithCode and handleUnregister do, a
\* message that was accepted, or dropped for a full buffer, is in exactly one
\* place: queued, held, written, reported as dropped, lost in a failed write, or
\* purged by handleUnregister without a word; a dropped one was reported; and no
\* other message is in any.
THEOREM AcceptedOnce == QueueSpec => []ExactlyOnePlace
<1>1. IInv => ExactlyOnePlace
    <2> SUFFICES ASSUME IInv, NEW m \in Msg
                 PROVE  /\ Copies(m) = IF pc[m] \in {"ok", "dropped"} THEN 1 ELSE 0
                        /\ pc[m] = "dropped" => m \in reported
        BY DEF ExactlyOnePlace
    <2>1. /\ queue \in Seq(Msg) /\ IsInjective(queue)
          /\ wire \in Seq(Msg \cup {CloseFrame}) /\ IsInjective(wire)
        BY DEF IInv, QueueTypeOK, Line, Placed
    <2>2. Count(m, queue) = IF m \in Queued THEN 1 ELSE 0
        BY <2>1, CountOne DEF Queued
    <2>3. Count(m, wire) = IF m \in Written THEN 1 ELSE 0
        BY <2>1, CountOne DEF Written
    <2>4. /\ pc[m] \in {"ok", "dropped"} <=>
                m \in Queued \/ m \in Written \/ held = m \/ m \in Gone
          /\ m \in Queued => m \notin Written /\ held # m /\ m \notin Gone
          /\ m \in Written => held # m /\ m \notin Gone
          /\ held = m => m \notin Gone
        BY DEF IInv, Line, Placed, Handled
    <2>5. /\ pc[m] = "dropped" => m \in reported
          /\ Has(reported, m) + Has(failed, m) + Has(purged, m) = IF m \in Gone THEN 1 ELSE 0
        BY DEF IInv, Line, Apart, Gone, Has
    <2>6. Has({held}, m) = IF held = m THEN 1 ELSE 0
        BY DEF Has
    <2>7. Has(reported, m) \in Nat /\ Has(failed, m) \in Nat /\ Has(purged, m) \in Nat
        BY DEF Has
    <2> QED
        BY <2>2, <2>3, <2>4, <2>5, <2>6, <2>7 DEF Copies
<1> QED
    BY Invariance, <1>1, PTL

\* The peer receives the messages in the order in which the sends were made.
THEOREM SentInOrder == QueueSpec => []WireInOrder
<1>1. IInv => WireInOrder
    BY DEF IInv, Line, InLine
<1> QED
    BY Invariance, <1>1, PTL

\* A graceful close of a healthy connection has flushed what was queued when
\* the close frame is on the wire.
THEOREM FlushedBeforeFrame == QueueSpec => []GracefulFlush
<1>1. IInv => GracefulFlush
    <2> SUFFICES ASSUME IInv, ~PeerBreaks, CloseFrame \in Written, NEW m \in flushDue
                 PROVE  m \in Written \/ Evicted(m)
        BY DEF GracefulFlush, Written, Evicted
    <2>1. writer = "done"
        BY DEF IInv, Pumping
    <2> QED
        BY <2>1 DEF IInv, Flushing
<1> QED
    BY Invariance, <1>1, PTL
=============================================================================
