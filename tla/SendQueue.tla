----------------------------- MODULE SendQueue -----------------------------
(***************************************************************************)
(* The send path of one client: concurrent senders put messages into the   *)
(* buffered channel client.send (trySendErr with its drop policy, and the  *)
(* blocking sends with a context), writePump takes them out and writes     *)
(* them, CloseWithCode asks for a flush and a close frame, and             *)
(* handleUnregister drops what is left.                                    *)
(*                                                                         *)
(* A message stands for the call that sends it, so Msg is also the set of  *)
(* sender goroutines.  Every channel operation is one step, because the    *)
(* fast path of trySendErr takes no lock.  Coalesced writes are not        *)
(* modelled here: config.CoalesceWrites is false.                          *)
(***************************************************************************)
EXTENDS Naturals, FiniteSets, Sequences, SequencesExt

CONSTANTS
    Msg,         \* messages, one send call each
    Blocking,    \* the messages sent with a context: they wait for room
    CloseFrame,  \* the frame writePump sends last
    NoMsg,
    Cap,         \* config.SendChannelSize
    PeerBreaks   \* TRUE: the peer may disconnect, a write may fail

ASSUME QueueAssumption ==
    /\ Blocking \subseteq Msg
    /\ CloseFrame \notin Msg /\ NoMsg \notin Msg
    /\ Cap \in Nat \ {0}
    /\ PeerBreaks \in BOOLEAN

VARIABLES
    policy,    \* hub.dropPolicy, fixed by the options of NewHub
    queue,     \* client.send
    pc,        \* the send call of each message
    tries,     \* evict+enqueue rounds left to the holder of sendMu
    sendMu,    \* its holder, or NoMsg
    closeMode, \* "open", or how client.closed was set and done was closed
    unreg,     \* handleUnregister of this client
    connOpen,  \* TRUE until the connection is closed
    writer,    \* writePump
    held,      \* the item writePump took in its select, or NoMsg
    budget,    \* what is left of n in drainQueued
    wire,      \* what the peer receives
    reported,  \* messages given to notifySendDropped: counted, logged, hook
    failed,    \* messages whose write failed: counted as a write error
    purged,    \* messages handleUnregister threw away, of which nobody is told
    victims,   \* for each message, what its DropOldest call evicted
    prior,     \* history: what had been accepted when a send began
    flushDue   \* history: what was queued or held when CloseWithCode was called

sendVars == <<pc, tries, sendMu, victims, prior>>
pumpVars == <<writer, held, budget, wire>>
closeVars == <<closeMode, unreg, connOpen, flushDue>>
lossVars == <<reported, failed, purged>>
queueVars == <<policy, queue, sendVars, pumpVars, closeVars, lossVars>>

HasRoom == Len(queue) < Cap

QueueInit ==
    /\ policy \in {"DropNewest", "DropOldest"}
    /\ queue = <<>>
    /\ pc = [m \in Msg |-> "new"]
    /\ tries = 0 /\ sendMu = NoMsg
    /\ victims = [m \in Msg |-> {}] /\ prior = [m \in Msg |-> {}]
    /\ writer = "select" /\ held = NoMsg /\ budget = 0 /\ wire = <<>>
    /\ closeMode = "open" /\ unreg = "no" /\ connOpen = TRUE /\ flushDue = {}
    /\ reported = {} /\ failed = {} /\ purged = {}

-----------------------------------------------------------------------------
(* Senders                                                                 *)

\* The closed check under client.mu.  BroadcastWithContext does not make it.
Send(m) ==
    /\ pc[m] = "new"
    /\ \/ /\ closeMode = "open" \/ m \in Blocking
          /\ pc' = [pc EXCEPT ![m] = IF m \in Blocking THEN "block" ELSE "fast"]
       \/ /\ closeMode # "open"
          /\ pc' = [pc EXCEPT ![m] = "refused"]
    /\ prior' = [prior EXCEPT ![m] = {x \in Msg : pc[x] = "ok"}]
    /\ UNCHANGED <<policy, queue, tries, sendMu, victims, pumpVars, closeVars,
                   lossVars>>

\* A blocking send finds room, or its context ends.
BlockingSend(m) ==
    /\ pc[m] = "block"
    /\ \/ /\ HasRoom
          /\ queue' = Append(queue, m)
          /\ pc' = [pc EXCEPT ![m] = "ok"]
       \/ /\ pc' = [pc EXCEPT ![m] = "expired"]
          /\ UNCHANGED queue
    /\ UNCHANGED <<policy, tries, sendMu, victims, prior, pumpVars, closeVars,
                   lossVars>>

\* The end of trySendErr: notifySendDropped, and the send reports failure.
Drop(m) ==
    /\ pc' = [pc EXCEPT ![m] = "dropped"]
    /\ reported' = reported \cup {m}

\* The non-blocking send of trySendErr; a full buffer goes by the policy.
FastPath(m) ==
    /\ pc[m] = "fast"
    /\ IF HasRoom
       THEN /\ queue' = Append(queue, m)
            /\ pc' = [pc EXCEPT ![m] = "ok"]
            /\ UNCHANGED reported
       ELSE /\ IF policy = "DropOldest"
               THEN pc' = [pc EXCEPT ![m] = "lock"] /\ UNCHANGED reported
               ELSE Drop(m)
            /\ UNCHANGED queue
    /\ UNCHANGED <<policy, tries, sendMu, victims, prior, pumpVars, closeVars,
                   failed, purged>>

\* trySendDropOldest takes sendMu, which fast-path senders do not.
Lock(m) ==
    /\ pc[m] = "lock"
    /\ sendMu = NoMsg
    /\ sendMu' = m
    /\ tries' = 2
    /\ pc' = [pc EXCEPT ![m] = "recheck"]
    /\ UNCHANGED <<policy, queue, victims, prior, pumpVars, closeVars, lossVars>>

\* Leaving trySendDropOldest: the deferred unlock.
Unlock ==
    /\ sendMu' = NoMsg
    /\ tries' = 0

RecheckGoesOn(m) ==
    /\ pc[m] = "recheck"
    /\ queue' = IF HasRoom THEN Append(queue, m) ELSE queue
    /\ pc' = [pc EXCEPT ![m] = "evict"]
    /\ UNCHANGED <<policy, tries, sendMu, victims, prior, pumpVars, closeVars,
                   lossVars>>

\* The re-check under the lock.
Recheck(m) ==
    /\ pc[m] = "recheck"
    /\ IF HasRoom
       THEN /\ queue' = Append(queue, m)
            /\ pc' = [pc EXCEPT ![m] = "ok"]
            /\ Unlock
       ELSE /\ pc' = [pc EXCEPT ![m] = "evict"]
            /\ UNCHANGED <<queue, tries, sendMu>>
    /\ UNCHANGED <<policy, victims, prior, pumpVars, closeVars, lossVars>>

\* Evict the oldest message, unless writePump has emptied the buffer.
Evict(m) ==
    /\ pc[m] = "evict"
    /\ IF queue = <<>>
       THEN UNCHANGED <<queue, victims, reported>>
       ELSE /\ queue' = Tail(queue)
            /\ reported' = reported \cup {Head(queue)}
            /\ victims' = [victims EXCEPT ![m] = @ \cup {Head(queue)}]
    /\ pc' = [pc EXCEPT ![m] = "enqueue"]
    /\ UNCHANGED <<policy, tries, sendMu, prior, pumpVars, closeVars, failed, purged>>

EnqueueKeepsLock(m) ==
    /\ pc[m] = "enqueue"
    /\ IF HasRoom
       THEN /\ queue' = Append(queue, m)
            /\ pc' = [pc EXCEPT ![m] = "ok"]
            /\ UNCHANGED <<tries, sendMu, reported>>
       ELSE Drop(m) /\ Unlock /\ UNCHANGED queue
    /\ UNCHANGED <<policy, victims, prior, pumpVars, closeVars, failed, purged>>

\* Enqueue; when a fast-path sender took the slot, another round or give up.
Enqueue(m) ==
    /\ pc[m] = "enqueue"
    /\ CASE HasRoom ->
              /\ queue' = Append(queue, m)
              /\ pc' = [pc EXCEPT ![m] = "ok"]
              /\ Unlock /\ UNCHANGED reported
         [] ~HasRoom /\ tries > 1 ->
              /\ tries' = tries - 1
              /\ pc' = [pc EXCEPT ![m] = "evict"]
              /\ UNCHANGED <<queue, sendMu, reported>>
         [] ~HasRoom /\ tries <= 1 ->
              Drop(m) /\ Unlock /\ UNCHANGED queue
    /\ UNCHANGED <<policy, victims, prior, pumpVars, closeVars, failed, purged>>

TryStep(m) == FastPath(m) \/ Lock(m) \/ Recheck(m) \/ Evict(m) \/ Enqueue(m)

-----------------------------------------------------------------------------
(* writePump                                                               *)

\* select: an item of the channel.
PumpTake ==
    /\ writer = "select"
    /\ queue # <<>>
    /\ held' = Head(queue)
    /\ queue' = Tail(queue)
    /\ writer' = "write"
    /\ UNCHANGED <<policy, sendVars, budget, wire, closeVars, lossVars>>

\* A write, ping or deadline fails: writePump returns and closes the connection.
PumpFails ==
    /\ writer \in {"select", "write", "drain"}
    /\ ~connOpen \/ PeerBreaks
    /\ writer' = "done"
    /\ failed' = IF held = NoMsg THEN failed ELSE failed \cup {held}
    /\ held' = NoMsg
    /\ budget' = 0
    /\ connOpen' = FALSE
    /\ UNCHANGED <<policy, queue, sendVars, wire, closeMode, unreg, flushDue, reported,
                   purged>>

\* drainQueued runs before the item that was taken is written.
WriteAfterDrain ==
    /\ writer = "write"
    /\ connOpen
    /\ IF queue # <<>>
       THEN /\ wire' = Append(wire, Head(queue))
            /\ queue' = Tail(queue)
            /\ UNCHANGED <<writer, held>>
       ELSE /\ wire' = Append(wire, held)
            /\ held' = NoMsg /\ writer' = "drain"
            /\ UNCHANGED queue
    /\ UNCHANGED <<policy, sendVars, budget, closeVars, lossVars>>

\* WriteMessage, then drainQueued reads len(c.send).
PumpWrite ==
    /\ writer = "write"
    /\ connOpen
    /\ wire' = Append(wire, held)
    /\ held' = NoMsg
    /\ budget' = Len(queue)
    /\ writer' = "drain"
    /\ UNCHANGED <<policy, queue, sendVars, closeVars, lossVars>>

\* Take and write the next item; on a broken connection it is lost.
WriteHead ==
    /\ queue' = Tail(queue)
    /\ \/ connOpen /\ wire' = Append(wire, Head(queue)) /\ UNCHANGED failed
       \/ /\ ~connOpen \/ PeerBreaks
          /\ failed' = failed \cup {Head(queue)} /\ UNCHANGED wire

\* One round of drainQueued after a write; an error ends writePump.
PumpDrain ==
    /\ writer = "drain"
    /\ IF budget > 0 /\ queue # <<>>
       THEN /\ WriteHead
            /\ \/ /\ failed' = failed /\ budget' = budget - 1
                  /\ UNCHANGED <<writer, connOpen>>
               \/ /\ failed' # failed /\ budget' = 0
                  /\ writer' = "done" /\ connOpen' = FALSE
       ELSE /\ budget' = 0 /\ writer' = "select"
            /\ UNCHANGED <<queue, wire, connOpen, failed>>
    /\ UNCHANGED <<policy, sendVars, held, closeMode, unreg, flushDue, reported,
                   purged>>

SeeDoneFlushless ==
    /\ writer = "select"
    /\ closeMode # "open"
    /\ writer' = IF closeMode = "graceful" THEN "flush" ELSE "done"
    /\ budget' = 0
    /\ connOpen' = IF closeMode = "graceful" THEN connOpen ELSE FALSE
    /\ UNCHANGED <<policy, queue, sendVars, held, wire, closeMode, unreg,
                   flushDue, lossVars>>

\* select: done is closed.  A graceful close flushes, any other just ends.
PumpSeesDone ==
    /\ writer = "select"
    /\ closeMode # "open"
    /\ writer' = IF closeMode = "graceful" THEN "flush" ELSE "done"
    /\ budget' = IF closeMode = "graceful" THEN Len(queue) ELSE 0
    /\ connOpen' = IF closeMode = "graceful" THEN connOpen ELSE FALSE
    /\ UNCHANGED <<policy, queue, sendVars, held, wire, closeMode, unreg,
                   flushDue, lossVars>>

\* One round of the flush; its result is ignored, the frame is tried anyway.
PumpFlush ==
    /\ writer = "flush"
    /\ IF budget > 0 /\ queue # <<>>
       THEN /\ WriteHead
            /\ \/ failed' = failed /\ budget' = budget - 1
               \/ failed' # failed /\ budget' = 0
            /\ UNCHANGED writer
       ELSE /\ writer' = "frame" /\ budget' = 0
            /\ UNCHANGED <<queue, wire, failed>>
    /\ UNCHANGED <<policy, sendVars, held, closeVars, reported, purged>>

\* writeCloseFrame and the deferred closeConn.
PumpCloseFrame ==
    /\ writer = "frame"
    /\ \/ connOpen /\ wire' = Append(wire, CloseFrame)
       \/ (~connOpen \/ PeerBreaks) /\ UNCHANGED wire
    /\ writer' = "done"
    /\ connOpen' = FALSE
    /\ UNCHANGED <<policy, queue, sendVars, held, budget, closeMode, unreg,
                   flushDue, lossVars>>

WritePumpStep ==
    \/ PumpTake \/ PumpWrite \/ PumpDrain \/ PumpSeesDone \/ PumpFlush
    \/ PumpCloseFrame \/ PumpFails

-----------------------------------------------------------------------------
(* Closing                                                                 *)

\* CloseWithCode: closed and graceful under client.mu, then closeDone.
QueueCloseWithCode ==
    /\ closeMode = "open"
    /\ closeMode' = "graceful"
    /\ flushDue' = ToSet(queue) \cup ({held} \ {NoMsg})
    /\ UNCHANGED <<policy, queue, sendVars, pumpVars, unreg, connOpen, lossVars>>

\* handleUnregister, once the read pump has failed: closed, done, closeConn.
QueueUnregister ==
    /\ unreg = "no"
    /\ ~connOpen \/ PeerBreaks
    /\ unreg' = "purging"
    /\ closeMode' = IF closeMode = "open" THEN "abrupt" ELSE closeMode
    /\ connOpen' = FALSE
    /\ UNCHANGED <<policy, queue, sendVars, pumpVars, flushDue, lossVars>>

\* Its loop that empties the buffer, until it finds it empty.  What it takes out
\* is neither counted nor reported; what is sent after it stays in the channel.
Purge ==
    /\ unreg = "purging"
    /\ IF queue = <<>>
       THEN /\ unreg' = "done"
            /\ UNCHANGED <<queue, purged>>
       ELSE /\ queue' = Tail(queue)
            /\ purged' = purged \cup {Head(queue)}
            /\ UNCHANGED unreg
    /\ UNCHANGED <<policy, sendVars, pumpVars, closeMode, connOpen, flushDue, reported,
                   failed>>

-----------------------------------------------------------------------------
QueueNext ==
    \/ \E m \in Msg : Send(m) \/ BlockingSend(m) \/ TryStep(m)
    \/ WritePumpStep
    \/ QueueCloseWithCode \/ QueueUnregister \/ Purge

QueueSpec == QueueInit /\ [][QueueNext]_queueVars

\* Senders and writePump run when they can, each sender takes the mutex once,
\* and a closed connection makes the read pump unregister the client.
QueueFairness ==
    /\ WF_queueVars(WritePumpStep)
    /\ WF_queueVars(~connOpen /\ QueueUnregister) /\ WF_queueVars(Purge)
    /\ \A m \in Msg : WF_queueVars(TryStep(m))

-----------------------------------------------------------------------------
(* Properties                                                              *)

Settled == {"ok", "dropped", "refused", "expired"}

\* Every variable has its type; the channel never exceeds its capacity.
QueueTypeOK ==
    /\ policy \in {"DropNewest", "DropOldest"}
    /\ queue \in Seq(Msg) /\ Len(queue) <= Cap
    /\ pc \in [Msg -> Settled \cup {"new", "block", "fast", "lock", "recheck",
                                    "evict", "enqueue"}]
    /\ tries \in 0..2
    /\ sendMu \in Msg \cup {NoMsg}
    /\ closeMode \in {"open", "graceful", "abrupt"}
    /\ unreg \in {"no", "purging", "done"}
    /\ connOpen \in BOOLEAN
    /\ writer \in {"select", "write", "drain", "flush", "frame", "done"}
    /\ held \in Msg \cup {NoMsg}
    /\ budget \in 0..Cap
    /\ wire \in Seq(Msg \cup {CloseFrame})
    /\ reported \subseteq Msg /\ failed \subseteq Msg /\ purged \subseteq Msg
    /\ flushDue \subseteq Msg
    /\ victims \in [Msg -> SUBSET Msg] /\ prior \in [Msg -> SUBSET Msg]

Count(m, s) == Cardinality({i \in DOMAIN s : s[i] = m})

Has(S, m) == IF m \in S THEN 1 ELSE 0

\* In how many of the places where a message can be, or be accounted for, m is.
Copies(m) ==
    Count(m, queue) + Count(m, wire) + Has({held}, m)
        + Has(reported, m) + Has(failed, m) + Has(purged, m)

\* A message that trySendErr or a blocking send has accepted, or has dropped for a
\* full buffer, is in exactly one place: in the channel, with writePump, on the
\* wire, reported to OnSendDropped, lost in a failed write, or thrown away by
\* handleUnregister.  So nothing is sent twice or sent after it was reported, what
\* a full buffer costs is always reported, and only handleUnregister loses
\* messages without a trace (those it purges, and those sent after its purge,
\* which stay in the channel).  Any other message is nowhere.
ExactlyOnePlace ==
    \A m \in Msg :
        /\ Copies(m) = IF pc[m] \in {"ok", "dropped"} THEN 1 ELSE 0
        /\ pc[m] = "dropped" => m \in reported

\* The peer receives messages in the order the calls were made: a message
\* accepted before the send of another began is never received after it,
\* evictions and flushes included, and nothing follows the close frame.
WireInOrder ==
    \A i, j \in DOMAIN wire : i < j =>
        /\ wire[i] # CloseFrame
        /\ wire[j] # CloseFrame => wire[j] \notin prior[wire[i]]

\* A graceful close on a healthy connection flushes: when the close frame has
\* been written, all that was queued at CloseWithCode is on the wire, except
\* what a later DropOldest send evicted.
GracefulFlush ==
    (~PeerBreaks /\ CloseFrame \in ToSet(wire)) =>
        \A m \in flushDue : m \in ToSet(wire) \/ \E x \in Msg : m \in victims[x]

\* The comment on trySendErr: evict+enqueue is serialized "to prevent concurrent
\* writers from losing both messages": a send that evicts is not dropped itself.
NotBothLost == \A m \in Msg : pc[m] = "dropped" => victims[m] = {}

\* Every non-blocking send returns, whatever the other senders, the write pump
\* and the closers do.
TrySendReturns ==
    \A m \in Msg \ Blocking : pc[m] # "new" ~> pc[m] \in Settled
=============================================================================
