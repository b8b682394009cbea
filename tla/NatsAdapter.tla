----------------------------- MODULE NatsAdapter -----------------------------
(***************************************************************************)
(* Subscribe and Close of the NATS adapter (adapter/nats/nats.go), called  *)
(* concurrently.  a.mu is held for the claim and for the installation of a *)
(* subscription only; conn.Subscribe, the wait for the watcher of the      *)
(* subscription that is replaced, and Drain happen without it, so another  *)
(* Subscribe or Close may come in between.  A generation number tells a    *)
(* call that it was overtaken.  Drain only starts the draining of a        *)
(* subscription: the NATS client still calls the handler for the messages  *)
(* that have arrived, and is done with it some time later.                 *)
(***************************************************************************)
EXTENDS Naturals

CONSTANTS
    NatsSub,   \* Subscribe calls, with the subscriptions they make
    NoSub

ASSUME NatsAssumption == NoSub \notin NatsSub

VARIABLES
    natsClosed,   \* a.closed
    natsCur,      \* a.cur
    natsGen,      \* a.gen
    natsCall,     \* each Subscribe: where it is, its generation, what it took over
    natsSub,      \* subscription in the NATS client: none, live, draining, drained
    natsWatcher,  \* watcher goroutine: none, watching, exited
    natsStop,     \* subscriptions whose stop channel is closed
    natsCtx,      \* calls whose context is done
    natsClose     \* the Close call, and what it took over

natsShared == <<natsClosed, natsCur, natsGen>>
natsVars == <<natsShared, natsCall, natsSub, natsWatcher, natsStop, natsCtx,
              natsClose>>

NatsInit ==
    /\ natsClosed = FALSE /\ natsCur = NoSub /\ natsGen = 0
    /\ natsCall = [s \in NatsSub |-> [pc |-> "idle", gen |-> 0, prev |-> NoSub]]
    /\ natsSub = [s \in NatsSub |-> "none"]
    /\ natsWatcher = [s \in NatsSub |-> "none"]
    /\ natsStop = {} /\ natsCtx = {}
    /\ natsClose = [pc |-> "idle", prev |-> NoSub]

\* Where a call goes once it owns the subscription it found in a.cur.
AfterTaking(prev, next) == IF prev = NoSub THEN next ELSE "release"

\* drain, guarded by drainOnce: sub.Drain unsubscribes, and does not wait for the
\* handlers of the messages that have arrived.
StartDrain(s) ==
    natsSub' = [natsSub EXCEPT ![s] = IF @ = "live" THEN "draining" ELSE @]

\* A Subscribe call that has not returned.
InProgress == {"release", "await", "dial", "install", "discard"}

-----------------------------------------------------------------------------
(* Subscribe                                                               *)

\* Under a.mu: refuse, or claim a generation and take the current subscription.
NatsSubscribe(s) ==
    /\ natsCall[s].pc = "idle"
    /\ IF natsClosed
       THEN /\ natsCall' = [natsCall EXCEPT ![s].pc = "refused"]
            /\ UNCHANGED natsShared
       ELSE /\ natsGen' = natsGen + 1
            /\ natsCur' = NoSub
            /\ natsCall' = [natsCall EXCEPT ![s] =
                              [pc |-> AfterTaking(natsCur, "dial"),
                               gen |-> natsGen + 1, prev |-> natsCur]]
            /\ UNCHANGED natsClosed
    /\ UNCHANGED <<natsSub, natsWatcher, natsStop, natsCtx, natsClose>>

\* prev.release closes its stop channel and waits for its watcher.
NatsRelease(s) ==
    /\ natsCall[s].pc = "release"
    /\ natsStop' = natsStop \cup {natsCall[s].prev}
    /\ natsCall' = [natsCall EXCEPT ![s].pc = "await"]
    /\ UNCHANGED <<natsShared, natsSub, natsWatcher, natsCtx, natsClose>>

\* The watcher is done; prev.drain, once.
NatsDrainPrev(s) ==
    /\ natsCall[s].pc = "await"
    /\ natsWatcher[natsCall[s].prev] = "exited"
    /\ StartDrain(natsCall[s].prev)
    /\ natsCall' = [natsCall EXCEPT ![s].pc = "dial"]
    /\ UNCHANGED <<natsShared, natsWatcher, natsStop, natsCtx, natsClose>>

\* conn.Subscribe, without the lock: it may fail.
NatsDial(s) ==
    /\ natsCall[s].pc = "dial"
    /\ \/ /\ natsSub' = [natsSub EXCEPT ![s] = "live"]
          /\ natsCall' = [natsCall EXCEPT ![s].pc = "install"]
       \/ /\ natsCall' = [natsCall EXCEPT ![s].pc = "failed"]
          /\ UNCHANGED natsSub
    /\ UNCHANGED <<natsShared, natsWatcher, natsStop, natsCtx, natsClose>>

InstallUnchecked(s) ==
    /\ natsCall[s].pc = "install"
    /\ natsCur' = s
    /\ natsWatcher' = [natsWatcher EXCEPT ![s] = "watching"]
    /\ natsCall' = [natsCall EXCEPT ![s].pc = "ok"]
    /\ UNCHANGED <<natsClosed, natsGen, natsSub, natsStop, natsCtx, natsClose>>

\* Under a.mu again: the adapter was closed, or a later Subscribe has claimed
\* it, or the subscription is installed and its watcher started.
NatsInstall(s) ==
    /\ natsCall[s].pc = "install"
    /\ IF natsClosed \/ natsGen # natsCall[s].gen
       THEN /\ natsCall' = [natsCall EXCEPT ![s].pc = "discard"]
            /\ UNCHANGED <<natsCur, natsWatcher>>
       ELSE /\ natsCur' = s
            /\ natsWatcher' = [natsWatcher EXCEPT ![s] = "watching"]
            /\ natsCall' = [natsCall EXCEPT ![s].pc = "ok"]
    /\ UNCHANGED <<natsClosed, natsGen, natsSub, natsStop, natsCtx, natsClose>>

\* The subscription that never became visible is drained by its own call.
NatsDiscard(s) ==
    /\ natsCall[s].pc = "discard"
    /\ StartDrain(s)
    /\ natsCall' = [natsCall EXCEPT ![s].pc = "overtaken"]
    /\ UNCHANGED <<natsShared, natsWatcher, natsStop, natsCtx, natsClose>>

\* The caller cancels the context it has passed, which only the watcher reads.
NatsCancel(s) ==
    /\ natsCall[s].pc \in InProgress \/ natsWatcher[s] = "watching"
    /\ natsCtx' = natsCtx \cup {s}
    /\ UNCHANGED <<natsShared, natsCall, natsSub, natsWatcher, natsStop, natsClose>>

\* The watcher: drain on ctx.Done, nothing on stop, then done is closed.
NatsWatch(s) ==
    /\ natsWatcher[s] = "watching"
    /\ \/ s \in natsCtx /\ StartDrain(s)
       \/ s \in natsStop /\ UNCHANGED natsSub
    /\ natsWatcher' = [natsWatcher EXCEPT ![s] = "exited"]
    /\ UNCHANGED <<natsShared, natsCall, natsStop, natsCtx, natsClose>>

\* The NATS client has called the handler for the last pending message.
NatsFinishDrain(s) ==
    /\ natsSub[s] = "draining"
    /\ natsSub' = [natsSub EXCEPT ![s] = "drained"]
    /\ UNCHANGED <<natsShared, natsCall, natsWatcher, natsStop, natsCtx, natsClose>>

-----------------------------------------------------------------------------
(* Close                                                                   *)

\* Under a.mu: closed is set and the current subscription taken.
NatsBeginClose ==
    /\ natsClose.pc = "idle"
    /\ natsClosed' = TRUE
    /\ natsCur' = NoSub
    /\ natsClose' = [pc |-> AfterTaking(natsCur, "return"), prev |-> natsCur]
    /\ UNCHANGED <<natsGen, natsCall, natsSub, natsWatcher, natsStop, natsCtx>>

\* cur.release closes its stop channel and waits for its watcher.
NatsCloseRelease ==
    /\ natsClose.pc = "release"
    /\ natsStop' = natsStop \cup {natsClose.prev}
    /\ natsClose' = [natsClose EXCEPT !.pc = "await"]
    /\ UNCHANGED <<natsShared, natsCall, natsSub, natsWatcher, natsCtx>>

\* The watcher is done; cur.drain, once.
NatsCloseDrain ==
    /\ natsClose.pc = "await"
    /\ natsWatcher[natsClose.prev] = "exited"
    /\ StartDrain(natsClose.prev)
    /\ natsClose' = [natsClose EXCEPT !.pc = "return"]
    /\ UNCHANGED <<natsShared, natsCall, natsWatcher, natsStop, natsCtx>>

\* Close returns, at once if there was no subscription.
NatsCloseReturn ==
    /\ natsClose.pc = "return"
    /\ natsClose' = [natsClose EXCEPT !.pc = "done"]
    /\ UNCHANGED <<natsShared, natsCall, natsSub, natsWatcher, natsStop, natsCtx>>

-----------------------------------------------------------------------------
NatsCallStep(s) ==
    \/ NatsRelease(s) \/ NatsDrainPrev(s) \/ NatsDial(s) \/ NatsInstall(s)
    \/ NatsDiscard(s)

NatsCloseStep == NatsCloseReturn \/ NatsCloseRelease \/ NatsCloseDrain

NatsNext ==
    \/ \E s \in NatsSub :
          \/ NatsSubscribe(s) \/ NatsCallStep(s) \/ NatsCancel(s) \/ NatsWatch(s)
          \/ NatsFinishDrain(s)
    \/ NatsBeginClose \/ NatsCloseStep

\* Calls in progress and watchers with something to do take their next step, and
\* the handlers of pending messages return.
NatsFairness ==
    /\ WF_natsVars(NatsCloseStep)
    /\ \A s \in NatsSub :
          /\ WF_natsVars(NatsCallStep(s)) /\ WF_natsVars(NatsWatch(s))
          /\ WF_natsVars(NatsFinishDrain(s))

NatsSpec == NatsInit /\ [][NatsNext]_natsVars /\ NatsFairness

-----------------------------------------------------------------------------
(* Refinement                                                              *)

\* The subscription receives nothing new and its watcher is gone.
NatsReleased(s) == natsSub[s] # "live" /\ natsWatcher[s] # "watching"

NatsPhase(s) ==
    CASE natsCall[s].pc = "idle"                          -> "idle"
      [] natsCall[s].pc \in InProgress                    -> "calling"
      [] natsCall[s].pc = "ok" /\ natsCur = s
                               /\ ~NatsReleased(s)        -> "serving"
      [] natsCall[s].pc = "ok" /\ natsCur # s
                               /\ ~NatsReleased(s)        -> "retiring"
      [] /\ natsCall[s].pc \in {"ok", "overtaken"}
         /\ NatsReleased(s) /\ natsSub[s] = "draining"    -> "draining"
      [] OTHER                                            -> "ended"

NatsContract == INSTANCE AdapterContract WITH
    Sub    <- NatsSub,
    Drains <- TRUE,
    phase  <- [s \in NatsSub |-> NatsPhase(s)],
    gate   <- IF ~natsClosed THEN "open"
              ELSE IF natsClose.pc = "done" THEN "closed" ELSE "closing"

\* The NATS adapter keeps the contract: one current subscription, and no live
\* subscription and no watcher left when Close and every Subscribe have returned,
\* however they overlap.  What is left then can only be draining.
NatsImplements == NatsContract!ContractSpec

\* Its calls return and its subscriptions end.
NatsLetsGo == NatsContract!LetsGo
=============================================================================
