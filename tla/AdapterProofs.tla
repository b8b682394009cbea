---------------------------- MODULE AdapterProofs ----------------------------
(***************************************************************************)
(* The NATS and the Redis adapter keep the contract a hub relies on, for   *)
(* any number of Subscribe calls that overlap with one another and with    *)
(* Close.  Each theorem is a refinement of AdapterContract: the initial    *)
(* states map to its initial states, every step to one of its steps or to  *)
(* a stuttering step.                                                      *)
(***************************************************************************)
EXTENDS NatsAdapter, RedisAdapter, FiniteSetTheorems, TLAPS

-----------------------------------------------------------------------------
(* The NATS adapter                                                        *)

\* Where a Subscribe call can be.
NatsPCs == {"idle", "refused", "release", "await", "dial", "install", "discard",
            "ok", "failed", "overtaken"}

\* The type of every variable the proof is about.
NatsTypes ==
    /\ natsClosed \in BOOLEAN
    /\ natsCur \in NatsSub \cup {NoSub}
    /\ natsGen \in Nat
    /\ natsCall \in [NatsSub -> [pc : NatsPCs, gen : Nat, prev : NatsSub \cup {NoSub}]]
    /\ natsSub \in [NatsSub -> {"none", "live", "draining", "drained"}]
    /\ natsWatcher \in [NatsSub -> {"none", "watching", "exited"}]
    /\ natsClose \in [pc : {"idle", "release", "await", "return", "done"},
                      prev : NatsSub \cup {NoSub}]

\* A Subscribe call or Close has taken s out of a.cur and will drain it.
Taken(s) ==
    \/ \E t \in NatsSub : natsCall[t].pc \in {"release", "await"} /\ natsCall[t].prev = s
    \/ natsClose.pc \in {"release", "await"} /\ natsClose.prev = s

\* Only installed subscriptions are watched, and none is lost: it is the current
\* one, or somebody has taken it, or it was released.
NatsOwned ==
    \A s \in NatsSub :
        /\ natsWatcher[s] = "watching" => natsCall[s].pc = "ok"
        /\ natsCall[s].pc \in {"release", "await"}
              => /\ natsCall[s].prev \in NatsSub
                 /\ natsCall[natsCall[s].prev].pc = "ok"
                 /\ natsCall[s].prev # natsCur
        /\ natsCall[s].pc = "ok" => natsCur = s \/ Taken(s) \/ NatsReleased(s)

\* Claims have generations of their own, and the current subscription the
\* latest: a call that finds its generation in a.gen finds no subscription in
\* a.cur that its installation would overwrite.
NatsGens ==
    /\ \A s \in NatsSub : natsCall[s].gen <= natsGen
    /\ \A s \in NatsSub : natsCall[s].pc \notin {"idle", "refused"} => natsCall[s].gen > 0
    /\ \A s, t \in NatsSub :
          natsCall[s].gen > 0 /\ natsCall[s].gen = natsCall[t].gen => s = t
    /\ natsCur # NoSub => natsCall[natsCur].pc = "ok" /\ natsCall[natsCur].gen = natsGen

\* A closed adapter has no current subscription, and Close holds an installed
\* one until it has drained it.
NatsClosing ==
    /\ natsClosed <=> natsClose.pc # "idle"
    /\ natsClosed => natsCur = NoSub
    /\ natsClose.pc \in {"release", "await"}
          => natsClose.prev \in NatsSub /\ natsCall[natsClose.prev].pc = "ok"

\* The inductive invariant.
NatsInv == NatsTypes /\ NatsOwned /\ NatsGens /\ NatsClosing

\* The initial state satisfies the invariant.
LEMMA NatsInitOK == NatsInit => NatsInv
<1> SUFFICES ASSUME NatsInit PROVE NatsInv
    OBVIOUS
<1> USE NatsAssumption DEF NatsInit
<1>1. NatsTypes
    BY DEF NatsTypes, NatsPCs
<1>2. NatsOwned /\ NatsGens /\ NatsClosing
    BY DEF NatsOwned, NatsGens, NatsClosing
<1> QED
    BY <1>1, <1>2 DEF NatsInv

\* A step of a Subscribe call that only moves it along.
LEMMA NatsMove ==
    ASSUME NatsInv, NEW s \in NatsSub, NEW p \in NatsPCs,
           natsCall' = [natsCall EXCEPT ![s].pc = p],
           natsCall[s].pc \notin {"await", "ok", "refused"},
           p = "await" <=> natsCall[s].pc = "release",
           p \notin {"idle", "release", "ok"},
           natsCall[s].pc = "idle" => p = "refused",
           UNCHANGED <<natsClosed, natsCur, natsGen, natsWatcher, natsClose>>,
           natsSub' \in [NatsSub -> {"none", "live", "draining", "drained"}],
           \A t \in NatsSub : t # s => natsSub'[t] = natsSub[t]
    PROVE  NatsInv'
<1> USE NatsAssumption DEF NatsInv, NatsTypes, NatsPCs
<1>1. /\ natsCall'[s].gen = natsCall[s].gen /\ natsCall'[s].prev = natsCall[s].prev
      /\ natsCall'[s].pc = p
      /\ \A t \in NatsSub : t # s => natsCall'[t] = natsCall[t]
    OBVIOUS
<1>2. NatsTypes'
    OBVIOUS
<1>3. NatsGens'
    BY <1>1 DEF NatsGens
<1>4. NatsClosing'
    BY <1>1 DEF NatsClosing
<1>5. ASSUME NEW k \in NatsSub, natsCall'[k].pc \in {"release", "await"}
      PROVE  /\ natsCall'[k].prev \in NatsSub
             /\ natsCall'[natsCall'[k].prev].pc = "ok"
             /\ natsCall'[k].prev # natsCur'
    BY <1>1, <1>5 DEF NatsOwned
<1>6. ASSUME NEW k \in NatsSub, natsCall'[k].pc = "ok"
      PROVE  natsCur' = k \/ Taken(k)' \/ NatsReleased(k)'
    <2>1. k # s /\ natsCall[k].pc = "ok"
        BY <1>1, <1>6
    <2>2. CASE Taken(k)
        BY <1>1, <2>2 DEF Taken
    <2>3. CASE NatsReleased(k)
        BY <2>1, <2>3 DEF NatsReleased
    <2> QED
        BY <2>1, <2>2, <2>3 DEF NatsOwned
<1>7. \A k \in NatsSub : natsWatcher'[k] = "watching" => natsCall'[k].pc = "ok"
    BY <1>1 DEF NatsOwned
<1>8. NatsOwned'
    BY <1>5, <1>6, <1>7 DEF NatsOwned
<1> QED
    BY <1>2, <1>3, <1>4, <1>8

\* A Subscribe call claims a generation, or is refused.
LEMMA NatsSubscribeKeeps ==
    ASSUME NatsInv, NEW s \in NatsSub, NatsSubscribe(s) PROVE NatsInv'
<1> USE NatsAssumption DEF NatsInv, NatsTypes, NatsPCs
<1>1. CASE natsClosed
    <2>1. /\ natsCall[s].pc = "idle"
          /\ natsCall' = [natsCall EXCEPT ![s].pc = "refused"]
          /\ UNCHANGED <<natsClosed, natsCur, natsGen, natsSub, natsWatcher, natsClose>>
        BY <1>1 DEF NatsSubscribe, natsShared
    <2> QED
        BY <2>1, NatsMove
<1>2. CASE ~natsClosed
    <2> DEFINE n == [pc |-> AfterTaking(natsCur, "dial"), gen |-> natsGen + 1,
                     prev |-> natsCur]
    <2>1. /\ natsCall[s].pc = "idle"
          /\ natsGen' = natsGen + 1 /\ natsCur' = NoSub /\ natsClosed' = natsClosed
          /\ natsCall' = [natsCall EXCEPT ![s] = n]
          /\ UNCHANGED <<natsSub, natsWatcher, natsClose>>
        BY <1>2 DEF NatsSubscribe
    <2>2. /\ n \in [pc : NatsPCs, gen : Nat, prev : NatsSub \cup {NoSub}]
          /\ n.pc \in {"dial", "release"} /\ n.gen = natsGen + 1 /\ n.prev = natsCur
          /\ n.pc = "release" <=> natsCur # NoSub
        BY DEF AfterTaking
    <2> HIDE DEF n
    <2>3. /\ natsCall'[s] = n
          /\ \A t \in NatsSub : t # s => natsCall'[t] = natsCall[t]
        BY <2>1
    <2>4. NatsTypes'
        BY <2>1, <2>2
    <2>5. NatsGens'
        BY <2>1, <2>2, <2>3 DEF NatsGens
    <2>6. NatsClosing'
        BY <2>1, <2>2, <2>3 DEF NatsClosing
    <2>7. ASSUME NEW k \in NatsSub, natsCall'[k].pc \in {"release", "await"}
          PROVE  /\ natsCall'[k].prev \in NatsSub
                 /\ natsCall'[natsCall'[k].prev].pc = "ok"
                 /\ natsCall'[k].prev # natsCur'
        <3>1. CASE k = s
            BY <2>1, <2>2, <2>3, <2>7, <3>1 DEF NatsGens
        <3>2. CASE k # s
            BY <2>1, <2>3, <2>7, <3>2 DEF NatsOwned
        <3> QED
            BY <3>1, <3>2
    <2>8. ASSUME NEW k \in NatsSub, natsCall'[k].pc = "ok"
          PROVE  Taken(k)' \/ NatsReleased(k)'
        <3>1. k # s /\ natsCall[k].pc = "ok"
            BY <2>2, <2>3, <2>8
        <3>2. CASE natsCur = k
            BY <2>2, <2>3, <3>2 DEF Taken
        <3>3. CASE Taken(k)
            BY <2>1, <2>3, <3>3 DEF Taken
        <3>4. CASE NatsReleased(k)
            BY <2>1, <3>4 DEF NatsReleased
        <3> QED
            BY <3>1, <3>2, <3>3, <3>4 DEF NatsOwned
    <2>9. \A k \in NatsSub : natsWatcher'[k] = "watching" => natsCall'[k].pc = "ok"
        BY <2>1, <2>2, <2>3 DEF NatsOwned
    <2>10. NatsOwned'
        BY <2>7, <2>8, <2>9 DEF NatsOwned
    <2> QED
        BY <2>4, <2>5, <2>6, <2>10
<1> QED
    BY <1>1, <1>2

\* The steps of a Subscribe call on its own subscription.
LEMMA NatsMoveKeeps ==
    ASSUME NatsInv, NEW s \in NatsSub,
           NatsRelease(s) \/ NatsDial(s) \/ NatsDiscard(s)
    PROVE  NatsInv'
<1> USE DEF NatsInv, NatsTypes, NatsPCs
<1>1. UNCHANGED <<natsClosed, natsCur, natsGen, natsWatcher, natsClose>>
    BY DEF NatsRelease, NatsDial, NatsDiscard, natsShared
<1>2. /\ natsSub' \in [NatsSub -> {"none", "live", "draining", "drained"}]
      /\ \A t \in NatsSub : t # s => natsSub'[t] = natsSub[t]
    BY DEF NatsRelease, NatsDial, NatsDiscard, StartDrain
<1>3. \E p \in NatsPCs :
         /\ natsCall' = [natsCall EXCEPT ![s].pc = p]
         /\ natsCall[s].pc \in {"release", "dial", "discard"}
         /\ p = "await" <=> natsCall[s].pc = "release"
         /\ p \notin {"idle", "refused", "release", "ok"}
    BY DEF NatsRelease, NatsDial, NatsDiscard
<1> QED
    BY <1>1, <1>2, <1>3, NatsMove

\* A Subscribe call drains what it has replaced, which is released then.
LEMMA NatsDrainPrevKeeps ==
    ASSUME NatsInv, NEW s \in NatsSub, NatsDrainPrev(s) PROVE NatsInv'
<1> USE NatsAssumption DEF NatsInv, NatsTypes, NatsPCs
<1> DEFINE d == natsCall[s].prev
<1>1. /\ natsCall[s].pc = "await" /\ natsWatcher[d] = "exited"
      /\ StartDrain(d)
      /\ natsCall' = [natsCall EXCEPT ![s].pc = "dial"]
      /\ UNCHANGED <<natsClosed, natsCur, natsGen, natsWatcher, natsClose>>
    BY DEF NatsDrainPrev, natsShared
<1>2. /\ d \in NatsSub /\ natsCall[d].pc = "ok"
      /\ natsSub' \in [NatsSub -> {"none", "live", "draining", "drained"}]
      /\ natsSub'[d] # "live" /\ \A k \in NatsSub : k # d => natsSub'[k] = natsSub[k]
    <2>1. d \in NatsSub /\ natsCall[d].pc = "ok"
        BY <1>1 DEF NatsOwned
    <2> QED
        BY <1>1, <2>1 DEF StartDrain
<1>3. /\ natsCall'[s].gen = natsCall[s].gen /\ natsCall'[s].pc = "dial"
      /\ \A t \in NatsSub : t # s => natsCall'[t] = natsCall[t]
    BY <1>1
<1>4. NatsTypes'
    <2>1. natsCall' \in [NatsSub -> [pc : NatsPCs, gen : Nat, prev : NatsSub \cup {NoSub}]]
        BY <1>1
    <2>2. natsSub' \in [NatsSub -> {"none", "live", "draining", "drained"}]
        BY <1>2
    <2> HIDE DEF d
    <2> QED
        BY <1>1, <2>1, <2>2
<1>5. NatsGens'
    BY <1>1, <1>3 DEF NatsGens
<1>6. NatsClosing'
    BY <1>1, <1>3 DEF NatsClosing
<1>7. ASSUME NEW k \in NatsSub, natsCall'[k].pc \in {"release", "await"}
      PROVE  /\ natsCall'[k].prev \in NatsSub
             /\ natsCall'[natsCall'[k].prev].pc = "ok"
             /\ natsCall'[k].prev # natsCur'
    BY <1>1, <1>3, <1>7 DEF NatsOwned
<1>8. ASSUME NEW k \in NatsSub, natsCall'[k].pc = "ok"
      PROVE  natsCur' = k \/ Taken(k)' \/ NatsReleased(k)'
    <2>1. k # s /\ natsCall[k].pc = "ok"
        BY <1>3, <1>8
    <2>2. CASE k = d
        BY <1>1, <1>2, <2>2 DEF NatsReleased
    <2>3. CASE k # d /\ Taken(k)
        BY <1>1, <1>3, <2>3 DEF Taken
    <2>4. CASE k # d /\ NatsReleased(k)
        BY <1>1, <1>2, <2>4 DEF NatsReleased
    <2> QED
        BY <1>1, <2>1, <2>2, <2>3, <2>4 DEF NatsOwned
<1>9. \A k \in NatsSub : natsWatcher'[k] = "watching" => natsCall'[k].pc = "ok"
    BY <1>1, <1>3 DEF NatsOwned
<1>10. NatsOwned'
    BY <1>7, <1>8, <1>9 DEF NatsOwned
<1> QED
    BY <1>4, <1>5, <1>6, <1>10

\* What a call that was not overtaken knows when it installs: nothing is in
\* a.cur.
LEMMA NatsRoom ==
    ASSUME NatsInv, NEW s \in NatsSub, natsCall[s].pc = "install",
           natsGen = natsCall[s].gen
    PROVE  natsCur = NoSub
<1> SUFFICES ASSUME natsCur # NoSub PROVE FALSE
    OBVIOUS
<1>1. natsCur \in NatsSub
    BY DEF NatsInv, NatsTypes
<1>2. natsCall[natsCur].pc = "ok" /\ natsCall[natsCur].gen = natsCall[s].gen
    BY DEF NatsInv, NatsGens
<1>3. natsCall[s].gen > 0
    BY DEF NatsInv, NatsGens
<1> QED
    BY <1>1, <1>2, <1>3 DEF NatsInv, NatsGens

\* A subscription is installed, or its call learns that it was overtaken.
LEMMA NatsInstallKeeps ==
    ASSUME NatsInv, NEW s \in NatsSub, NatsInstall(s) PROVE NatsInv'
<1> USE NatsAssumption DEF NatsInv, NatsTypes, NatsPCs
<1>1. CASE natsClosed \/ natsGen # natsCall[s].gen
    <2>1. /\ natsCall[s].pc = "install"
          /\ natsCall' = [natsCall EXCEPT ![s].pc = "discard"]
          /\ UNCHANGED <<natsClosed, natsCur, natsGen, natsSub, natsWatcher, natsClose>>
        BY <1>1 DEF NatsInstall
    <2> QED
        BY <2>1, NatsMove
<1>2. CASE ~natsClosed /\ natsGen = natsCall[s].gen
    <2>1. /\ natsCall[s].pc = "install" /\ natsCur' = s
          /\ natsWatcher' = [natsWatcher EXCEPT ![s] = "watching"]
          /\ natsCall' = [natsCall EXCEPT ![s].pc = "ok"]
          /\ UNCHANGED <<natsClosed, natsGen, natsSub, natsClose>>
        BY <1>2 DEF NatsInstall
    <2>2. /\ natsCall'[s].gen = natsCall[s].gen /\ natsCall'[s].pc = "ok"
          /\ \A t \in NatsSub : t # s => natsCall'[t] = natsCall[t]
        BY <2>1
    <2>3. natsCur = NoSub
        BY <1>2, <2>1, NatsRoom
    <2>4. NatsTypes'
        BY <2>1
    <2>5. NatsGens'
        BY <1>2, <2>1, <2>2 DEF NatsGens
    <2>6. NatsClosing'
        BY <1>2, <2>1, <2>2 DEF NatsClosing
    <2>7. ASSUME NEW k \in NatsSub, natsCall'[k].pc \in {"release", "await"}
          PROVE  /\ natsCall'[k].prev \in NatsSub
                 /\ natsCall'[natsCall'[k].prev].pc = "ok"
                 /\ natsCall'[k].prev # natsCur'
        BY <2>1, <2>2, <2>7 DEF NatsOwned
    <2>8. ASSUME NEW k \in NatsSub, natsCall'[k].pc = "ok"
          PROVE  natsCur' = k \/ Taken(k)' \/ NatsReleased(k)'
        <3>1. CASE k = s
            BY <2>1, <3>1
        <3>2. CASE k # s /\ Taken(k)
            BY <2>1, <2>2, <3>2 DEF Taken
        <3>3. CASE k # s /\ NatsReleased(k)
            BY <2>1, <3>3 DEF NatsReleased
        <3> QED
            BY <2>2, <2>3, <2>8, <3>1, <3>2, <3>3 DEF NatsOwned
    <2>9. \A k \in NatsSub : natsWatcher'[k] = "watching" => natsCall'[k].pc = "ok"
        BY <2>1, <2>2, <2>3 DEF NatsOwned
    <2>10. NatsOwned'
        BY <2>7, <2>8, <2>9 DEF NatsOwned
    <2> QED
        BY <2>4, <2>5, <2>6, <2>10
<1> QED
    BY <1>1, <1>2

\* The callers' contexts, the watchers, and the end of draining.
LEMMA NatsWatchKeeps ==
    ASSUME NatsInv, NEW s \in NatsSub, NatsCancel(s) \/ NatsWatch(s) \/ NatsFinishDrain(s)
    PROVE  NatsInv'
<1> USE NatsAssumption DEF NatsInv, NatsTypes, NatsPCs
<1>1. /\ UNCHANGED <<natsClosed, natsCur, natsGen, natsCall, natsClose>>
      /\ natsSub' \in [NatsSub -> {"none", "live", "draining", "drained"}]
      /\ natsWatcher' \in [NatsSub -> {"none", "watching", "exited"}]
      /\ \A k \in NatsSub : NatsReleased(k) => NatsReleased(k)'
      /\ \A k \in NatsSub : natsWatcher'[k] = "watching" => natsWatcher[k] = "watching"
    BY DEF NatsCancel, NatsWatch, NatsFinishDrain, StartDrain, natsShared, NatsReleased
<1>2. NatsTypes' /\ NatsGens' /\ NatsClosing'
    BY <1>1 DEF NatsGens, NatsClosing
<1>3. NatsOwned'
    BY <1>1 DEF NatsOwned, Taken
<1> QED
    BY <1>2, <1>3

\* The steps of Close.
LEMMA NatsCloseKeeps ==
    ASSUME NatsInv, NatsBeginClose \/ NatsCloseStep PROVE NatsInv'
<1> USE NatsAssumption DEF NatsInv, NatsTypes, NatsPCs
<1>1. CASE NatsBeginClose
    <2> DEFINE n == [pc |-> AfterTaking(natsCur, "return"), prev |-> natsCur]
    <2>1. /\ natsClose.pc = "idle" /\ natsClosed' = TRUE /\ natsCur' = NoSub
          /\ natsClose' = n
          /\ UNCHANGED <<natsGen, natsCall, natsSub, natsWatcher>>
        BY <1>1 DEF NatsBeginClose
    <2>2. /\ n \in [pc : {"idle", "release", "await", "return", "done"},
                    prev : NatsSub \cup {NoSub}]
          /\ n.pc \in {"return", "release"} /\ n.prev = natsCur
          /\ n.pc = "release" <=> natsCur # NoSub
        BY DEF AfterTaking
    <2> HIDE DEF n
    <2>3. NatsTypes' /\ NatsGens'
        BY <2>1, <2>2 DEF NatsGens
    <2>4. NatsClosing'
        BY <2>1, <2>2 DEF NatsClosing, NatsGens
    <2>5. NatsOwned'
        BY <2>1, <2>2 DEF NatsOwned, Taken, NatsReleased
    <2> QED
        BY <2>3, <2>4, <2>5
<1>2. CASE NatsCloseRelease \/ NatsCloseReturn
    <2>1. /\ UNCHANGED <<natsClosed, natsCur, natsGen, natsCall, natsSub, natsWatcher>>
          /\ \/ natsClose.pc = "release" /\ natsClose' = [natsClose EXCEPT !.pc = "await"]
             \/ natsClose.pc = "return" /\ natsClose' = [natsClose EXCEPT !.pc = "done"]
        BY <1>2 DEF NatsCloseRelease, NatsCloseReturn, natsShared
    <2>2. NatsTypes' /\ NatsGens' /\ NatsClosing'
        BY <2>1 DEF NatsGens, NatsClosing
    <2>3. NatsOwned'
        BY <2>1 DEF NatsOwned, Taken, NatsReleased
    <2> QED
        BY <2>2, <2>3
<1>3. CASE NatsCloseDrain
    <2> DEFINE d == natsClose.prev
    <2>1. /\ natsClose.pc = "await" /\ natsWatcher[d] = "exited"
          /\ StartDrain(d)
          /\ natsClose' = [natsClose EXCEPT !.pc = "return"]
          /\ UNCHANGED <<natsClosed, natsCur, natsGen, natsCall, natsWatcher>>
        BY <1>3 DEF NatsCloseDrain, natsShared
    <2>2. /\ d \in NatsSub
          /\ natsSub' \in [NatsSub -> {"none", "live", "draining", "drained"}]
          /\ natsSub'[d] # "live" /\ \A k \in NatsSub : k # d => natsSub'[k] = natsSub[k]
        <3>1. d \in NatsSub
            BY <2>1 DEF NatsClosing
        <3> QED
            BY <2>1, <3>1 DEF StartDrain
    <2>3. NatsTypes' /\ NatsGens' /\ NatsClosing'
        BY <2>1, <2>2 DEF NatsGens, NatsClosing
    <2>4. ASSUME NEW k \in NatsSub, natsCall'[k].pc = "ok"
          PROVE  natsCur' = k \/ Taken(k)' \/ NatsReleased(k)'
        <3>1. CASE k = d
            BY <2>1, <2>2, <3>1 DEF NatsReleased
        <3>2. CASE k # d /\ Taken(k)
            BY <2>1, <3>2 DEF Taken
        <3>3. CASE k # d /\ NatsReleased(k)
            BY <2>1, <2>2, <3>3 DEF NatsReleased
        <3> QED
            BY <2>1, <2>4, <3>1, <3>2, <3>3 DEF NatsOwned
    <2>5. NatsOwned'
        BY <2>1, <2>4 DEF NatsOwned
    <2> QED
        BY <2>3, <2>5
<1> QED
    BY <1>1, <1>2, <1>3 DEF NatsCloseStep

\* Every step keeps the invariant.
LEMMA NatsInvStep == NatsInv /\ [NatsNext]_natsVars => NatsInv'
<1> SUFFICES ASSUME NatsInv, [NatsNext]_natsVars PROVE NatsInv'
    OBVIOUS
<1>1. CASE UNCHANGED natsVars
    BY <1>1 DEF natsVars, natsShared, NatsInv, NatsTypes, NatsOwned, NatsGens,
       NatsClosing, Taken, NatsReleased
<1>2. ASSUME NEW s \in NatsSub, NatsCallStep(s) PROVE NatsInv'
    BY <1>2, NatsMoveKeeps, NatsDrainPrevKeeps, NatsInstallKeeps DEF NatsCallStep
<1> QED
    BY <1>1, <1>2, NatsSubscribeKeeps, NatsWatchKeeps, NatsCloseKeeps DEF NatsNext

\* The state of the contract, as the refinement mapping computes it.
natsPh == [s \in NatsSub |-> NatsPhase(s)]

natsGate == IF ~natsClosed THEN "open"
            ELSE IF natsClose.pc = "done" THEN "closed" ELSE "closing"

\* What the steps of the contract require of its next state.
LEMMA NatsPromises ==
    NatsInv => NatsContract!OneServing /\ NatsContract!NothingLeft
<1> SUFFICES ASSUME NatsInv
             PROVE  NatsContract!OneServing /\ NatsContract!NothingLeft
    OBVIOUS
<1> USE DEF NatsInv, NatsTypes, NatsPCs
<1>1. \A s \in NatsSub : NatsPhase(s) = "serving" => natsCur = s
    BY DEF NatsPhase
<1>2. NatsContract!OneServing
    BY <1>1 DEF NatsContract!OneServing
<1>3. ASSUME natsGate = "closed", NatsContract!Calling = {}, NEW s \in NatsSub
      PROVE  NatsPhase(s) \in {"idle", "ended", "draining"}
    <2>1. natsClose.pc = "done" /\ natsCur = NoSub
        BY <1>3 DEF natsGate, NatsClosing
    <2>2. \A t \in NatsSub : natsCall[t].pc \notin InProgress
        BY <1>3 DEF NatsContract!Calling, NatsPhase, InProgress
    <2>3. ~Taken(s)
        BY <2>1, <2>2 DEF Taken, InProgress
    <2>4. natsCall[s].pc = "ok" => NatsReleased(s)
        BY <2>1, <2>3, NatsAssumption DEF NatsOwned
    <2> QED
        BY <2>2, <2>4 DEF NatsPhase
<1>4. NatsContract!NothingLeft
    BY <1>3 DEF NatsContract!NothingLeft, natsGate
<1> QED
    BY <1>2, <1>4

\* A step of the contract for a subscription that is let go or ends.
NatsLeave(s) == NatsContract!Drain(s) \/ NatsContract!End(s)

\* One subscription begins to drain, or ends, or was over already.
LEMMA NatsEndStep ==
    ASSUME NEW s \in NatsSub,
           \/ NatsPhase(s)' = "ended"
           \/ NatsPhase(s)' = "draining" /\ NatsPhase(s) \in {"calling", "serving", "retiring"}
           \/ NatsPhase(s)' = NatsPhase(s),
           NatsPhase(s) = "idle" => natsGate # "open",
           \A k \in NatsSub : k # s => NatsPhase(k)' = NatsPhase(k),
           natsGate' = natsGate
    PROVE  NatsLeave(s) \/ UNCHANGED NatsContract!contractVars
<1>0. natsPh[s] = NatsPhase(s)
    BY DEF natsPh
<1>1. CASE NatsPhase(s)' = NatsPhase(s)
    <2>1. natsPh' = natsPh
        BY <1>1 DEF natsPh
    <2> QED
        BY <2>1 DEF NatsContract!contractVars, natsPh, natsGate
<1>2. CASE NatsPhase(s)' = "ended" /\ NatsPhase(s) # "ended"
    <2>1. natsPh' = [natsPh EXCEPT ![s] = "ended"]
        BY <1>2 DEF natsPh
    <2>2. NatsContract!End(s)
        BY <1>0, <1>2, <2>1 DEF NatsContract!End, natsPh, natsGate
    <2> QED
        BY <2>2 DEF NatsLeave
<1>3. CASE NatsPhase(s)' = "draining" /\ NatsPhase(s) \in {"calling", "serving", "retiring"}
    <2>1. natsPh' = [natsPh EXCEPT ![s] = "draining"]
        BY <1>3 DEF natsPh
    <2>2. NatsContract!Drain(s)
        BY <1>0, <1>3, <2>1 DEF NatsContract!Drain, natsPh, natsGate
    <2> QED
        BY <2>2 DEF NatsLeave
<1> QED
    BY <1>1, <1>2, <1>3

\* Every step is a step of the contract or none.
LEMMA NatsStep ==
    ASSUME NatsInv, NatsInv', [NatsNext]_natsVars
    PROVE  [NatsContract!ContractNext]_(NatsContract!contractVars)
<1> USE NatsAssumption DEF NatsInv, NatsTypes, NatsPCs
<1>0. NatsContract!OneServing' /\ NatsContract!NothingLeft'
    BY NatsPromises, PTL
<1>1. SUFFICES
          \/ \E s \in NatsSub :
                NatsContract!Begin(s) \/ NatsContract!Succeed(s) \/ NatsLeave(s)
          \/ NatsContract!BeginClose \/ NatsContract!ReturnFromClose
          \/ UNCHANGED NatsContract!contractVars
    BY <1>0 DEF NatsContract!ContractNext, NatsLeave
<1>2. ASSUME NEW s \in NatsSub, NatsSubscribe(s)
      PROVE  NatsContract!Begin(s) \/ NatsLeave(s)
                \/ UNCHANGED NatsContract!contractVars
    <2>0. /\ natsCall[s].pc = "idle"
          /\ \A k \in NatsSub : k # s => natsCall'[k] = natsCall[k]
          /\ UNCHANGED <<natsClosed, natsSub, natsWatcher, natsClose>>
        BY <1>2 DEF NatsSubscribe, natsShared
    <2>1. NatsPhase(s) = "idle" /\ natsGate' = natsGate
        BY <2>0 DEF natsGate, NatsPhase, InProgress
    <2>2. CASE natsClosed
        <3>1. natsCall'[s].pc = "refused" /\ natsCur' = natsCur
            BY <1>2, <2>2 DEF NatsSubscribe, natsShared
        <3>2. NatsPhase(s)' = "ended"
            BY <3>1 DEF NatsPhase, InProgress
        <3>3. \A k \in NatsSub : k # s => NatsPhase(k)' = NatsPhase(k)
            BY <2>0, <3>1 DEF NatsPhase, NatsReleased
        <3>4. natsGate # "open"
            BY <2>2 DEF natsGate
        <3> QED
            BY <2>1, <3>2, <3>3, <3>4, NatsEndStep
    <2>3. CASE ~natsClosed
        <3>1. natsCall'[s].pc \in {"dial", "release"} /\ natsCur' = NoSub
            BY <1>2, <2>3 DEF NatsSubscribe, AfterTaking
        <3>2. NatsPhase(s)' = "calling"
            BY <3>1 DEF NatsPhase, InProgress
        <3>3. \A k \in NatsSub : k # s =>
                 NatsPhase(k)' = IF NatsPhase(k) = "serving" THEN "retiring"
                                 ELSE NatsPhase(k)
            BY <2>0, <3>1 DEF NatsPhase, NatsReleased
        <3>4. natsGate = "open"
            BY <2>3 DEF natsGate
        <3>5. natsPh' = [NatsContract!Retire(NatsSub) EXCEPT ![s] = "calling"]
            BY <3>2, <3>3 DEF natsPh, NatsContract!Retire
        <3> QED
            BY <2>1, <3>4, <3>5 DEF NatsContract!Begin, natsPh, natsGate
    <2> QED
        BY <2>2, <2>3
<1>3. ASSUME NEW s \in NatsSub, NatsRelease(s)
      PROVE  UNCHANGED NatsContract!contractVars
    <2>1. \A k \in NatsSub : NatsPhase(k)' = NatsPhase(k)
        BY <1>3 DEF NatsRelease, natsShared, NatsPhase, InProgress, NatsReleased
    <2>2. natsGate' = natsGate
        BY <1>3 DEF NatsRelease, natsShared, natsGate
    <2> QED
        BY <2>1, <2>2 DEF NatsContract!contractVars, natsGate
<1>4. ASSUME NEW s \in NatsSub, NatsDial(s) \/ NatsDiscard(s)
      PROVE  NatsLeave(s) \/ UNCHANGED NatsContract!contractVars
    <2>1. /\ \A k \in NatsSub : k # s => natsCall'[k] = natsCall[k] /\ natsSub'[k] = natsSub[k]
          /\ UNCHANGED <<natsClosed, natsCur, natsWatcher, natsClose>>
          /\ natsCall[s].pc \in {"dial", "discard"}
          /\ natsCall'[s].pc \in {"install", "failed", "overtaken"}
        BY <1>4 DEF NatsDial, NatsDiscard, StartDrain, natsShared
    <2>2. \A k \in NatsSub : k # s => NatsPhase(k)' = NatsPhase(k)
        BY <2>1 DEF NatsPhase, NatsReleased
    <2>3. /\ NatsPhase(s) = "calling"
          /\ NatsPhase(s)' \in {"calling", "draining", "ended"}
        BY <2>1 DEF NatsPhase, InProgress
    <2>4. natsGate' = natsGate
        BY <2>1 DEF natsGate
    <2> QED
        BY <2>2, <2>3, <2>4, NatsEndStep
<1>5. ASSUME NEW s \in NatsSub, NatsDrainPrev(s)
      PROVE  \/ \E d \in NatsSub : NatsLeave(d)
             \/ UNCHANGED NatsContract!contractVars
    <2>0. PICK d \in NatsSub : d = natsCall[s].prev /\ natsCall[d].pc = "ok"
        BY <1>5 DEF NatsDrainPrev, NatsOwned
    <2>1. /\ natsCall[s].pc = "await" /\ natsWatcher[d] = "exited"
          /\ natsSub' = [natsSub EXCEPT ![d] = IF @ = "live" THEN "draining" ELSE @]
          /\ natsCall' = [natsCall EXCEPT ![s].pc = "dial"]
          /\ UNCHANGED <<natsClosed, natsCur, natsWatcher, natsClose>>
        BY <1>5, <2>0 DEF NatsDrainPrev, StartDrain, natsShared
    <2>2. natsCall[d].pc = "ok" /\ d # s
        BY <2>0, <2>1
    <2>3. /\ NatsPhase(d) # "idle"
          /\ \/ NatsPhase(d)' = "draining" /\ NatsPhase(d) \in {"serving", "retiring"}
             \/ NatsPhase(d)' = NatsPhase(d)
        <3>1. CASE natsSub[d] = "live"
            <4>1. NatsPhase(d) \in {"serving", "retiring"}
                BY <2>1, <2>2, <3>1 DEF NatsPhase, NatsReleased, InProgress
            <4>2. natsSub'[d] = "draining" /\ natsWatcher'[d] = "exited" /\ natsCall'[d].pc = "ok"
                BY <2>1, <2>2, <3>1
            <4>3. NatsPhase(d)' = "draining"
                BY <4>2 DEF NatsPhase, NatsReleased, InProgress
            <4> QED
                BY <4>1, <4>3
        <3>2. CASE natsSub[d] # "live"
            <4>1. natsSub' = natsSub /\ natsCall'[d] = natsCall[d]
                BY <2>1, <2>2, <3>2
            <4>2. NatsPhase(d)' = NatsPhase(d)
                BY <2>1, <4>1 DEF NatsPhase, NatsReleased
            <4>3. NatsPhase(d) # "idle"
                BY <2>2 DEF NatsPhase, InProgress
            <4> QED
                BY <4>2, <4>3
        <3> QED
            BY <3>1, <3>2
    <2>4. \A k \in NatsSub : k # d => NatsPhase(k)' = NatsPhase(k)
        BY <2>1, <2>2 DEF NatsPhase, NatsReleased, InProgress
    <2>5. natsGate' = natsGate
        BY <2>1 DEF natsGate
    <2> QED
        BY <2>2, <2>3, <2>4, <2>5, NatsEndStep
<1>6. ASSUME NEW s \in NatsSub, NatsInstall(s)
      PROVE  NatsContract!Succeed(s) \/ UNCHANGED NatsContract!contractVars
    <2>1. CASE natsClosed \/ natsGen # natsCall[s].gen
        <3>1. /\ natsCall[s].pc = "install"
              /\ natsCall' = [natsCall EXCEPT ![s].pc = "discard"]
              /\ UNCHANGED <<natsClosed, natsCur, natsSub, natsWatcher, natsClose>>
            BY <1>6, <2>1 DEF NatsInstall
        <3>2. \A k \in NatsSub : NatsPhase(k)' = NatsPhase(k)
            BY <3>1 DEF NatsPhase, InProgress, NatsReleased
        <3> QED
            BY <3>1, <3>2 DEF NatsContract!contractVars
    <2>2. CASE ~natsClosed /\ natsGen = natsCall[s].gen
        <3>1. /\ natsCall[s].pc = "install" /\ natsCur' = s
              /\ natsWatcher' = [natsWatcher EXCEPT ![s] = "watching"]
              /\ natsCall' = [natsCall EXCEPT ![s].pc = "ok"]
              /\ UNCHANGED <<natsClosed, natsSub, natsClose>>
            BY <1>6, <2>2 DEF NatsInstall
        <3>2. natsCur = NoSub
            BY <2>2, <3>1, NatsRoom
        <3>3. NatsPhase(s) = "calling" /\ NatsPhase(s)' = "serving"
            BY <3>1 DEF NatsPhase, InProgress, NatsReleased
        <3>4. \A k \in NatsSub : k # s => NatsPhase(k)' = NatsPhase(k)
            BY <3>1, <3>2 DEF NatsPhase, NatsReleased
        <3>5. natsGate = "open" /\ natsGate' = natsGate
            BY <2>2, <3>1 DEF natsGate
        <3>6. natsPh' = [natsPh EXCEPT ![s] = "serving"] /\ natsPh[s] = "calling"
            BY <3>3, <3>4 DEF natsPh
        <3> QED
            BY <3>5, <3>6 DEF NatsContract!Succeed, natsPh, natsGate
    <2> QED
        BY <2>1, <2>2
<1>7. ASSUME NEW s \in NatsSub, NatsCancel(s)
      PROVE  UNCHANGED NatsContract!contractVars
    BY <1>7 DEF NatsCancel, natsShared, NatsContract!contractVars, NatsPhase, NatsReleased
<1>8. ASSUME NEW s \in NatsSub, NatsWatch(s)
      PROVE  NatsLeave(s) \/ UNCHANGED NatsContract!contractVars
    <2>1. /\ natsWatcher[s] = "watching" /\ natsWatcher'[s] = "exited"
          /\ \A k \in NatsSub : k # s =>
                natsSub'[k] = natsSub[k] /\ natsWatcher'[k] = natsWatcher[k]
          /\ UNCHANGED <<natsClosed, natsCur, natsCall, natsClose>>
        BY <1>8 DEF NatsWatch, StartDrain, natsShared
    <2>2. natsCall[s].pc = "ok"
        BY <2>1 DEF NatsOwned
    <2>3. \A k \in NatsSub : k # s => NatsPhase(k)' = NatsPhase(k)
        BY <2>1 DEF NatsPhase, NatsReleased
    <2>4. NatsPhase(s) = IF natsCur = s THEN "serving" ELSE "retiring"
        BY <2>1, <2>2 DEF NatsPhase, NatsReleased, InProgress
    <2>5. NatsPhase(s)' \in {"draining", "ended", NatsPhase(s)}
        BY <2>1, <2>2, <2>4 DEF NatsPhase, NatsReleased, InProgress
    <2>6. natsGate' = natsGate
        BY <2>1 DEF natsGate
    <2> QED
        BY <2>3, <2>4, <2>5, <2>6, NatsEndStep
<1>14. ASSUME NEW s \in NatsSub, NatsFinishDrain(s)
       PROVE  NatsLeave(s) \/ UNCHANGED NatsContract!contractVars
    <2>1. /\ natsSub[s] = "draining" /\ natsSub'[s] = "drained"
          /\ \A k \in NatsSub : k # s => natsSub'[k] = natsSub[k]
          /\ UNCHANGED <<natsClosed, natsCur, natsCall, natsWatcher, natsClose>>
        BY <1>14 DEF NatsFinishDrain, natsShared
    <2>2. \A k \in NatsSub : k # s => NatsPhase(k)' = NatsPhase(k)
        BY <2>1 DEF NatsPhase, NatsReleased
    <2>3. natsGate' = natsGate
        BY <2>1 DEF natsGate
    <2>4. CASE natsCall[s].pc = "idle"
        <3>1. NatsPhase(s) = "idle" /\ NatsPhase(s)' = "idle"
            BY <2>1, <2>4 DEF NatsPhase, NatsReleased, InProgress
        <3>2. \A k \in NatsSub : NatsPhase(k)' = NatsPhase(k)
            BY <2>2, <3>1
        <3> QED
            BY <2>3, <3>2 DEF NatsContract!contractVars, natsGate
    <2>5. CASE natsCall[s].pc # "idle"
        <3>1. NatsPhase(s) # "idle"
            BY <2>5 DEF NatsPhase
        <3>2. NatsPhase(s)' = "ended" \/ NatsPhase(s)' = NatsPhase(s)
            BY <2>1 DEF NatsPhase, NatsReleased
        <3> QED
            BY <2>2, <2>3, <3>1, <3>2, NatsEndStep
    <2> QED
        BY <2>4, <2>5
<1>9. ASSUME NatsBeginClose PROVE NatsContract!BeginClose
    <2>1. /\ natsClose.pc = "idle" /\ natsClosed' = TRUE /\ natsCur' = NoSub
          /\ natsClose'.pc \in {"release", "return"}
          /\ UNCHANGED <<natsCall, natsSub, natsWatcher>>
        BY <1>9 DEF NatsBeginClose, AfterTaking
    <2>2. natsGate = "open" /\ natsGate' = "closing"
        BY <2>1 DEF natsGate, NatsClosing
    <2>3. \A k \in NatsSub :
             NatsPhase(k)' = IF NatsPhase(k) = "serving" THEN "retiring" ELSE NatsPhase(k)
        BY <2>1 DEF NatsPhase, NatsReleased
    <2>4. natsPh' = NatsContract!Retire(NatsSub)
        BY <2>3 DEF natsPh, NatsContract!Retire
    <2> QED
        BY <2>2, <2>4 DEF NatsContract!BeginClose, natsPh, natsGate
<1>10. ASSUME NatsCloseRelease PROVE UNCHANGED NatsContract!contractVars
    <2>1. /\ natsClose.pc = "release" /\ natsClose'.pc = "await"
          /\ UNCHANGED <<natsClosed, natsCur, natsCall, natsSub, natsWatcher>>
        BY <1>10 DEF NatsCloseRelease, natsShared
    <2>2. \A k \in NatsSub : NatsPhase(k)' = NatsPhase(k)
        BY <2>1 DEF NatsPhase, NatsReleased
    <2>3. natsGate' = natsGate
        BY <2>1 DEF natsGate
    <2> QED
        BY <2>2, <2>3 DEF NatsContract!contractVars, natsGate
<1>11. ASSUME NatsCloseDrain
       PROVE  \/ \E d \in NatsSub : NatsLeave(d)
              \/ UNCHANGED NatsContract!contractVars
    <2>2. PICK d \in NatsSub : d = natsClose.prev /\ natsCall[d].pc = "ok"
        BY <1>11 DEF NatsCloseDrain, NatsClosing
    <2>1. /\ natsClose.pc = "await" /\ natsWatcher[d] = "exited"
          /\ natsSub' = [natsSub EXCEPT ![d] = IF @ = "live" THEN "draining" ELSE @]
          /\ natsClose'.pc = "return"
          /\ UNCHANGED <<natsClosed, natsCur, natsCall, natsWatcher>>
        BY <1>11, <2>2 DEF NatsCloseDrain, StartDrain, natsShared
    <2>3. /\ NatsPhase(d) # "idle"
          /\ \/ NatsPhase(d)' = "draining" /\ NatsPhase(d) \in {"serving", "retiring"}
             \/ NatsPhase(d)' = NatsPhase(d)
        <3>1. CASE natsSub[d] = "live"
            <4>1. NatsPhase(d) \in {"serving", "retiring"}
                BY <2>1, <2>2, <3>1 DEF NatsPhase, NatsReleased, InProgress
            <4>2. natsSub'[d] = "draining" /\ natsWatcher'[d] = "exited" /\ natsCall'[d].pc = "ok"
                BY <2>1, <2>2, <3>1
            <4>3. NatsPhase(d)' = "draining"
                BY <4>2 DEF NatsPhase, NatsReleased, InProgress
            <4> QED
                BY <4>1, <4>3
        <3>2. CASE natsSub[d] # "live"
            <4>1. natsSub' = natsSub /\ natsCall'[d] = natsCall[d]
                BY <2>1, <2>2, <3>2
            <4>2. NatsPhase(d)' = NatsPhase(d)
                BY <2>1, <4>1 DEF NatsPhase, NatsReleased
            <4>3. NatsPhase(d) # "idle"
                BY <2>2 DEF NatsPhase, InProgress
            <4> QED
                BY <4>2, <4>3
        <3> QED
            BY <3>1, <3>2
    <2>4. \A k \in NatsSub : k # d => NatsPhase(k)' = NatsPhase(k)
        BY <2>1, <2>2 DEF NatsPhase, NatsReleased
    <2>5. natsGate' = natsGate
        BY <2>1 DEF natsGate
    <2> QED
        BY <2>2, <2>3, <2>4, <2>5, NatsEndStep
<1>12. ASSUME NatsCloseReturn PROVE NatsContract!ReturnFromClose
    <2>1. /\ natsClose.pc = "return" /\ natsClose'.pc = "done"
          /\ UNCHANGED <<natsClosed, natsCur, natsCall, natsSub, natsWatcher>>
        BY <1>12 DEF NatsCloseReturn, natsShared
    <2>2. \A k \in NatsSub : NatsPhase(k)' = NatsPhase(k)
        BY <2>1 DEF NatsPhase, NatsReleased
    <2>3. natsGate = "closing" /\ natsGate' = "closed"
        BY <2>1 DEF natsGate, NatsClosing
    <2> QED
        BY <2>2, <2>3 DEF NatsContract!ReturnFromClose, natsGate
<1>13. ASSUME UNCHANGED natsVars PROVE UNCHANGED NatsContract!contractVars
    BY <1>13 DEF natsVars, natsShared, NatsContract!contractVars, NatsPhase, NatsReleased
<1> QED
    BY <1>2, <1>3, <1>4, <1>5, <1>6, <1>7, <1>8, <1>9, <1>10, <1>11, <1>12, <1>13,
       <1>14 DEF NatsNext, NatsCallStep, NatsCloseStep

\* The NATS adapter implements the contract: one current subscription, and, when
\* Close and every Subscribe have returned, no live subscription and no watcher,
\* only subscriptions that drain or have ended, for any number of calls that
\* overlap.
THEOREM NatsKeepsContract == NatsSpec => NatsImplements
<1>1. NatsInit => NatsContract!ContractInit
    <2> SUFFICES ASSUME NatsInit PROVE NatsContract!ContractInit
        OBVIOUS
    <2>1. \A s \in NatsSub : NatsPhase(s) = "idle"
        BY DEF NatsInit, NatsPhase, InProgress
    <2>2. ~natsClosed
        BY DEF NatsInit
    <2> QED
        BY <2>1, <2>2 DEF NatsContract!ContractInit
<1>2. NatsInv /\ NatsInv' /\ [NatsNext]_natsVars
         => [NatsContract!ContractNext]_(NatsContract!contractVars)
    BY NatsStep
<1> QED
    BY <1>1, <1>2, NatsInitOK, NatsInvStep, PTL
       DEF NatsSpec, NatsImplements, NatsContract!ContractSpec

-----------------------------------------------------------------------------
(* The Redis adapter                                                       *)

\* The goroutines of a subscription.
Kind == {"watcher", "receiver"}

\* The call holds two slots of a.wg for goroutines it has not started yet.
Reserved(s) == redisCall[s].pc \in {"replace", "dial"}

\* The slots of a.wg that are taken.
Slots == {x \in Kind \X RedisSub : Reserved(x[2]) \/ x \in redisGo}

\* The type of every variable the proof is about.
RedisTypes ==
    /\ redisClosed \in BOOLEAN
    /\ redisCancel \in RedisSub \cup {NoCancel}
    /\ redisWg \in Int
    /\ redisCall \in [RedisSub -> [pc : {"idle", "refused", "replace", "dial", "ok", "failed"},
                                   prev : RedisSub \cup {NoCancel}]]
    /\ redisGo \subseteq Kind \X RedisSub
    /\ redisClose \in {"idle", "cancel", "wait", "done"}

\* Goroutines run for confirmed subscriptions only, and Close is what closes
\* the adapter.
RedisStarted ==
    /\ redisClosed <=> redisClose # "idle"
    /\ \A x \in redisGo : redisCall[x[2]].pc = "ok"

\* The counter of a.wg is the number of its taken slots, so that none is taken
\* when Close has returned.
RedisCounted ==
    /\ IsFiniteSet(Slots) /\ redisWg = Cardinality(Slots)
    /\ redisClose = "done" => Slots = {}

\* The inductive invariant.
RedisInv == RedisTypes /\ RedisStarted /\ RedisCounted

\* The initial state satisfies the invariant.
LEMMA RedisInitOK == RedisInit => RedisInv
<1> SUFFICES ASSUME RedisInit PROVE RedisInv
    OBVIOUS
<1>1. RedisTypes /\ RedisStarted
    <2>1. redisCall \in [RedisSub ->
              [pc : {"idle", "refused", "replace", "dial", "ok", "failed"},
               prev : RedisSub \cup {NoCancel}]]
        BY DEF RedisInit
    <2>2. RedisTypes
        <3>1. redisGo \subseteq Kind \X RedisSub
            BY DEF RedisInit
        <3>2. redisClosed \in BOOLEAN
            BY Zenon DEF RedisInit
        <3>3. redisCancel \in RedisSub \cup {NoCancel}
            BY DEF RedisInit
        <3>4. redisWg \in Int
            BY DEF RedisInit
        <3>5. redisClose \in {"idle", "cancel", "wait", "done"}
            BY DEF RedisInit
        <3> QED
            BY <2>1, <3>1, <3>2, <3>3, <3>4, <3>5, Zenon DEF RedisTypes
    <2>3. RedisStarted
        BY DEF RedisInit, RedisStarted
    <2> QED
        BY <2>2, <2>3
<1>2. Slots = {}
    BY DEF RedisInit, Slots, Reserved
<1>3. RedisCounted
    BY <1>2, FS_EmptySet DEF RedisCounted, RedisInit
<1> QED
    BY <1>1, <1>3 DEF RedisInv

\* A call reserves its slots, gives them back, or a goroutine gives back its own.
LEMMA SlotTaken ==
    ASSUME RedisCounted, redisClose' # "done", NEW x, x \notin Slots,
           NEW y, y \notin Slots, x # y,
           Slots' = Slots \cup {x, y}, redisWg' = redisWg + 2
    PROVE  RedisCounted'
<1>1. /\ IsFiniteSet(Slots \cup {x})
      /\ Cardinality(Slots \cup {x}) = Cardinality(Slots) + 1
    BY FS_AddElement DEF RedisCounted
<1>2. y \notin Slots \cup {x} /\ Slots' = (Slots \cup {x}) \cup {y}
    OBVIOUS
<1>3. IsFiniteSet(Slots') /\ Cardinality(Slots') = Cardinality(Slots \cup {x}) + 1
    BY <1>1, <1>2, FS_AddElement
<1>4. Cardinality(Slots) \in Nat
    BY FS_CardinalityType DEF RedisCounted
<1> QED
    BY <1>1, <1>3, <1>4 DEF RedisCounted

\* One slot is given back.
LEMMA SlotBack ==
    ASSUME NEW S, IsFiniteSet(S), NEW x \in S
    PROVE  IsFiniteSet(S \ {x}) /\ Cardinality(S \ {x}) = Cardinality(S) - 1
BY FS_RemoveElement

\* The steps of the Subscribe calls.
LEMMA RedisCallKeeps ==
    ASSUME RedisInv, NEW s \in RedisSub,
           \/ RedisClaim(s) \/ RedisRefuse(s) \/ RedisCallStep(s)
           \/ RedisCallerCancels(s)
    PROVE  RedisInv'
<1> USE RedisAssumption DEF RedisInv, RedisTypes, Kind
<1> DEFINE W == <<"watcher", s>>
           R == <<"receiver", s>>
<1>0. W # R /\ W \in Kind \X RedisSub /\ R \in Kind \X RedisSub
    OBVIOUS
<1>1. ASSUME NEW x \in Kind \X RedisSub, x[2] = s PROVE x \in {W, R}
    BY <1>1
<1>2. CASE RedisClaim(s)
    <2>1. /\ redisCall[s].pc = "idle" /\ ~redisClosed
          /\ redisCancel' = s /\ redisWg' = redisWg + 2
          /\ redisCall'[s].pc = "replace"
          /\ \A t \in RedisSub : t # s => redisCall'[t] = redisCall[t]
          /\ UNCHANGED <<redisClosed, redisGo, redisClose>>
        BY <1>2 DEF RedisClaim
    <2>2. RedisTypes'
        BY <1>2 DEF RedisClaim
    <2>3. W \notin redisGo /\ R \notin redisGo
        BY <1>0, <2>1 DEF RedisStarted
    <2>4. RedisStarted'
        <3>1. \A x \in redisGo : x[2] # s
            BY <2>1 DEF RedisStarted
        <3> QED
            BY <2>1, <3>1 DEF RedisStarted
    <2>5. W \notin Slots /\ R \notin Slots
        BY <1>0, <2>1, <2>3 DEF Slots, Reserved
    <2>6. ASSUME NEW x \in Kind \X RedisSub
          PROVE  x \in Slots' <=> x \in Slots \cup {W, R}
        <3>1. CASE x[2] = s
            BY <1>0, <1>1, <2>1, <3>1 DEF Slots, Reserved
        <3>2. CASE x[2] # s
            BY <2>1, <3>2 DEF Slots, Reserved
        <3> QED
            BY <3>1, <3>2
    <2>7. Slots' = Slots \cup {W, R}
        BY <1>0, <2>6 DEF Slots
    <2>8. RedisCounted'
        <3>1. redisClose' # "done"
            BY <2>1 DEF RedisStarted
        <3> HIDE DEF W, R
        <3> QED
            BY <1>0, <2>1, <2>5, <2>7, <3>1, SlotTaken
    <2> QED
        BY <2>2, <2>4, <2>8
<1>3. CASE RedisRefuse(s) \/ RedisCancelPrev(s) \/ RedisCallerCancels(s)
    <2>1. /\ RedisTypes'
          /\ Reserved(s)' <=> Reserved(s)
          /\ redisCall'[s].pc = "ok" <=> redisCall[s].pc = "ok"
          /\ \A t \in RedisSub : t # s => redisCall'[t] = redisCall[t]
          /\ UNCHANGED <<redisClosed, redisWg, redisGo, redisClose>>
        BY <1>3 DEF RedisRefuse, RedisCancelPrev, RedisCallerCancels, redisShared, Reserved
    <2>2. RedisStarted'
        BY <2>1 DEF RedisStarted
    <2>3. Slots' = Slots
        BY <2>1 DEF Slots, Reserved
    <2>4. RedisCounted'
        BY <2>1, <2>3 DEF RedisCounted
    <2> QED
        BY <2>1, <2>2, <2>4
<1>4. CASE RedisConfirmed(s)
    <2>1. /\ redisCall[s].pc = "dial" /\ redisCall'[s].pc = "ok"
          /\ redisGo' = redisGo \cup {W, R}
          /\ \A t \in RedisSub : t # s => redisCall'[t] = redisCall[t]
          /\ UNCHANGED <<redisClosed, redisCancel, redisWg, redisClose>>
        BY <1>4 DEF RedisConfirmed, redisShared
    <2>2. RedisTypes'
        BY <1>0, <1>4, <2>1 DEF RedisConfirmed
    <2>3. RedisStarted'
        BY <2>1 DEF RedisStarted
    <2>4. ASSUME NEW x \in Kind \X RedisSub PROVE x \in Slots' <=> x \in Slots
        <3>1. CASE x[2] = s
            BY <1>0, <1>1, <2>1, <3>1 DEF Slots, Reserved
        <3>2. CASE x[2] # s
            BY <2>1, <3>2 DEF Slots, Reserved
        <3> QED
            BY <3>1, <3>2
    <2>5. Slots' = Slots
        BY <2>4 DEF Slots
    <2>6. RedisCounted'
        BY <2>1, <2>5 DEF RedisCounted
    <2> QED
        BY <2>2, <2>3, <2>6
<1>5. CASE RedisDialFails(s)
    <2>1. /\ redisCall[s].pc = "dial" /\ redisCall'[s].pc = "failed"
          /\ redisWg' = redisWg - 2
          /\ \A t \in RedisSub : t # s => redisCall'[t] = redisCall[t]
          /\ UNCHANGED <<redisClosed, redisCancel, redisGo, redisClose>>
        BY <1>5 DEF RedisDialFails, redisShared
    <2>2. RedisTypes'
        BY <1>5, <2>1 DEF RedisDialFails
    <2>3. \A x \in redisGo : x[2] # s
        BY <2>1 DEF RedisStarted
    <2>4. RedisStarted'
        BY <2>1, <2>3 DEF RedisStarted
    <2>5. W \in Slots /\ R \in Slots
        BY <1>0, <2>1 DEF Slots, Reserved
    <2>6. ASSUME NEW x \in Kind \X RedisSub
          PROVE  x \in Slots' <=> x \in (Slots \ {W}) \ {R}
        <3>1. CASE x[2] = s
            BY <1>1, <2>1, <2>3, <3>1 DEF Slots, Reserved
        <3>2. CASE x[2] # s
            BY <2>1, <3>2 DEF Slots, Reserved
        <3> QED
            BY <3>1, <3>2
    <2>7. Slots' = (Slots \ {W}) \ {R}
        BY <2>6 DEF Slots
    <2>8. RedisCounted'
        <3> HIDE DEF W, R
        <3>1. IsFiniteSet(Slots) /\ redisWg = Cardinality(Slots) /\ Slots # {}
            BY <2>5 DEF RedisCounted
        <3>2. IsFiniteSet(Slots \ {W}) /\ Cardinality(Slots \ {W}) = redisWg - 1
            BY <2>5, <3>1, SlotBack
        <3>3. R \in Slots \ {W}
            BY <1>0, <2>5
        <3>4. IsFiniteSet(Slots') /\ Cardinality(Slots') = (redisWg - 1) - 1
            BY <2>7, <3>2, <3>3, SlotBack
        <3> QED
            BY <2>1, <3>1, <3>4 DEF RedisCounted
    <2> QED
        BY <2>2, <2>4, <2>8
<1> QED
    BY <1>2, <1>3, <1>4, <1>5 DEF RedisCallStep

\* A goroutine of a subscription ends.
LEMMA RedisGoKeeps ==
    ASSUME RedisInv, NEW s \in RedisSub, RedisWatch(s) \/ RedisReceiverEnds(s)
    PROVE  RedisInv'
<1> USE DEF RedisInv, RedisTypes, Kind
<1>1. PICK x \in redisGo :
         /\ x \in {<<"watcher", s>>, <<"receiver", s>>}
         /\ redisGo' = redisGo \ {x} /\ redisWg' = redisWg - 1
         /\ UNCHANGED <<redisClosed, redisCancel, redisCall, redisClose>>
    BY DEF RedisWatch, RedisReceiverEnds, redisShared
<1>2. x \in Kind \X RedisSub /\ x[2] = s
    BY <1>1
<1>3. ~Reserved(s)
    BY <1>1, <1>2 DEF RedisStarted, Reserved
<1>4. x \in Slots
    BY <1>1, <1>2 DEF Slots
<1>5. Slots' = Slots \ {x}
    BY <1>1, <1>2, <1>3 DEF Slots, Reserved
<1>6. RedisTypes' /\ RedisStarted'
    BY <1>1 DEF RedisStarted
<1>7. RedisCounted'
    <2>1. IsFiniteSet(Slots) /\ redisWg = Cardinality(Slots) /\ redisClose # "done"
        BY <1>4 DEF RedisCounted
    <2>2. IsFiniteSet(Slots') /\ Cardinality(Slots') = redisWg - 1
        BY <1>4, <1>5, <2>1, SlotBack
    <2> QED
        BY <1>1, <2>1, <2>2 DEF RedisCounted
<1> QED
    BY <1>6, <1>7

\* The steps of Close; it returns when no slot is taken.
LEMMA RedisCloseKeeps ==
    ASSUME RedisInv, RedisBeginClose \/ RedisCloseStep PROVE RedisInv'
<1> USE DEF RedisInv, RedisTypes
<1>1. /\ UNCHANGED <<redisCancel, redisWg, redisCall, redisGo>>
      /\ redisClosed' = TRUE
      /\ redisClose' \in {"cancel", "wait", "done"}
      /\ redisClose' = "done" => redisWg = 0
    BY DEF RedisBeginClose, RedisCloseStep, RedisCloseCancels, RedisCloseReturns,
       redisShared, RedisStarted
<1>2. RedisTypes' /\ RedisStarted'
    BY <1>1 DEF RedisStarted
<1>3. Slots' = Slots
    BY <1>1 DEF Slots, Reserved
<1>4. redisWg = 0 => Slots = {}
    BY FS_EmptySet DEF RedisCounted
<1> QED
    BY <1>1, <1>2, <1>3, <1>4 DEF RedisCounted

\* Every step keeps the invariant.
LEMMA RedisInvStep == RedisInv /\ [RedisNext]_redisVars => RedisInv'
<1> SUFFICES ASSUME RedisInv, [RedisNext]_redisVars PROVE RedisInv'
    OBVIOUS
<1>1. CASE UNCHANGED redisVars
    <2>1. Slots' = Slots
        BY <1>1 DEF redisVars, Slots, Reserved
    <2> QED
        BY <1>1, <2>1 DEF redisVars, redisShared, RedisInv, RedisTypes, RedisStarted,
           RedisCounted
<1> QED
    BY <1>1, RedisCallKeeps, RedisGoKeeps, RedisCloseKeeps DEF RedisNext

\* The state of the contract, as the refinement mapping computes it.
redisPh == [s \in RedisSub |-> RedisPhase(s)]

redisGate == IF ~redisClosed THEN "open"
             ELSE IF redisClose = "done" THEN "closed" ELSE "closing"

\* What the phase of a subscription says of it.
LEMMA RedisPhases ==
    ASSUME RedisInv, NEW s \in RedisSub
    PROVE  /\ redisCall[s].pc = "idle" => RedisPhase(s) = "idle"
           /\ Reserved(s) => RedisPhase(s) = "calling"
           /\ redisCall[s].pc \notin {"idle", "replace", "dial"} =>
                 RedisPhase(s) = IF ~RedisRunning(s) THEN "ended"
                                 ELSE IF redisCancel = s /\ ~redisClosed
                                      THEN "serving" ELSE "retiring"
<1>1. RedisRunning(s) => redisCall[s].pc = "ok"
    BY DEF RedisRunning, RedisInv, RedisStarted
<1> QED
    BY <1>1 DEF RedisPhase, Reserved

\* What the steps of the contract require of its next state.
LEMMA RedisPromises ==
    RedisInv => RedisContract!OneServing /\ RedisContract!NothingLeft
<1> SUFFICES ASSUME RedisInv
             PROVE  RedisContract!OneServing /\ RedisContract!NothingLeft
    OBVIOUS
<1>1. \A s \in RedisSub : RedisPhase(s) = "serving" => redisCancel = s
    BY DEF RedisPhase
<1>2. RedisContract!OneServing
    BY <1>1 DEF RedisContract!OneServing
<1>3. ASSUME redisGate = "closed", NEW s \in RedisSub
      PROVE  RedisPhase(s) \in {"idle", "ended"}
    <2>1. Slots = {}
        BY <1>3 DEF redisGate, RedisInv, RedisCounted
    <2>2. redisGo = {}
        BY <2>1 DEF Slots, RedisInv, RedisTypes
    <2>3. ~Reserved(s)
        <3>1. <<"watcher", s>> \in Kind \X RedisSub /\ <<"watcher", s>>[2] = s
            BY DEF Kind
        <3> QED
            BY <2>1, <3>1 DEF Slots
    <2>4. ~RedisRunning(s)
        BY <2>2 DEF RedisRunning
    <2> QED
        BY <2>3, <2>4, RedisPhases DEF Reserved
<1>4. RedisContract!NothingLeft
    BY <1>3 DEF RedisContract!NothingLeft, redisGate
<1> QED
    BY <1>2, <1>4

\* No call is in progress when Close has returned.
LEMMA RedisDoneMeansIdle ==
    ASSUME RedisInv, NEW s \in RedisSub, Reserved(s)
    PROVE  redisGate # "closed"
<1>1. <<"watcher", s>> \in Kind \X RedisSub /\ <<"watcher", s>>[2] = s
    BY DEF Kind
<1>2. Slots # {}
    BY <1>1 DEF Slots
<1> QED
    BY <1>2 DEF redisGate, RedisInv, RedisCounted

\* One subscription ends, or was over already.
LEMMA RedisEndStep ==
    ASSUME NEW s \in RedisSub,
           RedisPhase(s)' = "ended" \/ RedisPhase(s)' = RedisPhase(s),
           RedisPhase(s) = "idle" => redisGate # "open",
           \A k \in RedisSub : k # s => RedisPhase(k)' = RedisPhase(k),
           redisGate' = redisGate
    PROVE  RedisContract!End(s) \/ UNCHANGED RedisContract!contractVars
<1>1. CASE RedisPhase(s)' = RedisPhase(s)
    <2>1. redisPh' = redisPh
        BY <1>1 DEF redisPh
    <2> QED
        BY <2>1 DEF RedisContract!contractVars, redisPh, redisGate
<1>2. CASE RedisPhase(s)' = "ended" /\ RedisPhase(s) # "ended"
    <2>1. redisPh' = [redisPh EXCEPT ![s] = "ended"]
        BY <1>2 DEF redisPh
    <2>2. redisPh[s] = RedisPhase(s)
        BY DEF redisPh
    <2> QED
        BY <1>2, <2>1, <2>2 DEF RedisContract!End, redisPh, redisGate
<1> QED
    BY <1>1, <1>2

\* Every step is a step of the contract or none.
LEMMA RedisStep ==
    ASSUME RedisInv, RedisInv', [RedisNext]_redisVars
    PROVE  [RedisContract!ContractNext]_(RedisContract!contractVars)
<1> USE RedisAssumption DEF RedisInv, RedisTypes
<1>0. RedisContract!OneServing' /\ RedisContract!NothingLeft'
    BY RedisPromises, PTL
<1>1. SUFFICES
          \/ \E s \in RedisSub :
                RedisContract!Begin(s) \/ RedisContract!Succeed(s) \/ RedisContract!End(s)
          \/ RedisContract!BeginClose \/ RedisContract!ReturnFromClose
          \/ UNCHANGED RedisContract!contractVars
    BY <1>0 DEF RedisContract!ContractNext
<1>2. ASSUME NEW s \in RedisSub, RedisClaim(s) PROVE RedisContract!Begin(s)
    <2>1. /\ redisCall[s].pc = "idle" /\ ~redisClosed
          /\ redisCancel' = s
          /\ redisCall'[s].pc = "replace"
          /\ \A k \in RedisSub : k # s => redisCall'[k] = redisCall[k]
          /\ UNCHANGED <<redisClosed, redisGo, redisClose>>
        BY <1>2 DEF RedisClaim
    <2>0. ~RedisRunning(s) /\ ~RedisRunning(s)'
        BY <2>1 DEF RedisRunning, RedisStarted
    <2>2. RedisPhase(s) = "idle" /\ RedisPhase(s)' = "calling"
        BY <2>0, <2>1 DEF RedisPhase
    <2>3. \A k \in RedisSub : k # s =>
             RedisPhase(k)' = IF RedisPhase(k) = "serving" THEN "retiring"
                              ELSE RedisPhase(k)
        BY <2>1 DEF RedisPhase, RedisRunning
    <2>4. redisGate = "open" /\ redisGate' = redisGate
        BY <2>1 DEF redisGate
    <2>5. redisPh' = [RedisContract!Retire(RedisSub) EXCEPT ![s] = "calling"]
        BY <2>2, <2>3 DEF redisPh, RedisContract!Retire
    <2> QED
        BY <2>2, <2>4, <2>5 DEF RedisContract!Begin, redisPh, redisGate
<1>3. ASSUME NEW s \in RedisSub, RedisRefuse(s) \/ RedisDialFails(s)
      PROVE  RedisContract!End(s) \/ UNCHANGED RedisContract!contractVars
    <2>1. /\ redisCall[s].pc \in {"idle", "dial"}
          /\ redisCall[s].pc = "idle" => redisClosed
          /\ redisCall'[s].pc \in {"refused", "failed"}
          /\ \A k \in RedisSub : k # s => redisCall'[k] = redisCall[k]
          /\ UNCHANGED <<redisClosed, redisCancel, redisGo, redisClose>>
        BY <1>3 DEF RedisRefuse, RedisDialFails, redisShared
    <2>2. \A k \in RedisSub : k # s => RedisPhase(k)' = RedisPhase(k)
        BY <2>1 DEF RedisPhase, RedisRunning
    <2>3. ~RedisRunning(s)
        BY <2>1 DEF RedisRunning, RedisStarted
    <2>4. RedisPhase(s)' = "ended"
        BY <2>1, <2>3 DEF RedisPhase, RedisRunning
    <2>5. RedisPhase(s) = "idle" => redisGate # "open"
        BY <2>1 DEF RedisPhase, redisGate
    <2>6. redisGate' = redisGate
        BY <2>1 DEF redisGate
    <2> QED
        BY <2>2, <2>4, <2>5, <2>6, RedisEndStep
<1>4. ASSUME NEW s \in RedisSub, RedisCancelPrev(s) \/ RedisCallerCancels(s)
      PROVE  UNCHANGED RedisContract!contractVars
    <2>1. /\ \A k \in RedisSub :
                \/ redisCall'[k].pc = redisCall[k].pc
                \/ redisCall[k].pc = "replace" /\ redisCall'[k].pc = "dial"
          /\ UNCHANGED <<redisClosed, redisCancel, redisGo, redisClose>>
        BY <1>4 DEF RedisCancelPrev, RedisCallerCancels, redisShared
    <2>2. \A k \in RedisSub : RedisPhase(k)' = RedisPhase(k)
        BY <2>1 DEF RedisPhase, RedisRunning
    <2>3. redisGate' = redisGate
        BY <2>1 DEF redisGate
    <2> QED
        BY <2>2, <2>3 DEF RedisContract!contractVars, redisGate
<1>5. ASSUME NEW s \in RedisSub, RedisConfirmed(s) PROVE RedisContract!Succeed(s)
    <2>1. /\ redisCall[s].pc = "dial" /\ redisCall'[s].pc = "ok"
          /\ redisGo' = redisGo \cup {<<"watcher", s>>, <<"receiver", s>>}
          /\ \A k \in RedisSub : k # s => redisCall'[k] = redisCall[k]
          /\ UNCHANGED <<redisClosed, redisCancel, redisClose>>
        BY <1>5 DEF RedisConfirmed, redisShared
    <2>0. Reserved(s)
        BY <2>1 DEF Reserved
    <2>2. RedisPhase(s) = "calling" /\ redisGate # "closed" /\ redisGate' = redisGate
        BY <2>0, <2>1, RedisPhases, RedisDoneMeansIdle DEF redisGate
    <2>3. /\ RedisPhase(s)' \in {"serving", "retiring"}
          /\ RedisPhase(s)' = "serving" => redisGate = "open"
        BY <2>1 DEF RedisPhase, RedisRunning, redisGate
    <2>4. \A k \in RedisSub : k # s => RedisPhase(k)' = RedisPhase(k)
        BY <2>1 DEF RedisPhase, RedisRunning
    <2>5. redisPh' = [redisPh EXCEPT ![s] = RedisPhase(s)'] /\ redisPh[s] = "calling"
        BY <2>2, <2>4 DEF redisPh
    <2> QED
        BY <2>2, <2>3, <2>5 DEF RedisContract!Succeed, redisPh, redisGate
<1>6. ASSUME NEW s \in RedisSub, RedisWatch(s) \/ RedisReceiverEnds(s)
      PROVE  RedisContract!End(s) \/ UNCHANGED RedisContract!contractVars
    <2>1. PICK x \in redisGo :
             /\ x \in {<<"watcher", s>>, <<"receiver", s>>}
             /\ redisGo' = redisGo \ {x}
             /\ UNCHANGED <<redisClosed, redisCancel, redisCall, redisClose>>
        BY <1>6 DEF RedisWatch, RedisReceiverEnds, redisShared
    <2>2. \A k \in RedisSub : k # s => RedisPhase(k)' = RedisPhase(k)
        BY <2>1 DEF RedisPhase, RedisRunning
    <2>3. redisCall[s].pc = "ok"
        BY <2>1 DEF RedisStarted
    <2>4. RedisPhase(s) # "idle"
        BY <2>3 DEF RedisPhase
    <2>5. RedisPhase(s)' = "ended" \/ RedisPhase(s)' = RedisPhase(s)
        BY <2>1, <2>3 DEF RedisPhase, RedisRunning
    <2>6. redisGate' = redisGate
        BY <2>1 DEF redisGate
    <2> QED
        BY <2>2, <2>4, <2>5, <2>6, RedisEndStep
<1>7. ASSUME RedisBeginClose PROVE RedisContract!BeginClose
    <2>1. /\ redisClose = "idle" /\ redisClosed' = TRUE /\ redisClose' = "cancel"
          /\ UNCHANGED <<redisCancel, redisCall, redisGo>>
        BY <1>7 DEF RedisBeginClose
    <2>2. ~redisClosed /\ redisGate = "open" /\ redisGate' = "closing"
        BY <2>1 DEF redisGate, RedisStarted
    <2>3. \A k \in RedisSub :
             RedisPhase(k)' = IF RedisPhase(k) = "serving" THEN "retiring"
                              ELSE RedisPhase(k)
        BY <2>1, <2>2 DEF RedisPhase, RedisRunning
    <2>4. redisPh' = RedisContract!Retire(RedisSub)
        BY <2>3 DEF redisPh, RedisContract!Retire
    <2> QED
        BY <2>2, <2>4 DEF RedisContract!BeginClose, redisPh, redisGate
<1>8. ASSUME RedisCloseCancels PROVE UNCHANGED RedisContract!contractVars
    <2>1. /\ redisClose = "cancel" /\ redisClose' = "wait"
          /\ UNCHANGED <<redisClosed, redisCancel, redisCall, redisGo>>
        BY <1>8 DEF RedisCloseCancels, redisShared
    <2>2. \A k \in RedisSub : RedisPhase(k)' = RedisPhase(k)
        BY <2>1 DEF RedisPhase, RedisRunning
    <2>3. redisGate' = redisGate
        BY <2>1 DEF redisGate
    <2> QED
        BY <2>2, <2>3 DEF RedisContract!contractVars, redisGate
<1>9. ASSUME RedisCloseReturns PROVE RedisContract!ReturnFromClose
    <2>1. /\ redisClose = "wait" /\ redisClose' = "done"
          /\ UNCHANGED <<redisClosed, redisCancel, redisCall, redisGo>>
        BY <1>9 DEF RedisCloseReturns, redisShared
    <2>2. \A k \in RedisSub : RedisPhase(k)' = RedisPhase(k)
        BY <2>1 DEF RedisPhase, RedisRunning
    <2>3. redisGate = "closing" /\ redisGate' = "closed"
        BY <2>1 DEF redisGate, RedisStarted
    <2> QED
        BY <2>2, <2>3 DEF RedisContract!ReturnFromClose, redisGate
<1>10. ASSUME UNCHANGED redisVars PROVE UNCHANGED RedisContract!contractVars
    BY <1>10 DEF redisVars, redisShared, RedisContract!contractVars, RedisPhase,
       RedisRunning
<1> QED
    BY <1>2, <1>3, <1>4, <1>5, <1>6, <1>7, <1>8, <1>9, <1>10
       DEF RedisNext, RedisCallStep, RedisCloseStep

\* The Redis adapter implements the contract: Close waits for the goroutines of
\* every subscription, those that a Subscribe has only reserved included, for any
\* number of calls that overlap.
THEOREM RedisKeepsContract == RedisSpec => RedisImplements
<1>1. RedisInit => RedisContract!ContractInit
    <2> SUFFICES ASSUME RedisInit PROVE RedisContract!ContractInit
        OBVIOUS
    <2>1. \A s \in RedisSub : RedisPhase(s) = "idle"
        BY DEF RedisInit, RedisPhase, RedisRunning
    <2>2. ~redisClosed
        BY DEF RedisInit
    <2> QED
        BY <2>1, <2>2 DEF RedisContract!ContractInit
<1>2. RedisInv /\ RedisInv' /\ [RedisNext]_redisVars
         => [RedisContract!ContractNext]_(RedisContract!contractVars)
    BY RedisStep
<1> QED
    BY <1>1, <1>2, RedisInitOK, RedisInvStep, PTL
       DEF RedisSpec, RedisImplements, RedisContract!ContractSpec
=============================================================================
