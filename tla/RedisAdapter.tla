---------------------------- MODULE RedisAdapter ----------------------------
(***************************************************************************)
(* Subscribe and Close of the Redis adapter (adapter/redis/redis.go),      *)
(* called concurrently.  Each subscription has two goroutines: a watcher   *)
(* that closes the PubSub when its context is done, and a receiver that    *)
(* ends when the PubSub is closed.  Close waits for all of them with a     *)
(* WaitGroup whose slots a Subscribe reserves under a.mu.                  *)
(***************************************************************************)
EXTENDS Integers

CONSTANTS
    RedisSub,   \* Subscribe calls, with the subscriptions they make
    NoCancel    \* a.cancel = nil

ASSUME RedisAssumption == NoCancel \notin RedisSub

VARIABLES
    redisClosed,   \* a.closed
    redisCancel,   \* a.cancel: the call whose cancel function it is
    redisWg,       \* the counter of a.wg
    redisCall,     \* each Subscribe: where it is and the cancel it took over
    redisCtx,      \* calls whose derived context is done
    redisSub,      \* PubSub of each call: none, open, closed
    redisGo,       \* goroutines that run, as <<kind, call>>
    redisClose     \* the Close call

redisShared == <<redisClosed, redisCancel>>
redisVars == <<redisShared, redisWg, redisCall, redisCtx, redisSub, redisGo,
               redisClose>>

RedisInit ==
    /\ redisClosed = FALSE /\ redisCancel = NoCancel /\ redisWg = 0
    /\ redisCall = [s \in RedisSub |-> [pc |-> "idle", prev |-> NoCancel]]
    /\ redisCtx = {} /\ redisGo = {}
    /\ redisSub = [s \in RedisSub |-> "none"]
    /\ redisClose = "idle"

-----------------------------------------------------------------------------
(* Subscribe                                                               *)

ClaimUnreserved(s) ==
    /\ redisCall[s].pc = "idle" /\ ~redisClosed
    /\ redisCancel' = s
    /\ redisCall' = [redisCall EXCEPT ![s] = [pc |-> "replace", prev |-> redisCancel]]
    /\ UNCHANGED <<redisClosed, redisWg, redisCtx, redisSub, redisGo, redisClose>>

\* Under a.mu: exchange a.cancel and reserve the slots of both goroutines.
RedisClaim(s) ==
    /\ redisCall[s].pc = "idle" /\ ~redisClosed
    /\ redisCancel' = s
    /\ redisWg' = redisWg + 2
    /\ redisCall' = [redisCall EXCEPT ![s] = [pc |-> "replace", prev |-> redisCancel]]
    /\ UNCHANGED <<redisClosed, redisCtx, redisSub, redisGo, redisClose>>

\* ErrClosed.
RedisRefuse(s) ==
    /\ redisCall[s].pc = "idle" /\ redisClosed
    /\ redisCall' = [redisCall EXCEPT ![s].pc = "refused"]
    /\ UNCHANGED <<redisShared, redisWg, redisCtx, redisSub, redisGo, redisClose>>

LeaveStranded(s) ==
    /\ redisCall[s].pc = "replace"
    /\ redisCall' = [redisCall EXCEPT ![s].pc = "dial"]
    /\ UNCHANGED <<redisShared, redisWg, redisCtx, redisSub, redisGo, redisClose>>

\* prev(), without the lock: what is replaced is told, and not waited for.
RedisCancelPrev(s) ==
    /\ redisCall[s].pc = "replace"
    /\ redisCtx' = redisCtx \cup ({redisCall[s].prev} \ {NoCancel})
    /\ redisCall' = [redisCall EXCEPT ![s].pc = "dial"]
    /\ UNCHANGED <<redisShared, redisWg, redisSub, redisGo, redisClose>>

\* The subscription is confirmed, even if the context is done by now, and
\* both goroutines start.
RedisConfirmed(s) ==
    /\ redisCall[s].pc = "dial"
    /\ redisSub' = [redisSub EXCEPT ![s] = "open"]
    /\ redisGo' = redisGo \cup {<<"watcher", s>>, <<"receiver", s>>}
    /\ redisCall' = [redisCall EXCEPT ![s].pc = "ok"]
    /\ UNCHANGED <<redisShared, redisWg, redisCtx, redisClose>>

\* sub.Receive fails: the slots are given back.  a.cancel stays as it is.
RedisDialFails(s) ==
    /\ redisCall[s].pc = "dial"
    /\ redisSub' = [redisSub EXCEPT ![s] = "closed"]
    /\ redisCtx' = redisCtx \cup {s}
    /\ redisWg' = redisWg - 2
    /\ redisCall' = [redisCall EXCEPT ![s].pc = "failed"]
    /\ UNCHANGED <<redisShared, redisGo, redisClose>>

\* The caller cancels the context it has passed.
RedisCallerCancels(s) ==
    /\ redisCall[s].pc \in {"replace", "dial", "ok"}
    /\ redisCtx' = redisCtx \cup {s}
    /\ UNCHANGED <<redisShared, redisWg, redisCall, redisSub, redisGo, redisClose>>

\* The watcher closes the PubSub once the context is done.
RedisWatch(s) ==
    /\ <<"watcher", s>> \in redisGo /\ s \in redisCtx
    /\ redisSub' = [redisSub EXCEPT ![s] = "closed"]
    /\ redisGo' = redisGo \ {<<"watcher", s>>}
    /\ redisWg' = redisWg - 1
    /\ UNCHANGED <<redisShared, redisCall, redisCtx, redisClose>>

\* The receiver's channel is closed with the PubSub.
RedisReceiverEnds(s) ==
    /\ <<"receiver", s>> \in redisGo /\ redisSub[s] = "closed"
    /\ redisGo' = redisGo \ {<<"receiver", s>>}
    /\ redisWg' = redisWg - 1
    /\ UNCHANGED <<redisShared, redisCall, redisCtx, redisSub, redisClose>>

-----------------------------------------------------------------------------
(* Close                                                                   *)

RedisBeginClose ==
    /\ redisClose = "idle"
    /\ redisClosed' = TRUE
    /\ redisClose' = "cancel"
    /\ UNCHANGED <<redisCancel, redisWg, redisCall, redisCtx, redisSub, redisGo>>

\* a.cancel cannot change once closed is set: the copy Close made of it under
\* a.mu is the variable itself.
RedisCloseCancels ==
    /\ redisClose = "cancel"
    /\ redisCtx' = redisCtx \cup ({redisCancel} \ {NoCancel})
    /\ redisClose' = "wait"
    /\ UNCHANGED <<redisShared, redisWg, redisCall, redisSub, redisGo>>

\* a.wg.Wait, and Close returns.
RedisCloseReturns ==
    /\ redisClose = "wait" /\ redisWg = 0
    /\ redisClose' = "done"
    /\ UNCHANGED <<redisShared, redisWg, redisCall, redisCtx, redisSub, redisGo>>

-----------------------------------------------------------------------------
RedisCallStep(s) == RedisCancelPrev(s) \/ RedisConfirmed(s) \/ RedisDialFails(s)

RedisCloseStep == RedisCloseCancels \/ RedisCloseReturns

RedisNext ==
    \/ \E s \in RedisSub :
          \/ RedisClaim(s) \/ RedisRefuse(s) \/ RedisCallStep(s)
          \/ RedisCallerCancels(s) \/ RedisWatch(s) \/ RedisReceiverEnds(s)
    \/ RedisBeginClose \/ RedisCloseStep

\* Calls in progress and goroutines with something to do take their next step.
RedisFairness ==
    /\ WF_redisVars(RedisCloseStep)
    /\ \A s \in RedisSub :
          /\ WF_redisVars(RedisCallStep(s))
          /\ WF_redisVars(RedisWatch(s))
          /\ WF_redisVars(RedisReceiverEnds(s))

RedisSpec == RedisInit /\ [][RedisNext]_redisVars /\ RedisFairness

-----------------------------------------------------------------------------
(* Refinement                                                              *)

RedisRunning(s) == \E kind \in {"watcher", "receiver"} : <<kind, s>> \in redisGo

RedisPhase(s) ==
    CASE redisCall[s].pc = "idle"                             -> "idle"
      [] redisCall[s].pc \in {"replace", "dial"}              -> "calling"
      [] RedisRunning(s) /\ redisCancel = s /\ ~redisClosed   -> "serving"
      [] RedisRunning(s) /\ (redisCancel # s \/ redisClosed)  -> "retiring"
      [] OTHER                                                -> "ended"

RedisContract == INSTANCE AdapterContract WITH
    Sub    <- RedisSub,
    Drains <- FALSE,
    phase  <- [s \in RedisSub |-> RedisPhase(s)],
    gate   <- IF ~redisClosed THEN "open"
              ELSE IF redisClose = "done" THEN "closed" ELSE "closing"

\* The Redis adapter keeps the contract: Close does not return while a
\* Subscribe is still about to start its goroutines, and none of them is left
\* when it does.
RedisImplements == RedisContract!ContractSpec

\* Its calls return and its subscriptions end: a subscription that is replaced
\* is cancelled by the one that replaces it, so that Close does not wait forever.
RedisLetsGo == RedisContract!LetsGo
=============================================================================
