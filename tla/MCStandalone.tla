---------------------------- MODULE MCStandalone ----------------------------
(***************************************************************************)
(* The parts of a node that share no state with one another, checked side  *)
(* by side: the send path of one client, presence, the user index, the     *)
(* subscriptions of the two adapters, the rate and log limiters and the    *)
(* clock of the drain reaper.  Each behaviour is one of a single part,     *)
(* chosen in the initial state; the others do not move.                    *)
(***************************************************************************)
EXTENDS SendQueue, Presence, UserIndex, NatsAdapter, RedisAdapter, RateLimit,
        LogLimiter, DrainReaper

VARIABLE part    \* the part this behaviour is about

Part == {"queue", "presence", "users", "nats", "redis", "rate", "log", "reaper"}

\* The parts that stand still start in one of their initial states.
StandaloneInit ==
    /\ part \in Part
    /\ QueueInit /\ PresenceInit /\ UserInit /\ NatsInit /\ RedisInit
    /\ RateInit /\ LogInit /\ ReaperInit
    /\ hubUp = (part = "presence")
    /\ part # "queue" => policy = "DropOldest"
    /\ part # "users" => userID = [k \in IndexedClient |-> NoUser]
    /\ part # "reaper" => ~pending

\* The state of the other parts.
OthersUnchanged ==
    /\ part # "queue"    => UNCHANGED queueVars
    /\ part # "presence" => UNCHANGED presenceVars
    /\ part # "users"    => UNCHANGED userVars
    /\ part # "nats"     => UNCHANGED natsVars
    /\ part # "redis"    => UNCHANGED redisVars
    /\ part # "rate"     => UNCHANGED rateVars
    /\ part # "log"      => UNCHANGED logVars
    /\ part # "reaper"   => UNCHANGED reaperVars

StandaloneNext ==
    /\ UNCHANGED part
    /\ OthersUnchanged
    /\ \/ part = "queue"    /\ QueueNext
       \/ part = "presence" /\ PresenceNext
       \/ part = "users"    /\ UserNext
       \/ part = "nats"     /\ NatsNext
       \/ part = "redis"    /\ RedisNext
       \/ part = "rate"     /\ RateNext
       \/ part = "log"      /\ LogNext
       \/ part = "reaper"   /\ ReaperNext

standaloneVars == <<part, queueVars, presenceVars, userVars, natsVars, redisVars,
                    rateVars, logVars, reaperVars>>

\* What stands still has nothing to do, and is treated fairly at no cost.
StandaloneSpec ==
    /\ StandaloneInit /\ [][StandaloneNext]_standaloneVars
    /\ QueueFairness /\ PresenceFairness /\ NatsFairness /\ RedisFairness

\* Close of either adapter returns, and the subscriptions it closes, or another
\* Subscribe replaces, end: none is left behind with its goroutines waiting.
AdaptersLetGo == NatsLetsGo /\ RedisLetsGo
=============================================================================
