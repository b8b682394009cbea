----------------------------- MODULE RateLimit -----------------------------
(***************************************************************************)
(* The inbound messages of one client: readPump reads a message, asks the  *)
(* token bucket of checkRateLimit, and drops the message or runs           *)
(* processMessage with its hooks and handlers before it reads the next     *)
(* one.                                                                    *)
(*                                                                         *)
(* Time is discrete, Second ticks to a second, and tokens are counted in   *)
(* fractions 1/Second, so that a tick refills MaxMessageRate of them and   *)
(* the arithmetic is exact; the code's float64 rounds below that.          *)
(***************************************************************************)
EXTENDS Naturals, Sequences

CONSTANTS
    MaxMessageRate,  \* limits.MaxMessageRate; with 0 every message passes
    Second,          \* ticks to a second
    MaxTick          \* bound: the clock stops here

ASSUME RateAssumption ==
    /\ MaxMessageRate \in Nat \ {0} /\ Second \in Nat \ {0}
    /\ MaxTick \in Nat

VARIABLES
    tick,        \* time.Now()
    tokens,      \* c.tokens, in fractions of a token
    lastRefill,  \* c.lastRefill
    reader,      \* readPump: reading or processing
    accepted,    \* history: the times of the messages that passed
    dropped      \* history: of those that did not, with what had passed

rateVars == <<tick, tokens, lastRefill, reader, accepted, dropped>>

Burst == MaxMessageRate * Second

\* newClient starts with a full bucket.
RateInit ==
    /\ tick = 0 /\ lastRefill = 0
    /\ tokens = Burst
    /\ reader = "reading"
    /\ accepted = <<>> /\ dropped = {}

RefillUncapped == tokens + (tick - lastRefill) * MaxMessageRate

\* The tokens at this moment.
Refilled ==
    LET refill == tokens + (tick - lastRefill) * MaxMessageRate
    IN  IF refill > Burst THEN Burst ELSE refill

\* A message is read and there is a token for it.
RateAccept ==
    /\ reader = "reading"
    /\ Refilled >= Second
    /\ tokens' = Refilled - Second
    /\ lastRefill' = tick
    /\ accepted' = Append(accepted, tick)
    /\ reader' = "processing"
    /\ UNCHANGED <<tick, dropped>>

\* A message is read and dropped; the bucket is refilled all the same.
RateDrop ==
    /\ reader = "reading"
    /\ Refilled < Second
    /\ tokens' = Refilled
    /\ lastRefill' = tick
    /\ dropped' = dropped \cup {[at |-> tick, after |-> Len(accepted)]}
    /\ UNCHANGED <<tick, reader, accepted>>

\* processMessage returns; the next message is not read before, however long
\* the hooks and handlers take.
ProcessMessage ==
    /\ reader = "processing"
    /\ reader' = "reading"
    /\ UNCHANGED <<tick, tokens, lastRefill, accepted, dropped>>

RateClock ==
    /\ tick < MaxTick
    /\ tick' = tick + 1
    /\ UNCHANGED <<tokens, lastRefill, reader, accepted, dropped>>

RateNext == RateAccept \/ RateDrop \/ ProcessMessage \/ RateClock

RateSpec == RateInit /\ [][RateNext]_rateVars

-----------------------------------------------------------------------------
(* Properties                                                              *)

\* n messages within d ticks are within the rate: a burst of one second's
\* messages, and what the time in between allows.
Conforms(n, d) == n * Second <= MaxMessageRate * (Second + d)

\* The bucket does what the comment on checkRateLimit says, no more and no less:
\* in no stretch of time do more messages pass than a burst and the rate allow,
\* and a message is dropped only if with it they would.
RateExact ==
    /\ \A i, j \in DOMAIN accepted :
          i <= j => Conforms(j - i + 1, accepted[j] - accepted[i])
    /\ \A m \in dropped : \E i \in 1..m.after :
          ~Conforms(m.after - i + 2, m.at - accepted[i])
=============================================================================
