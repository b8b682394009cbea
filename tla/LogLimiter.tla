----------------------------- MODULE LogLimiter -----------------------------
(***************************************************************************)
(* logLimiter.allow, which keeps failing handshakes from flooding the log: *)
(* concurrent upgrades read the clock, load the time of the last line and  *)
(* compare-and-swap it, in three steps without a lock.                     *)
(***************************************************************************)
EXTENDS Naturals, Sequences

CONSTANTS
    Handshake,    \* upgrades that fail, one call of allow each at a time
    LogInterval,  \* handshakeLogInterval
    MaxNano       \* bound: the clock stops here

ASSUME LogAssumption == LogInterval \in Nat \ {0} /\ MaxNano \in Nat

VARIABLES
    nano,      \* time.Now().UnixNano()
    lastLine,  \* l.last
    allow,     \* each call: its step, and the now and last it has read
    lines      \* history: the times under which lines were permitted

logVars == <<nano, lastLine, allow, lines>>

Waiting == [step |-> "none", now |-> 0, last |-> 0]

\* The zero value of last is more than an interval ago.
LogInit ==
    /\ nano = LogInterval
    /\ lastLine = 0
    /\ allow = [h \in Handshake |-> Waiting]
    /\ lines = <<>>

AllowReadsClock(h) ==
    /\ allow[h].step = "none"
    /\ allow' = [allow EXCEPT ![h] = [step |-> "load", now |-> nano, last |-> 0]]
    /\ UNCHANGED <<nano, lastLine, lines>>

\* l.last.Load, and false if it is too recent, or later than now.
AllowLoads(h) ==
    /\ allow[h].step = "load"
    /\ allow' = [allow EXCEPT ![h] =
                   IF allow[h].now < lastLine + LogInterval
                   THEN Waiting
                   ELSE [@ EXCEPT !.step = "swap", !.last = lastLine]]
    /\ UNCHANGED <<nano, lastLine, lines>>

SwapUnconditionally(h) ==
    /\ allow[h].step = "swap"
    /\ lastLine' = allow[h].now
    /\ lines' = Append(lines, allow[h].now)
    /\ allow' = [allow EXCEPT ![h] = Waiting]
    /\ UNCHANGED nano

\* The compare-and-swap decides who writes the line.
AllowSwaps(h) ==
    /\ allow[h].step = "swap"
    /\ IF lastLine = allow[h].last
       THEN /\ lastLine' = allow[h].now
            /\ lines' = Append(lines, allow[h].now)
       ELSE UNCHANGED <<lastLine, lines>>
    /\ allow' = [allow EXCEPT ![h] = Waiting]
    /\ UNCHANGED nano

LogClock ==
    /\ nano < MaxNano
    /\ nano' = nano + 1
    /\ UNCHANGED <<lastLine, allow, lines>>

LogNext ==
    \/ \E h \in Handshake : AllowReadsClock(h) \/ AllowLoads(h) \/ AllowSwaps(h)
    \/ LogClock

LogSpec == LogInit /\ [][LogNext]_logVars

-----------------------------------------------------------------------------
(* Properties                                                              *)

\* Two permitted lines carry times that are an interval apart, in the order in
\* which they were permitted, however long a call takes between its three steps.
LinesSpaced ==
    \A i, j \in DOMAIN lines : i < j => lines[i] + LogInterval <= lines[j]
=============================================================================
