--------------------------- MODULE AdapterContract ---------------------------
(***************************************************************************)
(* What a hub may expect of its Adapter (adapter.go), as far as            *)
(* subscriptions go.  A Subscribe call is in progress, then its            *)
(* subscription serves, until it is replaced, closed or cancelled: it      *)
(* retires.  A client library may then drain it: it receives nothing new   *)
(* and no goroutine of the adapter is at work for it, but its handler is   *)
(* still called for the messages that had arrived.  In the end it has      *)
(* ended and calls its handler no more.  The NATS adapter, whose           *)
(* subscriptions drain, and the Redis adapter, whose do not, implement     *)
(* this specification.                                                     *)
(***************************************************************************)
EXTENDS Naturals

CONSTANTS
    Sub,     \* Subscribe calls, with the subscriptions they make
    Drains   \* TRUE: handlers may still run for a subscription that was let go

VARIABLES
    phase,  \* of each call: idle, calling, serving, retiring, draining, ended
    gate    \* the adapter: open, closing (Close was called), closed (it returned)

contractVars == <<phase, gate>>

ContractInit ==
    /\ phase = [s \in Sub |-> "idle"]
    /\ gate = "open"

Calling == {s \in Sub : phase[s] = "calling"}

\* Two subscriptions never both count as current.
OneServing ==
    \A s, t \in Sub : phase[s] = "serving" /\ phase[t] = "serving" => s = t

\* Once Close and the Subscribe calls have returned, no subscription receives
\* anything and no goroutine of the adapter is left.  A handler runs on behalf of
\* a closed adapter only where subscriptions drain, for what arrived before.
NothingLeft ==
    (gate = "closed" /\ Calling = {})
        => \A s \in Sub : phase[s] \in {"idle", "ended"} \cup
                                       (IF Drains THEN {"draining"} ELSE {})

Retire(S) ==
    [s \in Sub |-> IF s \in S /\ phase[s] = "serving" THEN "retiring" ELSE phase[s]]

\* Subscribe replaces the current subscription.
Begin(s) ==
    /\ phase[s] = "idle"
    /\ gate = "open"
    /\ phase' = [Retire(Sub) EXCEPT ![s] = "calling"]
    /\ UNCHANGED gate

\* Subscribe returns nil.  A call that was overtaken by another one, or by
\* Close, may do so, and then its subscription is on its way out.
Succeed(s) ==
    /\ phase[s] = "calling"
    /\ gate # "closed"
    /\ \E p \in {"serving", "retiring"} :
          /\ p = "serving" => gate = "open"
          /\ phase' = [phase EXCEPT ![s] = p]
    /\ UNCHANGED gate

\* A subscription is let go, or a superseded call gives up its own, and drains.
Drain(s) ==
    /\ Drains
    /\ phase[s] \in {"calling", "serving", "retiring"}
    /\ phase' = [phase EXCEPT ![s] = "draining"]
    /\ UNCHANGED gate

\* A refused, failed or superseded call, or the end of a subscription.
End(s) ==
    /\ phase[s] # "ended"
    /\ phase[s] = "idle" => gate # "open"
    /\ phase' = [phase EXCEPT ![s] = "ended"]
    /\ UNCHANGED gate

BeginClose ==
    /\ gate = "open"
    /\ gate' = "closing"
    /\ phase' = Retire(Sub)

ReturnFromClose ==
    /\ gate = "closing"
    /\ gate' = "closed"
    /\ UNCHANGED phase

ContractNext ==
    /\ \/ \E s \in Sub : Begin(s) \/ Succeed(s) \/ Drain(s) \/ End(s)
       \/ BeginClose \/ ReturnFromClose
    /\ OneServing' /\ NothingLeft'

ContractSpec == ContractInit /\ [][ContractNext]_contractVars

\* Close returns, and what was replaced or closed does end: again and again
\* nothing is on its way out.
LetsGo ==
    []<>(gate # "closing" /\ \A s \in Sub : phase[s] \notin {"retiring", "draining"})
=============================================================================
