---------------------------- MODULE HubLifecycle ----------------------------
(***************************************************************************)
(* The life of a hub and of its connections: the Run goroutine with its    *)
(* register and unregister channels, UpgradeConnection called by HTTP      *)
(* handlers, the read and write pump of every connection, Drain with its   *)
(* idle reaper, and Shutdown.                                              *)
(*                                                                         *)
(* Run is the only goroutine that writes h.clients and h.clientCount.      *)
(* Everybody else talks to it through the two buffered channels, through   *)
(* the atomics hub.state and hub.clientCount, and by closing channels      *)
(* (drainDone, ctx.Done, client.done).                                     *)
(*                                                                         *)
(* Rooms and the user index, which handleUnregister also cleans up, are    *)
(* modules of their own.                                                   *)
(***************************************************************************)
EXTENDS Integers, FiniteSets

CONSTANTS
    Client,          \* one *Client per UpgradeConnection call
    Drainer,         \* goroutines that call Drain
    None,
    MaxConnections,  \* limits.MaxConnections, 0 is no limit
    QCap,            \* buffer of the register and unregister channels (64)
    Reap,            \* TRUE: drainTimeout > 0, Drain starts the reaper
    PeerFails        \* TRUE: peers may disconnect, networks may break

ASSUME LifecycleAssumption ==
    /\ IsFiniteSet(Client)
    /\ None \notin Client
    /\ MaxConnections \in Nat
    /\ QCap \in Nat \ {0}
    /\ Reap \in BOOLEAN
    /\ PeerFails \in BOOLEAN

VARIABLES
    hubState,    \* hub.state
    ctxDone,     \* hub.cancel was called
    drainDone,   \* hub.drainDone is closed
    run,         \* the Run goroutine: program counter and current client
    clients,     \* h.clients
    count,       \* h.clientCount
    snapshot,    \* h.clientsSnapshot, what Broadcast and the reaper iterate
    register,    \* requests in the register channel
    unregister,  \* clients in the unregister channel
    result,      \* what req.result holds for each request
    up,          \* UpgradeConnection of each client
    conn,        \* the WebSocket connection
    closing,     \* "open", or how client.closed was set and done was closed
    rp, wp,      \* readPump and writePump
    framed,      \* clients whose connection carried a close frame
    notified,    \* clients whose OnClose and AfterDisconnect ran
    dr,          \* Drain calls
    sd,          \* the Shutdown call
    reaper       \* the drain reaper goroutine

hubVars == <<hubState, ctxDone, drainDone>>
runVars == <<run, clients, count, snapshot, notified>>
chanVars == <<register, unregister, result>>
connVars == <<up, conn, closing, rp, wp, framed>>
callVars == <<dr, sd, reaper>>
vars == <<hubVars, runVars, chanVars, connVars, callVars>>

At(pc, c) == [pc |-> pc, client |-> c]

Init ==
    /\ hubState = "running" /\ ctxDone = FALSE /\ drainDone = FALSE
    /\ run = At("new", None)
    /\ clients = {} /\ count = 0 /\ snapshot = {} /\ notified = {}
    /\ register = {} /\ unregister = {}
    /\ result = [c \in Client |-> "none"]
    /\ up = [c \in Client |-> "none"]
    /\ conn = [c \in Client |-> "none"]
    /\ closing = [c \in Client |-> "open"]
    /\ rp = [c \in Client |-> "none"]
    /\ wp = [c \in Client |-> "none"]
    /\ framed = {}
    /\ dr = [d \in Drainer |-> "idle"]
    /\ sd = "idle"
    /\ reaper = "none"

\* hub.alive
Alive == run.pc \notin {"new", "exited"}

\* client.CloseWithCode on every client of S: closed and graceful are set under
\* client.mu, then done is closed.  A client that is closed already is left alone.
CloseAll(S) ==
    closing' = [c \in Client |-> IF c \in S /\ closing[c] = "open"
                                 THEN "graceful" ELSE closing[c]]

-----------------------------------------------------------------------------
(* Run                                                                     *)

RunStart ==
    /\ run.pc = "new"
    /\ run' = At("select", None)
    /\ UNCHANGED <<hubVars, clients, count, snapshot, notified, chanVars,
                   connVars, callVars>>

\* Run takes an event either from its select or while it drains the channels.
CanTake == run.pc \in {"select", "drain"}

AtLimit == MaxConnections > 0 /\ Cardinality(clients) >= MaxConnections

\* handleRegister refuses: MaxConnections, or the per-user limit of
\* addToUserIndex, which another module decides.
RefuseRegister(c) ==
    /\ CanTake
    /\ c \in register
    /\ register' = register \ {c}
    /\ result' = [result EXCEPT ![c] = "err"]
    /\ run' = At("drain", None)
    /\ UNCHANGED <<hubVars, clients, count, snapshot, notified, unregister,
                   connVars, callVars>>

AdmitUnchecked(c) ==
    /\ CanTake
    /\ c \in register
    /\ register' = register \ {c}
    /\ clients' = clients \cup {c}
    /\ run' = At("regCount", c)
    /\ UNCHANGED <<hubVars, count, snapshot, notified, unregister, result,
                   connVars, callVars>>

\* handleRegister: the authoritative limit check, then the map insertion.
AdmitRegister(c) ==
    /\ CanTake
    /\ c \in register
    /\ ~AtLimit
    /\ register' = register \ {c}
    /\ clients' = clients \cup {c}
    /\ run' = At("regCount", c)
    /\ UNCHANGED <<hubVars, count, snapshot, notified, unregister, result,
                   connVars, callVars>>

\* clientCount.Add(1), then the answer to the waiting UpgradeConnection.
RegisterDone ==
    /\ run.pc = "regCount"
    /\ count' = count + 1
    /\ result' = [result EXCEPT ![run.client] = "ok"]
    /\ run' = At("drain", None)
    /\ UNCHANGED <<hubVars, clients, snapshot, notified, register, unregister,
                   connVars, callVars>>

\* handleUnregister up to delete(h.clients, client).
TakeUnregister(c) ==
    /\ CanTake
    /\ c \in unregister
    /\ unregister' = unregister \ {c}
    /\ clients' = clients \ {c}
    /\ run' = IF c \in clients THEN At("unregCount", c) ELSE At("drain", None)
    /\ UNCHANGED <<hubVars, count, snapshot, notified, register, result,
                   connVars, callVars>>

UnregisterUncounted ==
    /\ run.pc = "unregCount"
    /\ run' = [run EXCEPT !.pc = "unregSignal"]
    /\ UNCHANGED <<hubVars, clients, count, snapshot, notified, chanVars,
                   connVars, callVars>>

\* clientCount.Add(-1)
UnregisterCount ==
    /\ run.pc = "unregCount"
    /\ count' = count - 1
    /\ run' = [run EXCEPT !.pc = "unregSignal"]
    /\ UNCHANGED <<hubVars, clients, snapshot, notified, chanVars, connVars,
                   callVars>>

SignalOffByOne ==
    /\ run.pc = "unregSignal"
    /\ drainDone' = (drainDone \/ (hubState = "draining" /\ count = 1))
    /\ run' = [run EXCEPT !.pc = "unregClose"]
    /\ UNCHANGED <<hubState, ctxDone, clients, count, snapshot, notified,
                   chanVars, connVars, callVars>>

\* The last client of a draining hub completes the drain.
UnregisterSignal ==
    /\ run.pc = "unregSignal"
    /\ drainDone' = (drainDone \/ (hubState = "draining" /\ count = 0))
    /\ run' = [run EXCEPT !.pc = "unregClose"]
    /\ UNCHANGED <<hubState, ctxDone, clients, count, snapshot, notified,
                   chanVars, connVars, callVars>>

\* closed is set, done and the connection are closed, OnClose and
\* AfterDisconnect run.
UnregisterClose ==
    /\ run.pc = "unregClose"
    /\ closing' = [closing EXCEPT ![run.client] =
                      IF @ = "open" THEN "abrupt" ELSE @]
    /\ conn' = [conn EXCEPT ![run.client] = "closed"]
    /\ notified' = notified \cup {run.client}
    /\ run' = At("drain", None)
    /\ UNCHANGED <<hubVars, clients, count, snapshot, chanVars, up, rp, wp,
                   framed, callVars>>

RebuildForgotten ==
    /\ run.pc = "drain"
    /\ register = {} /\ unregister = {}
    /\ run' = At("select", None)
    /\ UNCHANGED <<hubVars, clients, count, snapshot, notified, chanVars,
                   connVars, callVars>>

\* drainAndRebuildSnapshot: both channels are empty.
RebuildSnapshot ==
    /\ run.pc = "drain"
    /\ register = {} /\ unregister = {}
    /\ snapshot' = clients
    /\ run' = At("select", None)
    /\ UNCHANGED <<hubVars, clients, count, notified, chanVars, connVars,
                   callVars>>

\* The ctx.Done case: Close every client, then Run returns.
RunExit ==
    /\ run.pc = "select"
    /\ ctxDone
    /\ CloseAll(clients)
    /\ run' = At("exited", None)
    /\ UNCHANGED <<hubVars, clients, count, snapshot, notified, chanVars, up,
                   conn, rp, wp, framed, callVars>>

RunStep ==
    \/ \E c \in Client :
          RefuseRegister(c) \/ AdmitRegister(c) \/ TakeUnregister(c)
    \/ RegisterDone
    \/ UnregisterCount \/ UnregisterSignal \/ UnregisterClose
    \/ RebuildSnapshot \/ RunExit

-----------------------------------------------------------------------------
(* UpgradeConnection                                                       *)

\* The hub is alive and running: the only place where the state is looked at.
UpgradeCheck(c) ==
    /\ up[c] = "none"
    /\ Alive
    /\ hubState = "running"
    /\ up' = [up EXCEPT ![c] = "checked"]
    /\ UNCHANGED <<hubVars, runVars, chanVars, conn, closing, rp, wp, framed,
                   callVars>>

\* BeforeConnect refuses, the fast-path limit is hit, or the handshake fails.
UpgradeReject(c) ==
    /\ up[c] = "checked"
    /\ up' = [up EXCEPT ![c] = "failed"]
    /\ UNCHANGED <<hubVars, runVars, chanVars, conn, closing, rp, wp, framed,
                   callVars>>

\* The fast-path limit passes and the handshake succeeds: newClient.
UpgradeConn(c) ==
    /\ up[c] = "checked"
    /\ ~(MaxConnections > 0 /\ count >= MaxConnections)
    /\ up' = [up EXCEPT ![c] = "upgraded"]
    /\ conn' = [conn EXCEPT ![c] = "open"]
    /\ UNCHANGED <<hubVars, runVars, chanVars, closing, rp, wp, framed,
                   callVars>>

\* The request goes into the register channel, when it has room.
UpgradeSend(c) ==
    /\ up[c] = "upgraded"
    /\ Cardinality(register) < QCap
    /\ register' = register \cup {c}
    /\ up' = [up EXCEPT ![c] = "waiting"]
    /\ UNCHANGED <<hubVars, runVars, unregister, result, conn, closing, rp, wp,
                   framed, callVars>>

AbortKeepsConn(c) ==
    /\ up[c] \in {"upgraded", "waiting"}
    /\ ctxDone
    /\ up' = [up EXCEPT ![c] = "failed"]
    /\ UNCHANGED <<hubVars, runVars, chanVars, conn, closing, rp, wp, framed,
                   callVars>>

AbortFirstOnly(c) ==
    /\ up[c] = "upgraded"
    /\ ctxDone
    /\ up' = [up EXCEPT ![c] = "failed"]
    /\ conn' = [conn EXCEPT ![c] = "closed"]
    /\ framed' = framed \cup {c}
    /\ UNCHANGED <<hubVars, runVars, chanVars, closing, rp, wp, callVars>>

\* Either select of UpgradeConnection takes its ctx.Done case:
\* writeCloseAndClose, also when an answer is ready.
UpgradeAbort(c) ==
    /\ up[c] \in {"upgraded", "waiting"}
    /\ ctxDone
    /\ up' = [up EXCEPT ![c] = "failed"]
    /\ conn' = [conn EXCEPT ![c] = "closed"]
    /\ framed' = framed \cup {c}
    /\ UNCHANGED <<hubVars, runVars, chanVars, closing, rp, wp, callVars>>

RefusedKeepsConn(c) ==
    /\ up[c] = "waiting"
    /\ result[c] = "err"
    /\ up' = [up EXCEPT ![c] = "failed"]
    /\ UNCHANGED <<hubVars, runVars, chanVars, conn, closing, rp, wp, framed,
                   callVars>>

\* The registration was refused: writeCloseAndClose.
UpgradeRefused(c) ==
    /\ up[c] = "waiting"
    /\ result[c] = "err"
    /\ up' = [up EXCEPT ![c] = "failed"]
    /\ conn' = [conn EXCEPT ![c] = "closed"]
    /\ framed' = framed \cup {c}
    /\ UNCHANGED <<hubVars, runVars, chanVars, closing, rp, wp, callVars>>

AcceptUnanswered(c) ==
    /\ up[c] = "waiting"
    /\ result[c] # "err"
    /\ up' = [up EXCEPT ![c] = "accepted"]
    /\ rp' = [rp EXCEPT ![c] = "reading"]
    /\ wp' = [wp EXCEPT ![c] = "running"]
    /\ UNCHANGED <<hubVars, runVars, chanVars, conn, closing, framed, callVars>>

\* The registration succeeded: wg.Add(2) and both pumps start.
UpgradeAccept(c) ==
    /\ up[c] = "waiting"
    /\ result[c] = "ok"
    /\ up' = [up EXCEPT ![c] = "accepted"]
    /\ rp' = [rp EXCEPT ![c] = "reading"]
    /\ wp' = [wp EXCEPT ![c] = "running"]
    /\ UNCHANGED <<hubVars, runVars, chanVars, conn, closing, framed, callVars>>

UpgradeStep(c) ==
    \/ UpgradeReject(c) \/ UpgradeConn(c) \/ UpgradeSend(c)
    \/ UpgradeAbort(c) \/ UpgradeRefused(c) \/ UpgradeAccept(c)

-----------------------------------------------------------------------------
(* The pumps of a connection                                               *)

\* ReadMessage fails: the connection was closed here, or the peer is gone.
ReadEnds(c) ==
    /\ rp[c] = "reading"
    /\ conn[c] = "closed" \/ PeerFails
    /\ rp' = [rp EXCEPT ![c] = "leaving"]
    /\ UNCHANGED <<hubVars, runVars, chanVars, up, conn, closing, wp, framed,
                   callVars>>

UnregisterNonblocking(c) ==
    /\ rp[c] = "leaving"
    /\ unregister' = IF Cardinality(unregister) < QCap
                     THEN unregister \cup {c} ELSE unregister
    /\ rp' = [rp EXCEPT ![c] = "done"]
    /\ conn' = [conn EXCEPT ![c] = "closed"]
    /\ UNCHANGED <<hubVars, runVars, register, result, up, closing, wp, framed,
                   callVars>>

\* readPump's defer hands the client to Run, when the channel has room, and
\* closes the connection.
ReadUnregister(c) ==
    /\ rp[c] = "leaving"
    /\ Cardinality(unregister) < QCap
    /\ unregister' = unregister \cup {c}
    /\ rp' = [rp EXCEPT ![c] = "done"]
    /\ conn' = [conn EXCEPT ![c] = "closed"]
    /\ UNCHANGED <<hubVars, runVars, register, result, up, closing, wp, framed,
                   callVars>>

AbandonNeedsRoom(c) ==
    /\ rp[c] = "leaving"
    /\ ctxDone
    /\ Cardinality(unregister) < QCap
    /\ rp' = [rp EXCEPT ![c] = "done"]
    /\ conn' = [conn EXCEPT ![c] = "closed"]
    /\ UNCHANGED <<hubVars, runVars, chanVars, up, closing, wp, framed,
                   callVars>>

\* The same defer when the hub's context is done: nobody is told.
ReadAbandon(c) ==
    /\ rp[c] = "leaving"
    /\ ctxDone
    /\ rp' = [rp EXCEPT ![c] = "done"]
    /\ conn' = [conn EXCEPT ![c] = "closed"]
    /\ UNCHANGED <<hubVars, runVars, chanVars, up, closing, wp, framed,
                   callVars>>

\* The goroutine readPump starts: it closes the connection on ctx.Done.
WatchContext(c) ==
    /\ rp[c] \in {"reading", "leaving"}
    /\ ctxDone
    /\ conn[c] = "open"
    /\ conn' = [conn EXCEPT ![c] = "closed"]
    /\ UNCHANGED <<hubVars, runVars, chanVars, up, closing, rp, wp, framed,
                   callVars>>

FlushAlwaysAbrupt(c) ==
    /\ wp[c] = "running"
    /\ closing[c] # "open"
    /\ wp' = [wp EXCEPT ![c] = "done"]
    /\ conn' = [conn EXCEPT ![c] = "closed"]
    /\ UNCHANGED <<hubVars, runVars, chanVars, up, closing, rp, framed, callVars>>

\* writePump sees done on a graceful close and starts to flush the queue.
WriteFlush(c) ==
    /\ wp[c] = "running"
    /\ closing[c] = "graceful"
    /\ wp' = [wp EXCEPT ![c] = "flushing"]
    /\ UNCHANGED <<hubVars, runVars, chanVars, up, conn, closing, rp, framed,
                   callVars>>

\* writeCloseFrame, which a closed connection swallows, then the deferred
\* closeConn.
WriteCloseFrame(c) ==
    /\ wp[c] = "flushing"
    /\ framed' = IF conn[c] = "open" THEN framed \cup {c} ELSE framed
    /\ conn' = [conn EXCEPT ![c] = "closed"]
    /\ wp' = [wp EXCEPT ![c] = "done"]
    /\ UNCHANGED <<hubVars, runVars, chanVars, up, closing, rp, callVars>>

\* writePump exits without a close frame: done was closed by handleUnregister,
\* or a message or ping cannot be written.
WriteEnds(c) ==
    /\ wp[c] = "running"
    /\ closing[c] = "abrupt" \/ conn[c] = "closed" \/ PeerFails
    /\ wp' = [wp EXCEPT ![c] = "done"]
    /\ conn' = [conn EXCEPT ![c] = "closed"]
    /\ UNCHANGED <<hubVars, runVars, chanVars, up, closing, rp, framed, callVars>>

\* What the pumps must do, as opposed to what a peer may do to them.
PumpStep(c) ==
    \/ (conn[c] = "closed" /\ ReadEnds(c))
    \/ ReadUnregister(c) \/ ReadAbandon(c) \/ WatchContext(c)

WriteStep(c) ==
    \/ WriteFlush(c) \/ WriteCloseFrame(c)
    \/ ((closing[c] = "abrupt" \/ conn[c] = "closed") /\ WriteEnds(c))

\* The application closes a client it was given by UpgradeConnection, by a lookup
\* of the hub or by AfterConnect.
CloseWithCode(c) ==
    /\ up[c] = "accepted" \/ c \in clients
    /\ closing[c] = "open"
    /\ CloseAll({c})
    /\ UNCHANGED <<hubVars, runVars, chanVars, up, conn, rp, wp, framed,
                   callVars>>

-----------------------------------------------------------------------------
(* Drain                                                                   *)

DrainStores(d) ==
    /\ dr[d] = "idle"
    /\ hubState' = "draining"
    /\ dr' = [dr EXCEPT ![d] = IF hubState = "running" THEN "won" ELSE "lost"]
    /\ UNCHANGED <<ctxDone, drainDone, runVars, chanVars, connVars, sd, reaper>>

\* The compare-and-swap from Running to Draining, won or lost.
Drain(d) ==
    /\ dr[d] = "idle"
    /\ hubState' = IF hubState = "running" THEN "draining" ELSE hubState
    /\ dr' = [dr EXCEPT ![d] = IF hubState = "running" THEN "won" ELSE "lost"]
    /\ UNCHANGED <<ctxDone, drainDone, runVars, chanVars, connVars, sd, reaper>>

\* The loser loads the state: nothing to do on a stopped hub, or join the wait.
DrainLost(d) ==
    /\ dr[d] = "lost"
    /\ dr' = [dr EXCEPT ![d] = IF hubState = "stopped" THEN "nil" ELSE "wait"]
    /\ UNCHANGED <<hubVars, runVars, chanVars, connVars, sd, reaper>>

CheckForgotten(d) ==
    /\ dr[d] = "won"
    /\ dr' = [dr EXCEPT ![d] = "wait"]
    /\ reaper' = IF Reap THEN "running" ELSE reaper
    /\ UNCHANGED <<hubVars, runVars, chanVars, connVars, sd>>

\* The winner loads clientCount: done at once, or start the reaper and wait.
DrainCheck(d) ==
    /\ dr[d] = "won"
    /\ drainDone' = (drainDone \/ count = 0)
    /\ dr' = [dr EXCEPT ![d] = IF count = 0 THEN "nil" ELSE "wait"]
    /\ reaper' = IF count # 0 /\ Reap THEN "running" ELSE reaper
    /\ UNCHANGED <<hubState, ctxDone, runVars, chanVars, connVars, sd>>

\* drainDone is closed: Drain returns nil.
DrainReturn(d) ==
    /\ dr[d] = "wait"
    /\ drainDone
    /\ dr' = [dr EXCEPT ![d] = "nil"]
    /\ UNCHANGED <<hubVars, runVars, chanVars, connVars, sd, reaper>>

\* The caller's context expires first.
DrainExpire(d) ==
    /\ dr[d] = "wait"
    /\ dr' = [dr EXCEPT ![d] = "err"]
    /\ UNCHANGED <<hubVars, runVars, chanVars, connVars, sd, reaper>>

\* The reaper finds a client of the snapshot idle for the drain timeout.
Reaps(c) ==
    /\ reaper = "running"
    /\ c \in snapshot
    /\ closing[c] = "open"
    /\ CloseAll({c})
    /\ UNCHANGED <<hubVars, runVars, chanVars, up, conn, rp, wp, framed,
                   callVars>>

ReaperExit ==
    /\ reaper = "running"
    /\ drainDone \/ ctxDone
    /\ reaper' = "done"
    /\ UNCHANGED <<hubVars, runVars, chanVars, connVars, dr, sd>>

-----------------------------------------------------------------------------
(* Shutdown                                                                *)

\* state.Store(Stopped)
Shutdown ==
    /\ sd = "idle"
    /\ hubState' = "stopped"
    /\ sd' = "stored"
    /\ UNCHANGED <<ctxDone, drainDone, runVars, chanVars, connVars, dr, reaper>>

\* drainOnce.Do(close(drainDone))
ShutdownSignal ==
    /\ sd = "stored"
    /\ drainDone' = TRUE
    /\ sd' = "signalled"
    /\ UNCHANGED <<hubState, ctxDone, runVars, chanVars, connVars, dr, reaper>>

\* cancel(); adapter.Close and pool.shutdown follow, then it waits.
ShutdownCancel ==
    /\ sd = "signalled"
    /\ ctxDone' = TRUE
    /\ sd' = "wait"
    /\ UNCHANGED <<hubState, drainDone, runVars, chanVars, connVars, dr, reaper>>

PumpsDone(c) == rp[c] \in {"none", "done"} /\ wp[c] \in {"none", "done"}

\* hub.wg is zero.  Run is counted from NewHub on, before it starts.
GoroutinesDone ==
    /\ run.pc = "exited"
    /\ reaper # "running"
    /\ \A c \in Client : PumpsDone(c)

\* wg.Wait returned: Shutdown returns nil.
ShutdownReturn ==
    /\ sd = "wait"
    /\ GoroutinesDone
    /\ sd' = "nil"
    /\ UNCHANGED <<hubVars, runVars, chanVars, connVars, dr, reaper>>

\* The caller's context expires first.
ShutdownExpire ==
    /\ sd = "wait"
    /\ sd' = "err"
    /\ UNCHANGED <<hubVars, runVars, chanVars, connVars, dr, reaper>>

ShutdownStep == ShutdownSignal \/ ShutdownCancel \/ ShutdownReturn

-----------------------------------------------------------------------------
ClientStep(c) ==
    \/ UpgradeCheck(c) \/ UpgradeStep(c)
    \/ ReadEnds(c) \/ ReadUnregister(c) \/ ReadAbandon(c) \/ WatchContext(c)
    \/ WriteFlush(c) \/ WriteCloseFrame(c) \/ WriteEnds(c)
    \/ CloseWithCode(c) \/ Reaps(c)

DrainStep(d) ==
    \/ Drain(d) \/ DrainLost(d) \/ DrainCheck(d)
    \/ DrainReturn(d) \/ DrainExpire(d)

Next ==
    \/ RunStart \/ RunStep
    \/ \E c \in Client : ClientStep(c)
    \/ \E d \in Drainer : DrainStep(d)
    \/ ReaperExit
    \/ Shutdown \/ ShutdownStep \/ ShutdownExpire

Spec == Init /\ [][Next]_vars

\* Goroutines that can run do run: the Run loop, calls in progress, pumps with
\* something to do, the reaper's ticker on an idle client.  Nothing is assumed
\* of the peers, of the callers' contexts, or that Run, Drain, Shutdown and
\* UpgradeConnection are ever called.
FairSpec ==
    /\ Spec
    /\ WF_vars(RunStep) /\ WF_vars(ShutdownStep) /\ WF_vars(ReaperExit)
    /\ \A c \in Client :
          /\ WF_vars(UpgradeStep(c)) /\ WF_vars(PumpStep(c))
          /\ WF_vars(WriteStep(c)) /\ WF_vars(Reaps(c))
    /\ \A d \in Drainer :
          WF_vars(DrainLost(d) \/ DrainCheck(d) \/ DrainReturn(d))

-----------------------------------------------------------------------------
(* Properties                                                              *)

RunPCs == {"new", "select", "drain", "regCount", "unregCount", "unregSignal",
           "unregClose", "exited"}

\* The type of every variable; Run has a current client exactly while it
\* handles one.
Types ==
    /\ hubState \in {"running", "draining", "stopped"}
    /\ ctxDone \in BOOLEAN /\ drainDone \in BOOLEAN
    /\ run \in [pc : RunPCs, client : Client \cup {None}]
    /\ run.client # None
          <=> run.pc \in {"regCount", "unregCount", "unregSignal", "unregClose"}
    /\ clients \subseteq Client /\ snapshot \subseteq Client
    /\ notified \subseteq Client /\ framed \subseteq Client
    /\ count \in Int
    /\ register \subseteq Client /\ unregister \subseteq Client
    /\ result \in [Client -> {"none", "ok", "err"}]
    /\ up \in [Client -> {"none", "checked", "upgraded", "waiting", "accepted",
                          "failed"}]
    /\ conn \in [Client -> {"none", "open", "closed"}]
    /\ closing \in [Client -> {"open", "graceful", "abrupt"}]
    /\ rp \in [Client -> {"none", "reading", "leaving", "done"}]
    /\ wp \in [Client -> {"none", "running", "flushing", "done"}]
    /\ dr \in [Drainer -> {"idle", "won", "lost", "wait", "nil", "err"}]
    /\ sd \in {"idle", "stored", "signalled", "wait", "nil", "err"}
    /\ reaper \in {"none", "running", "done"}

\* Every variable has its type, and clientCount never goes below zero: a
\* decrement of handleUnregister always has its increment before it.
TypeOK == Types /\ count >= 0

\* MaxConnections is never exceeded, with any number of upgrades past the
\* fast-path check at once.
ConnectionLimit ==
    MaxConnections > 0 => Cardinality(clients) <= MaxConnections

\* h.clientCount is the size of h.clients, up to the one update Run has still
\* to make for its current client: ClientCount, Drain and the fast-path limit
\* rely on it.
CountTracksClients ==
    count = Cardinality(clients) + (CASE run.pc = "regCount"   -> -1
                                      [] run.pc = "unregCount" -> 1
                                      [] OTHER                 -> 0)

\* No drain completion is lost between Drain's compare-and-swap and Run's
\* decrement: a draining hub that counts no client has closed drainDone, or
\* the goroutine that will close it is about to.
NoLostDrainSignal ==
    (hubState = "draining" /\ count = 0)
        => \/ drainDone
           \/ run.pc = "unregSignal"
           \/ \E d \in Drainer : dr[d] = "won"

Rank == [running |-> 0, draining |-> 1, stopped |-> 2]

\* The hub never goes back: neither a drain that races Shutdown, nor a second
\* drain, makes a stopped hub draining or a draining hub running.
StateNeverRegresses == [][Rank[hubState'] >= Rank[hubState]]_vars

\* A client with a running read pump is in h.clients until its unregistration
\* is in Run's hands: no live connection that the hub cannot find and close.
PumpedIsRegistered ==
    \A c \in Client : rp[c] \in {"reading", "leaving"} => c \in clients

\* An open connection always has a goroutine that is bound to close it.
ConnHasOwner ==
    \A c \in Client : conn[c] = "open" =>
        up[c] \in {"upgraded", "waiting"} \/ ~PumpsDone(c)

\* With peers that stay, a client closed by CloseWithCode or by the reaper gets
\* its close frame before the connection is closed, unless the hub shuts down.
CloseFrameSent ==
    \A c \in Client :
        (wp[c] = "done" /\ closing[c] = "graceful" /\ ~PeerFails /\ ~ctxDone)
            => c \in framed

\* The doc comment of Drain: it "returns nil when all clients have
\* disconnected".  Said of a hub that nobody has shut down.
DrainNilMeansEmpty ==
    \A d \in Drainer : (dr[d] = "nil" /\ hubState = "draining") => clients = {}

\* UpgradeConnection returns, whatever Shutdown does meanwhile: Run answers it,
\* or the end of the hub's context ends each of its two waits.
UpgradeReturns ==
    \A c \in Client :
        up[c] \in {"checked", "upgraded", "waiting"}
            ~> up[c] \in {"accepted", "failed"}

\* Once Shutdown has cancelled the context every connection is closed, the ones
\* whose upgrade is in flight included.
ShutdownClosesAll ==
    \A c \in Client : (ctxDone /\ conn[c] = "open") ~> conn[c] = "closed"

\* Shutdown returns even if its context never expires, once Run was called: a
\* hub nobody runs keeps the count NewHub gave wg, and Shutdown its caller.
ShutdownTerminates ==
    (sd = "wait" /\ run.pc # "new") ~> sd \in {"nil", "err"}

\* With the reaper, and clients that do fall idle, a drain completes without help
\* from the peers: close, flush, read error, unregistration, signal.
DrainTerminates ==
    \A d \in Drainer : dr[d] = "wait" ~> dr[d] \in {"nil", "err"}

\* A registered client that stays open becomes reachable by Broadcast.
EventuallyReachable ==
    \A c \in Client :
        up[c] = "accepted" ~> (c \in snapshot \/ closing[c] # "open" \/ ctxDone
                                 \/ c \notin clients)

\* handleUnregister runs, and with it OnClose and AfterDisconnect, for every
\* client whose connection is closed while the hub is up, also when the
\* unregister channel is full.  A shutdown runs them for nobody.
DisconnectIsNotified ==
    \A c \in Client :
        (up[c] = "accepted" /\ conn[c] = "closed")
            ~> (c \in notified \/ ctxDone)
=============================================================================
