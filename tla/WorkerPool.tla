----------------------------- MODULE WorkerPool -----------------------------
(***************************************************************************)
(* The worker pool for parallel broadcasts (workerpool.go) with its        *)
(* callers: parallelSend for plain broadcasts, sendWithContext for the     *)
(* ones with a context, and Shutdown, which stops the pool while calls are *)
(* under way.                                                              *)
(*                                                                         *)
(* A call sends one item to a snapshot of size[b] clients, numbered in the *)
(* order of the slice.  The pool has been created by Run, as in every hub  *)
(* that has clients and useParallel.  What one send does to the buffer of  *)
(* the client is the subject of SendQueue; here it is an attempt, and      *)
(* Stuck are the clients whose full buffer nobody empties, on which only   *)
(* the sends with a context wait.                                          *)
(***************************************************************************)
EXTENDS Naturals, FiniteSets, Sequences

CONSTANTS
    Call,         \* broadcast calls
    WithContext,  \* those that go through sendWithContext
    Worker,       \* the goroutines of the pool
    Stopper,      \* calls of Shutdown
    PerWorker,    \* capacity of the task channel per worker, 4 in newWorkerPool
    MaxClients,   \* bound on the size of a snapshot
    Sizes,        \* the sizes of snapshots that occur
    BatchSize,    \* hub.parallelBatchSize
    Stuck,
    None

ASSUME PoolAssumption ==
    /\ WithContext \subseteq Call
    /\ PerWorker \in Nat \ {0} /\ MaxClients \in Nat /\ BatchSize \in Nat \ {0}
    /\ Sizes \subseteq 0..MaxClients /\ Stuck \subseteq 1..MaxClients
    /\ IsFiniteSet(Worker) /\ Worker # {}

VARIABLES
    pc,        \* where each call is
    size,      \* len(clients) of its snapshot
    batch,     \* i, the batch it submits next
    next,      \* the client an inline loop sends to next
    pending,   \* the counter of the call's WaitGroup
    err,       \* the call has a context error to return
    ctxDone,   \* the call's context has ended
    tasks,     \* p.tasks: pairs of a call and a batch
    stopped,   \* p.stopped
    closed,    \* p.tasks has been closed
    worker,    \* the task each worker executes, with the next client
    stop,      \* where each Shutdown is
    attempts   \* how often each call has tried to send to each client

callVars == <<pc, size, batch, next, pending>>
poolVars == <<tasks, stopped, closed, stop>>
vars == <<callVars, err, ctxDone, poolVars, worker, attempts>>

Cap == PerWorker * Cardinality(Worker)
NumBatches(n) == (n + BatchSize - 1) \div BatchSize
First(i) == i * BatchSize + 1
LastIn(b, i) == IF First(i) + BatchSize - 1 < size[b]
                THEN First(i) + BatchSize - 1 ELSE size[b]

Idle == "idle"       \* a worker that ranges over the channel
Exited == "exited"

Init ==
    /\ pc = [b \in Call |-> "new"]
    /\ size = [b \in Call |-> 0] /\ batch = [b \in Call |-> 0]
    /\ next = [b \in Call |-> 1] /\ pending = [b \in Call |-> 0]
    /\ err = [b \in Call |-> FALSE] /\ ctxDone = [b \in Call |-> FALSE]
    /\ tasks = <<>> /\ stopped = FALSE /\ closed = FALSE
    /\ worker = [w \in Worker |-> [state |-> Idle, task |-> None, next |-> 0]]
    /\ stop = [s \in Stopper |-> "new"]
    /\ attempts = [b \in Call |-> [c \in 1..MaxClients |-> 0]]

-----------------------------------------------------------------------------
(* Sending to one client                                                   *)

\* trySend never blocks.  trySendWithContext waits for room in the buffer.
CanSend(b, c) == b \notin WithContext \/ c \notin Stuck

\* The case ctx.Done(), which the select may take although there is room.
CanCancel(b) == b \in WithContext /\ ctxDone[b]

Attempt(b, c) == attempts' = [attempts EXCEPT ![b][c] = @ + 1]

-----------------------------------------------------------------------------
(* Calls                                                                   *)

\* A broadcast loads its snapshot.  A small one is sent without the pool.
Begin(b) ==
    /\ pc[b] = "new"
    /\ \E n \in Sizes :
          /\ size' = [size EXCEPT ![b] = n]
          /\ \/ /\ n <= BatchSize
                /\ pc' = [pc EXCEPT ![b] = "inline"]
                /\ UNCHANGED pending
             \/ /\ n > BatchSize
                /\ pc' = [pc EXCEPT ![b] = "check"]
                /\ pending' = [pending EXCEPT ![b] = NumBatches(n)]
    /\ UNCHANGED <<batch, next, err, ctxDone, poolVars, worker, attempts>>

FallbackForgetsDone(b) ==
    /\ pc' = [pc EXCEPT ![b] = "inline"]
    /\ next' = [next EXCEPT ![b] = First(batch[b])]
    /\ pending' = [pending EXCEPT ![b] = @ - 1]
    /\ UNCHANGED <<size, batch, err, ctxDone, poolVars, worker, attempts>>

FallbackResendsAll(b) ==
    /\ pc' = [pc EXCEPT ![b] = "inline"]
    /\ next' = [next EXCEPT ![b] = 1]
    /\ pending' = [pending EXCEPT ![b] = @ - (NumBatches(size[b]) - batch[b])]
    /\ UNCHANGED <<size, batch, err, ctxDone, poolVars, worker, attempts>>

\* The pool is gone: this batch and all that follow are sent inline, and
\* none of them will call Done.
Fallback(b) ==
    /\ pc' = [pc EXCEPT ![b] = "inline"]
    /\ next' = [next EXCEPT ![b] = First(batch[b])]
    /\ pending' = [pending EXCEPT ![b] = @ - (NumBatches(size[b]) - batch[b])]
    /\ UNCHANGED <<size, batch, err, ctxDone, poolVars, worker, attempts>>

\* submit looks at p.stopped.
SubmitCheck(b) ==
    /\ pc[b] = "check" /\ ~stopped
    /\ pc' = [pc EXCEPT ![b] = "send"]
    /\ UNCHANGED <<size, batch, next, pending, err, ctxDone, poolVars, worker,
                   attempts>>

SubmitRefused(b) == pc[b] = "check" /\ stopped /\ Fallback(b)

\* The send on the channel, which waits while the channel is full.
SubmitSend(b) ==
    /\ pc[b] = "send" /\ ~closed
    /\ Len(tasks) < Cap
    /\ tasks' = Append(tasks, <<b, batch[b]>>)
    /\ batch' = [batch EXCEPT ![b] = @ + 1]
    /\ pc' = [pc EXCEPT ![b] = IF batch'[b] = NumBatches(size[b])
                               THEN "wait" ELSE "check"]
    /\ UNCHANGED <<size, next, pending, err, ctxDone, stopped, closed, stop,
                   worker, attempts>>

\* A send on a closed channel panics, also one that has been waiting; the
\* deferred recover turns it into a refusal.
SubmitPanics(b) == pc[b] = "send" /\ closed /\ Fallback(b)

\* The loops over clients in the caller itself.
InlineSend(b) ==
    /\ pc[b] = "inline" /\ next[b] <= size[b]
    /\ CanSend(b, next[b])
    /\ Attempt(b, next[b])
    /\ next' = [next EXCEPT ![b] = @ + 1]
    /\ UNCHANGED <<pc, size, batch, pending, err, ctxDone, poolVars, worker>>

InlineCancelled(b) ==
    /\ pc[b] = "inline" /\ next[b] <= size[b]
    /\ CanCancel(b)
    /\ err' = [err EXCEPT ![b] = TRUE]
    /\ pc' = [pc EXCEPT ![b] = "wait"]
    /\ UNCHANGED <<size, batch, next, pending, ctxDone, poolVars, worker,
                   attempts>>

InlineDone(b) ==
    /\ pc[b] = "inline" /\ next[b] > size[b]
    /\ pc' = [pc EXCEPT ![b] = "wait"]
    /\ UNCHANGED <<size, batch, next, pending, err, ctxDone, poolVars, worker,
                   attempts>>

\* wg.Wait.  The calls that did not use the pool have nothing to wait for.
Return(b) ==
    /\ pc[b] = "wait" /\ pending[b] = 0
    /\ pc' = [pc EXCEPT ![b] = "returned"]
    /\ UNCHANGED <<size, batch, next, pending, err, ctxDone, poolVars, worker,
                   attempts>>

CallStep(b) ==
    \/ SubmitCheck(b) \/ SubmitRefused(b) \/ SubmitSend(b) \/ SubmitPanics(b)
    \/ InlineSend(b) \/ InlineCancelled(b) \/ InlineDone(b) \/ Return(b)

\* The caller of a call with a context cancels it, or its deadline passes.
Cancel(b) ==
    /\ b \in WithContext /\ ~ctxDone[b]
    /\ ctxDone' = [ctxDone EXCEPT ![b] = TRUE]
    /\ UNCHANGED <<callVars, err, poolVars, worker, attempts>>

-----------------------------------------------------------------------------
(* Workers                                                                 *)

WorkerTake(w) ==
    /\ worker[w].state = Idle /\ tasks # <<>>
    /\ LET t == Head(tasks)
       IN worker' = [worker EXCEPT ![w] =
                       [state |-> "busy", task |-> t, next |-> First(t[2])]]
    /\ tasks' = Tail(tasks)
    /\ UNCHANGED <<callVars, err, ctxDone, stopped, closed, stop, attempts>>

WorkerSend(w) ==
    /\ worker[w].state = "busy"
    /\ LET b == worker[w].task[1]
           i == worker[w].task[2]
           c == worker[w].next
       IN /\ c <= LastIn(b, i)
          /\ CanSend(b, c)
          /\ Attempt(b, c)
    /\ worker' = [worker EXCEPT ![w].next = @ + 1]
    /\ UNCHANGED <<callVars, err, ctxDone, poolVars>>

\* Done is called before the sends.
DoneTooEarly(w) ==
    /\ worker[w].state = "busy"
    /\ LET b == worker[w].task[1]
           i == worker[w].task[2]
       IN \/ /\ worker[w].next = First(i)
             /\ pending' = [pending EXCEPT ![b] = @ - 1]
             /\ worker' = [worker EXCEPT ![w].next = @ + 1]
             /\ Attempt(b, First(i))
             /\ UNCHANGED err
          \/ /\ worker[w].next > LastIn(b, i)
             /\ worker' = [worker EXCEPT ![w] =
                             [state |-> Idle, task |-> None, next |-> 0]]
             /\ UNCHANGED <<pending, err, attempts>>
    /\ UNCHANGED <<pc, size, batch, next, ctxDone, poolVars>>

\* execute is over, by itself or because the context has ended; the deferred
\* Done runs in both cases.
WorkerDone(w) ==
    /\ worker[w].state = "busy"
    /\ LET b == worker[w].task[1]
           i == worker[w].task[2]
       IN /\ \/ worker[w].next > LastIn(b, i) /\ UNCHANGED err
             \/ /\ worker[w].next <= LastIn(b, i)
                /\ CanCancel(b)
                /\ err' = [err EXCEPT ![b] = TRUE]
          /\ pending' = [pending EXCEPT ![b] = @ - 1]
    /\ worker' = [worker EXCEPT ![w] = [state |-> Idle, task |-> None, next |-> 0]]
    /\ UNCHANGED <<pc, size, batch, next, ctxDone, poolVars, attempts>>

ExitOnClose(w) ==
    /\ worker[w].state = Idle /\ closed
    /\ worker' = [worker EXCEPT ![w].state = Exited]
    /\ UNCHANGED <<callVars, err, ctxDone, poolVars, attempts>>

\* The range over the channel ends when it is closed and empty.
WorkerExit(w) ==
    /\ worker[w].state = Idle /\ closed /\ tasks = <<>>
    /\ worker' = [worker EXCEPT ![w].state = Exited]
    /\ UNCHANGED <<callVars, err, ctxDone, poolVars, attempts>>

WorkerStep(w) == WorkerTake(w) \/ WorkerSend(w) \/ WorkerDone(w) \/ WorkerExit(w)

-----------------------------------------------------------------------------
(* Shutdown of the pool                                                    *)

StopStore(s) ==
    /\ stop[s] = "new"
    /\ stopped' = TRUE
    /\ stop' = [stop EXCEPT ![s] = "close"]
    /\ UNCHANGED <<callVars, err, ctxDone, tasks, closed, worker, attempts>>

\* The channel is never closed.
StopForgetsClose(s) ==
    /\ stop[s] = "close"
    /\ stop' = [stop EXCEPT ![s] = "wait"]
    /\ UNCHANGED <<callVars, err, ctxDone, tasks, stopped, closed, worker,
                   attempts>>

\* closeOnce.Do: a second Shutdown does not close the channel again.
StopClose(s) ==
    /\ stop[s] = "close"
    /\ closed' = TRUE
    /\ stop' = [stop EXCEPT ![s] = "wait"]
    /\ UNCHANGED <<callVars, err, ctxDone, tasks, stopped, worker, attempts>>

StopReturn(s) ==
    /\ stop[s] = "wait"
    /\ \A w \in Worker : worker[w].state = Exited
    /\ stop' = [stop EXCEPT ![s] = "returned"]
    /\ UNCHANGED <<callVars, err, ctxDone, tasks, stopped, closed, worker,
                   attempts>>

StopStep(s) == StopClose(s) \/ StopReturn(s)

-----------------------------------------------------------------------------
Next ==
    \/ \E b \in Call : Begin(b) \/ CallStep(b) \/ Cancel(b)
    \/ \E w \in Worker : WorkerStep(w)
    \/ \E s \in Stopper : StopStore(s) \/ StopStep(s)

Spec == Init /\ [][Next]_vars

\* Every goroutine goes on; a receiver empties the channel, so a sender that
\* waits for room gets its turn (Go queues blocked senders).  Nothing is assumed
\* of the contexts that callers pass.
Fairness ==
    /\ \A b \in Call : WF_vars(CallStep(b)) /\ SF_vars(SubmitSend(b))
    /\ \A w \in Worker : WF_vars(WorkerStep(w))
    /\ \A s \in Stopper : WF_vars(StopStep(s))

FairSpec == Spec /\ Fairness

-----------------------------------------------------------------------------
(* Properties                                                              *)

Task == Call \X (0..MaxClients)

\* The types.  The channel never holds more than numWorkers*4 tasks, and no
\* WaitGroup counter of parallelSend or sendWithContext becomes negative,
\* which would panic.
TypeOK ==
    /\ pc \in [Call -> {"new", "check", "send", "inline", "wait", "returned"}]
    /\ size \in [Call -> 0..MaxClients] /\ batch \in [Call -> 0..MaxClients]
    /\ next \in [Call -> 1..MaxClients + 1] /\ pending \in [Call -> 0..MaxClients]
    /\ err \in [Call -> BOOLEAN] /\ ctxDone \in [Call -> BOOLEAN]
    /\ tasks \in Seq(Task) /\ Len(tasks) <= Cap
    /\ stopped \in BOOLEAN /\ closed \in BOOLEAN
    /\ worker \in [Worker -> [state : {Idle, "busy", Exited},
                              task : Task \cup {None}, next : Nat]]
    /\ stop \in [Stopper -> {"new", "close", "wait", "returned"}]
    /\ attempts \in [Call -> [1..MaxClients -> Nat]]

\* Whoever sends to a client, a worker or the caller that found the pool
\* stopped half-way (parallelSend, sendWithContext), no client is sent an item
\* twice, and a call that returns without an error has sent it to every
\* client of its snapshot.
EveryClientOnce ==
    \A b \in Call : \A c \in 1..MaxClients :
        /\ attempts[b][c] <= 1
        /\ (pc[b] = "returned" /\ ~err[b] /\ c <= size[b]) => attempts[b][c] = 1

\* When parallelSend or sendWithContext has returned, no worker uses its
\* clients any more and none of its tasks is queued.
NothingOutlivesCall ==
    \A b \in Call : pc[b] = "returned" =>
        /\ \A w \in Worker : worker[w].state = "busy" => worker[w].task[1] # b
        /\ \A i \in DOMAIN tasks : tasks[i][1] # b

\* shutdown returns only after the workers have drained the channel; no task
\* that was accepted is abandoned in it, though submit races with the close.
ShutdownDrains ==
    /\ (\E s \in Stopper : stop[s] = "returned") =>
           tasks = <<>> /\ \A w \in Worker : worker[w].state = Exited
    /\ (\A w \in Worker : worker[w].state = Exited) => tasks = <<>>

\* The contexts given to BroadcastWithContext have all been cancelled or expired.
ContextsOver == \A b \in WithContext : ctxDone[b]

\* A broadcast returns whatever Shutdown does meanwhile, once the contexts are
\* over: no batch is waited for that neither a worker nor the caller sends.
CallReturns ==
    \A b \in Call : (pc[b] # "new" /\ ContextsOver) ~> (pc[b] = "returned")

\* workerPool.shutdown returns once the contexts are over, with callers waiting
\* for room in the channel and workers waiting for slow clients.
ShutdownFollowsCalls ==
    \A s \in Stopper :
        (stop[s] # "new" /\ ContextsOver) ~> (stop[s] = "returned")

\* Shutdown is documented as "context-aware": its wait is bounded by a context of
\* its own, so stopping the pool may not depend on the contexts of broadcasts.
ShutdownReturns ==
    \A s \in Stopper : (stop[s] # "new") ~> (stop[s] = "returned")
=============================================================================
