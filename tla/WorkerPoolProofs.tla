-------------------------- MODULE WorkerPoolProofs --------------------------
(* Proofs about WorkerPool for any calls, workers, stoppers, snapshot sizes, *)
(* batch size and channel capacity.                                          *)
EXTENDS WorkerPool, SequenceLemmas, FiniteSetTheorems, TLAPS

\* Worker w is at work on batch i of call b, and the tasks in the channel.
Busy(w) == worker[w].state = "busy"
Holds(w, b, i) == Busy(w) /\ worker[w].task = <<b, i>>
Submitted == ToSet(tasks)

\* The batches of call b that are queued or with a worker, and those that its
\* loop still has to submit.
Out(b) == {i \in 0..MaxClients :
             <<b, i>> \in Submitted \/ \E w \in Worker : Holds(w, b, i)}
Remaining(b) == IF pc[b] \in {"check", "send"}
                THEN NumBatches(size[b]) - batch[b] ELSE 0

\* No client, or every client, from one place in the snapshot to another was sent
\* to.
Unsent(b, from, to) ==
    \A c \in 1..MaxClients : from <= c /\ c <= to => attempts[b][c] = 0
Sent(b, from, to) ==
    \A c \in 1..MaxClients : from <= c /\ c <= to => attempts[b][c] = 1

\* A task is queued once or with one worker.
OneHolder ==
    /\ IsInjective(tasks)
    /\ \A w \in Worker : Busy(w) =>
          /\ worker[w].task \in Task /\ worker[w].task \notin Submitted
          /\ \A v \in Worker : Busy(v) /\ worker[v].task = worker[w].task => v = w

\* The WaitGroup counts the batches that are out or still to be submitted.
Counted(b) ==
    /\ Out(b) \subseteq 0..(batch[b] - 1)
    /\ pending[b] = Cardinality(Out(b)) + Remaining(b)
    /\ pc[b] = "returned" => Out(b) = {}

\* The loop over the batches, and the one over the clients from the batch on
\* that the pool refused.
InLoop(b) ==
    /\ batch[b] <= NumBatches(size[b])
    /\ pc[b] \in {"check", "send"} => batch[b] < NumBatches(size[b])
    /\ pc[b] = "new" => batch[b] = 0 /\ next[b] = 1
    /\ pc[b] = "inline" => First(batch[b]) <= next[b] /\ next[b] <= size[b] + 1
    /\ pc[b] \in {"new", "check", "send"} => Unsent(b, First(batch[b]), MaxClients)
    /\ pc[b] = "inline" => /\ Sent(b, First(batch[b]), next[b] - 1)
                           /\ Unsent(b, next[b], MaxClients)
    /\ pc[b] \in {"wait", "returned"} /\ ~err[b] => Sent(b, First(batch[b]), size[b])

\* A batch is unsent in the channel, sent up to where its worker is, and sent
\* when it is over unless the context ended.
BatchOK(b, i) ==
    /\ <<b, i>> \in Submitted => Unsent(b, First(i), LastIn(b, i))
    /\ \A w \in Worker : Holds(w, b, i) =>
          /\ First(i) <= worker[w].next /\ worker[w].next <= LastIn(b, i) + 1
          /\ Sent(b, First(i), worker[w].next - 1)
          /\ Unsent(b, worker[w].next, LastIn(b, i))
    /\ i < batch[b] /\ i \notin Out(b) /\ ~err[b] => Sent(b, First(i), LastIn(b, i))

\* Nobody is sent to twice.
OnceAtMost == \A b \in Call, c \in 1..MaxClients : attempts[b][c] \in {0, 1}

\* No worker leaves before the channel is closed and empty.
Draining ==
    /\ \A w \in Worker : worker[w].state = Exited => closed /\ tasks = <<>>
    /\ \A s \in Stopper : stop[s] = "returned" =>
          \A w \in Worker : worker[w].state = Exited

\* The inductive invariant.
IInv ==
    /\ TypeOK /\ OneHolder /\ OnceAtMost /\ Draining
    /\ \A b \in Call : Counted(b) /\ InLoop(b)
    /\ \A b \in Call, i \in 0..MaxClients : BatchOK(b, i)

-----------------------------------------------------------------------------
(* Arithmetic of the batches                                                 *)

\* A batch begins where the one before it ends.
LEMMA FirstFacts ==
    ASSUME NEW i \in Nat
    PROVE  /\ First(i) \in Nat \ {0} /\ First(i + 1) = First(i) + BatchSize
           /\ \A j \in Nat : i < j => First(i) + BatchSize <= First(j)
<1>1. BatchSize \in Nat \ {0}
    BY PoolAssumption
<1>2. i * BatchSize \in Nat /\ (i + 1) * BatchSize = i * BatchSize + BatchSize
    BY <1>1
<1>3. ASSUME NEW j \in Nat, i < j PROVE i * BatchSize + BatchSize <= j * BatchSize
    BY <1>1, <1>3
<1> QED
    BY <1>1, <1>2, <1>3 DEF First

\* The batches cover the snapshot and none of them is empty.
LEMMA NumBatchesFacts ==
    ASSUME NEW n \in 0..MaxClients
    PROVE  /\ NumBatches(n) \in 0..MaxClients /\ n < First(NumBatches(n))
           /\ n > 0 => NumBatches(n) > 0
           /\ \A i \in Nat : i < NumBatches(n) => First(i) <= n
<1>1. BatchSize \in Nat \ {0} /\ MaxClients \in Nat
    BY PoolAssumption
<1> DEFINE q == NumBatches(n)
<1>2. /\ q \in Nat /\ q * BatchSize <= n + BatchSize - 1
      /\ n + BatchSize - 1 <= q * BatchSize + BatchSize - 1
    <2> DEFINE k == n + BatchSize - 1
    <2>1. k \in Nat
        BY <1>1
    <2> HIDE DEF k
    <2>2. /\ k \div BatchSize \in Nat /\ k % BatchSize \in 0..(BatchSize - 1)
          /\ k = BatchSize * (k \div BatchSize) + (k % BatchSize)
        BY <1>1, <2>1
    <2>3. q = k \div BatchSize
        BY DEF NumBatches, k
    <2>4. q \in Nat /\ q * BatchSize <= k /\ k <= q * BatchSize + BatchSize - 1
        BY <1>1, <2>1, <2>2, <2>3
    <2> QED
        BY <2>4 DEF k
<1> HIDE DEF q
<1>3. n <= q * BatchSize /\ q * BatchSize \in Nat
    BY <1>1, <1>2
<1>4. ASSUME NEW i \in Nat, i < q PROVE i * BatchSize + 1 <= n
    <2>1. i * BatchSize + BatchSize <= q * BatchSize /\ i * BatchSize \in Nat
        BY <1>1, <1>2, <1>4
    <2> QED
        BY <1>1, <1>2, <2>1
<1>5. q <= n
    <2> SUFFICES ASSUME n < q PROVE FALSE
        BY <1>2
    <2>1. n * BatchSize + 1 <= n
        BY <1>4
    <2>2. n <= n * BatchSize /\ n * BatchSize \in Nat
        BY <1>1
    <2> QED
        BY <2>1, <2>2
<1>6. n > 0 => q > 0
    BY <1>1, <1>2, <1>3
<1>7. q \in 0..MaxClients
    BY <1>1, <1>2, <1>5
<1>8. n < First(q) /\ \A i \in Nat : i < q => First(i) <= n
    <2>1. \A i : First(i) = i * BatchSize + 1
        BY DEF First
    <2>2. n < First(q)
        BY <1>3, <2>1
    <2> QED
        BY <1>4, <2>1, <2>2
<1> QED
    BY <1>6, <1>7, <1>8 DEF q

\* Every client before the first one of batch k is in an earlier batch.
LEMMA ClientBatch ==
    ASSUME NEW c \in Nat \ {0}, NEW k \in Nat, c < First(k)
    PROVE  \E i \in Nat : i < k /\ First(i) <= c /\ c <= First(i) + BatchSize - 1
<1>1. BatchSize \in Nat \ {0}
    BY PoolAssumption
<1> DEFINE i == (c - 1) \div BatchSize
<1>2. /\ i \in Nat /\ (c - 1) % BatchSize \in 0..(BatchSize - 1)
      /\ c - 1 = BatchSize * i + ((c - 1) % BatchSize)
    <2>1. c - 1 \in Nat
        OBVIOUS
    <2> QED
        BY <1>1, <2>1
<1> HIDE DEF i
<1>3. /\ i \in Nat /\ i * BatchSize + 1 <= c /\ c <= i * BatchSize + BatchSize
    BY <1>1, <1>2
<1>4. i < k
    <2> SUFFICES ASSUME k <= i PROVE FALSE
        BY <1>3
    <2>1. k * BatchSize <= i * BatchSize /\ k * BatchSize \in Nat /\ i * BatchSize \in Nat
        BY <1>1, <1>3
    <2> QED
        BY <1>3, <2>1 DEF First
<1> QED
    BY <1>1, <1>3, <1>4 DEF First

-----------------------------------------------------------------------------
(* Facts about the state                                                     *)

\* The types that the steps below need, written out.
LEMMA Types ==
    ASSUME IInv
    PROVE  /\ \A b \in Call : /\ size[b] \in 0..MaxClients /\ batch[b] \in 0..MaxClients
                              /\ next[b] \in 1..MaxClients + 1
                              /\ pending[b] \in 0..MaxClients
           /\ tasks \in Seq(Task) /\ MaxClients \in Nat
           /\ \A b \in Call : Out(b) \subseteq 0..MaxClients /\ IsFiniteSet(Out(b))
           /\ \A b \in Call : Cardinality(Out(b)) \in Nat
<1>1. MaxClients \in Nat
    BY PoolAssumption
<1>2. /\ \A b \in Call : /\ size[b] \in 0..MaxClients /\ batch[b] \in 0..MaxClients
                         /\ next[b] \in 1..MaxClients + 1
                         /\ pending[b] \in 0..MaxClients
      /\ tasks \in Seq(Task)
    BY DEF IInv, TypeOK
<1>3. IsFiniteSet(0..MaxClients)
    BY <1>1, FS_Interval
<1>4. \A b : Out(b) \subseteq 0..MaxClients
    BY DEF Out
<1>5. \A b : IsFiniteSet(Out(b))
    BY <1>3, <1>4, FS_Subset
<1>6. \A b : Cardinality(Out(b)) \in Nat
    BY <1>5, FS_CardinalityType
<1> QED
    BY <1>1, <1>2, <1>4, <1>5, <1>6

\* Where the clients of a batch are.
LEMMA LastInFacts ==
    ASSUME IInv, NEW b \in Call, NEW i \in 0..MaxClients
    PROVE  /\ LastIn(b, i) \in Nat /\ LastIn(b, i) <= size[b]
           /\ First(i) \in Nat \ {0}
           /\ \A j \in Nat : i < j => LastIn(b, i) < First(j)
           /\ \A c \in Nat : First(i) <= c /\ c <= First(i) + BatchSize - 1 /\ c <= size[b]
                               => c <= LastIn(b, i)
           /\ i < NumBatches(size[b]) => First(i) <= LastIn(b, i)
<1>1. BatchSize \in Nat \ {0} /\ size[b] \in 0..MaxClients /\ MaxClients \in Nat
    BY PoolAssumption, Types
<1>2. /\ First(i) \in Nat \ {0}
      /\ \A j \in Nat : i < j => First(i) + BatchSize <= First(j) /\ First(j) \in Nat
    <2>1. i \in Nat
        BY <1>1
    <2>2. /\ First(i) \in Nat \ {0}
          /\ \A j \in Nat : i < j => First(i) + BatchSize <= First(j)
        BY <2>1, FirstFacts
    <2>3. \A j \in Nat : First(j) \in Nat
        BY FirstFacts
    <2> QED
        BY <2>2, <2>3
<1>3. i < NumBatches(size[b]) => First(i) <= size[b]
    BY <1>1, NumBatchesFacts
<1>4. /\ LastIn(b, i) \in Nat /\ LastIn(b, i) <= size[b]
      /\ LastIn(b, i) <= First(i) + BatchSize - 1
      /\ \/ LastIn(b, i) = First(i) + BatchSize - 1
         \/ LastIn(b, i) = size[b]
    BY <1>1, <1>2 DEF LastIn
<1>5. \A j \in Nat : i < j => LastIn(b, i) < First(j)
    BY <1>1, <1>2, <1>4
<1> QED
    BY <1>1, <1>2, <1>3, <1>4, <1>5

\* Two batches of a call have no client in common.
LEMMA BatchesDisjoint ==
    ASSUME IInv, NEW b \in Call, NEW i \in 0..MaxClients, NEW j \in 0..MaxClients, i # j,
           NEW c \in Nat, First(i) <= c, c <= LastIn(b, i), First(j) <= c, c <= LastIn(b, j)
    PROVE  FALSE
<1>1. MaxClients \in Nat
    BY PoolAssumption
<1>2. /\ First(i) \in Nat /\ First(j) \in Nat
      /\ LastIn(b, i) \in Nat /\ LastIn(b, j) \in Nat
      /\ i < j => LastIn(b, i) < First(j)
      /\ j < i => LastIn(b, j) < First(i)
    BY <1>1, LastInFacts
<1> QED
    BY <1>1, <1>2

-----------------------------------------------------------------------------
(* Steps of a call                                                           *)

\* A step that leaves the channel and the workers alone leaves the batches alone
\* that are out.
LEMMA PoolSame ==
    ASSUME UNCHANGED <<tasks, worker>>
    PROVE  /\ Submitted' = Submitted
           /\ \A w, b, i : Holds(w, b, i)' <=> Holds(w, b, i)
           /\ \A b : Out(b)' = Out(b)
           /\ OneHolder' <=> OneHolder
<1>1. Submitted' = Submitted /\ \A w : Busy(w)' <=> Busy(w)
    BY DEF Submitted, Busy
<1>2. \A w, b, i : Holds(w, b, i)' <=> Holds(w, b, i)
    BY DEF Holds, Busy
<1>3. \A b : Out(b)' = Out(b)
    BY <1>1, <1>2 DEF Out
<1>4. OneHolder' <=> OneHolder
    BY <1>1 DEF OneHolder
<1> QED
    BY <1>1, <1>2, <1>3, <1>4

\* A step of call b that sends nothing and submits nothing.
LEMMA CallMoves ==
    ASSUME IInv, NEW b \in Call, TypeOK',
           UNCHANGED <<size, batch, tasks, closed, worker, stop, attempts>>,
           \A d \in Call : d # b => /\ pc'[d] = pc[d] /\ next'[d] = next[d]
                                    /\ pending'[d] = pending[d] /\ err'[d] = err[d],
           err[b] => err'[b], Counted(b)', InLoop(b)'
    PROVE  IInv'
<1>1. /\ Submitted' = Submitted /\ OneHolder'
      /\ \A w, d, i : Holds(w, d, i)' <=> Holds(w, d, i)
      /\ \A d : Out(d)' = Out(d)
    BY PoolSame DEF IInv
<1>2. OnceAtMost' /\ Draining'
    BY DEF IInv, OnceAtMost, Draining
<1>3. ASSUME NEW d \in Call PROVE Counted(d)' /\ InLoop(d)'
    <2>1. CASE d = b
        BY <2>1
    <2>2. CASE d # b
        <3>1. Counted(d)'
            BY <1>1, <2>2 DEF IInv, Counted, Remaining
        <3>2. InLoop(d)'
            BY <2>2 DEF IInv, InLoop, Sent, Unsent
        <3> QED
            BY <3>1, <3>2
    <2> QED
        BY <2>1, <2>2
<1>4. ASSUME NEW d \in Call, NEW i \in 0..MaxClients PROVE BatchOK(d, i)'
    <2>1. err[d] => err'[d]
        OBVIOUS
    <2>2. LastIn(d, i)' = LastIn(d, i)
        BY DEF LastIn
    <2>3. BatchOK(d, i)
        BY DEF IInv
    <2> QED
        BY <1>1, <2>1, <2>2, <2>3 DEF BatchOK, Sent, Unsent
<1> QED
    BY <1>1, <1>2, <1>3, <1>4 DEF IInv

\* submit looks at p.stopped.
LEMMA SubmitCheckKeeps == ASSUME IInv, NEW b \in Call, SubmitCheck(b) PROVE IInv'
<1> USE DEF callVars, poolVars
<1>1. /\ pc[b] = "check" /\ pc' = [pc EXCEPT ![b] = "send"]
      /\ UNCHANGED <<size, batch, next, pending, err, ctxDone, poolVars, worker, attempts>>
    BY DEF SubmitCheck
<1>2. TypeOK'
    BY <1>1 DEF IInv, TypeOK
<1>3. pc'[b] = "send" /\ \A d \in Call : d # b => pc'[d] = pc[d]
    BY <1>1 DEF IInv, TypeOK
<1>4. Counted(b) /\ InLoop(b) /\ Out(b)' = Out(b)
    BY <1>1, PoolSame DEF IInv
<1>5. Counted(b)'
    BY <1>1, <1>3, <1>4 DEF Counted, Remaining
<1>6. InLoop(b)'
    BY <1>1, <1>3, <1>4 DEF InLoop, Unsent
<1> QED
    BY <1>1, <1>2, <1>3, <1>5, <1>6, CallMoves

\* The pool has stopped: the call takes back what it has not submitted and
\* sends itself.
LEMMA FallbackKeeps ==
    ASSUME IInv, NEW b \in Call, pc[b] \in {"check", "send"}, Fallback(b)
    PROVE  IInv'
<1> USE DEF callVars, poolVars
<1>1. /\ pc' = [pc EXCEPT ![b] = "inline"]
      /\ next' = [next EXCEPT ![b] = First(batch[b])]
      /\ pending' = [pending EXCEPT ![b] = @ - (NumBatches(size[b]) - batch[b])]
      /\ UNCHANGED <<size, batch, err, ctxDone, poolVars, worker, attempts>>
    BY DEF Fallback
<1>2. /\ Counted(b) /\ InLoop(b) /\ Out(b)' = Out(b)
      /\ \A c, f, t : Unsent(c, f, t)' <=> Unsent(c, f, t)
    BY <1>1, PoolSame DEF IInv, Unsent
<1>3. /\ size[b] \in 0..MaxClients /\ batch[b] \in 0..MaxClients /\ MaxClients \in Nat
      /\ pending[b] \in 0..MaxClients /\ Cardinality(Out(b)) \in Nat
    BY Types
<1>4. /\ First(batch[b]) \in Nat \ {0} /\ First(batch[b]) <= size[b]
      /\ batch[b] < NumBatches(size[b]) /\ NumBatches(size[b]) \in Nat
    <2>1. batch[b] < NumBatches(size[b]) /\ batch[b] \in Nat
        BY <1>2, <1>3 DEF InLoop
    <2>2. First(batch[b]) \in Nat \ {0}
        BY <2>1, FirstFacts
    <2>3. First(batch[b]) <= size[b] /\ NumBatches(size[b]) \in 0..MaxClients
        BY <1>3, <2>1, NumBatchesFacts
    <2> QED
        BY <1>3, <2>1, <2>2, <2>3
<1>5. /\ pending[b] = Cardinality(Out(b)) + (NumBatches(size[b]) - batch[b])
    BY <1>2 DEF Counted, Remaining
<1>6. /\ pc'[b] = "inline" /\ next'[b] = First(batch[b])
      /\ pending'[b] = Cardinality(Out(b))
      /\ \A d \in Call : d # b => /\ pc'[d] = pc[d] /\ next'[d] = next[d]
                                  /\ pending'[d] = pending[d]
    <2>1. /\ pc'[b] = "inline" /\ next'[b] = First(batch[b])
          /\ pending'[b] = pending[b] - (NumBatches(size[b]) - batch[b])
          /\ \A d \in Call : d # b => /\ pc'[d] = pc[d] /\ next'[d] = next[d]
                                      /\ pending'[d] = pending[d]
        BY <1>1 DEF IInv, TypeOK
    <2> QED
        BY <1>3, <1>4, <1>5, <2>1
<1>7. TypeOK'
    <2>1. First(batch[b]) \in 1..MaxClients + 1
        BY <1>3, <1>4
    <2>2. pending[b] - (NumBatches(size[b]) - batch[b]) \in 0..MaxClients
        BY <1>3, <1>4, <1>5
    <2> QED
        BY <1>1, <2>1, <2>2 DEF IInv, TypeOK
<1>8. Counted(b)'
    BY <1>1, <1>2, <1>3, <1>6 DEF Counted, Remaining
<1>9. InLoop(b)'
    <2>1. Sent(b, First(batch[b]), First(batch[b]) - 1)'
        BY <1>1, <1>3, <1>4 DEF Sent
    <2>2. Unsent(b, First(batch[b]), MaxClients)
        BY <1>2 DEF InLoop
    <2> QED
        BY <1>1, <1>2, <1>3, <1>4, <1>6, <2>1, <2>2 DEF InLoop, Sent, Unsent
<1> QED
    BY <1>1, <1>6, <1>7, <1>8, <1>9, CallMoves

\* The context ends the loop of the call.
LEMMA InlineCancelledKeeps == ASSUME IInv, NEW b \in Call, InlineCancelled(b) PROVE IInv'
<1> USE DEF callVars, poolVars
<1>1. /\ pc[b] = "inline" /\ pc' = [pc EXCEPT ![b] = "wait"] /\ err' = [err EXCEPT ![b] = TRUE]
      /\ UNCHANGED <<size, batch, next, pending, ctxDone, poolVars, worker, attempts>>
    BY DEF InlineCancelled
<1>2. TypeOK'
    BY <1>1 DEF IInv, TypeOK
<1>3. /\ pc'[b] = "wait" /\ err'[b] = TRUE
      /\ \A d \in Call : d # b => pc'[d] = pc[d] /\ err'[d] = err[d]
    BY <1>1 DEF IInv, TypeOK
<1>4. Counted(b) /\ InLoop(b) /\ Out(b)' = Out(b)
    BY <1>1, PoolSame DEF IInv
<1>5. Counted(b)'
    BY <1>1, <1>3, <1>4 DEF Counted, Remaining
<1>6. InLoop(b)'
    BY <1>1, <1>3, <1>4 DEF InLoop
<1> QED
    BY <1>1, <1>2, <1>3, <1>5, <1>6, CallMoves

\* The loop of the call has reached the end of the snapshot.
LEMMA InlineDoneKeeps == ASSUME IInv, NEW b \in Call, InlineDone(b) PROVE IInv'
<1> USE DEF callVars, poolVars
<1>1. /\ pc[b] = "inline" /\ next[b] > size[b] /\ pc' = [pc EXCEPT ![b] = "wait"]
      /\ UNCHANGED <<size, batch, next, pending, err, ctxDone, poolVars, worker, attempts>>
    BY DEF InlineDone
<1>2. TypeOK'
    BY <1>1 DEF IInv, TypeOK
<1>3. pc'[b] = "wait" /\ \A d \in Call : d # b => pc'[d] = pc[d]
    BY <1>1 DEF IInv, TypeOK
<1>4. Counted(b) /\ InLoop(b) /\ Out(b)' = Out(b)
    BY <1>1, PoolSame DEF IInv
<1>5. Counted(b)'
    BY <1>1, <1>3, <1>4 DEF Counted, Remaining
<1>6. InLoop(b)'
    <2>1. /\ Sent(b, First(batch[b]), next[b] - 1)
          /\ size[b] \in Nat /\ next[b] \in Nat
        BY <1>1, <1>4, Types DEF InLoop
    <2>2. Sent(b, First(batch[b]), size[b])
        BY <1>1, <2>1, Types DEF Sent
    <2> QED
        BY <1>1, <1>3, <1>4, <2>2 DEF InLoop, Sent
<1> QED
    BY <1>1, <1>2, <1>3, <1>5, <1>6, CallMoves

\* The WaitGroup is zero and the call returns.
LEMMA ReturnKeeps == ASSUME IInv, NEW b \in Call, Return(b) PROVE IInv'
<1> USE DEF callVars, poolVars
<1>1. /\ pc[b] = "wait" /\ pending[b] = 0 /\ pc' = [pc EXCEPT ![b] = "returned"]
      /\ UNCHANGED <<size, batch, next, pending, err, ctxDone, poolVars, worker, attempts>>
    BY DEF Return
<1>2. TypeOK'
    BY <1>1 DEF IInv, TypeOK
<1>3. pc'[b] = "returned" /\ \A d \in Call : d # b => pc'[d] = pc[d]
    BY <1>1 DEF IInv, TypeOK
<1>4. Counted(b) /\ InLoop(b) /\ Out(b)' = Out(b)
    BY <1>1, PoolSame DEF IInv
<1>5. Out(b) = {}
    <2>1. Cardinality(Out(b)) = 0 /\ IsFiniteSet(Out(b))
        BY <1>1, <1>4, Types DEF Counted, Remaining
    <2> QED
        BY <2>1, FS_EmptySet
<1>6. Counted(b)'
    BY <1>1, <1>3, <1>4, <1>5 DEF Counted, Remaining
<1>7. InLoop(b)'
    BY <1>1, <1>3, <1>4 DEF InLoop, Sent
<1> QED
    BY <1>1, <1>2, <1>3, <1>6, <1>7, CallMoves

\* The context of a call ends.
LEMMA CancelKeeps == ASSUME IInv, NEW b \in Call, Cancel(b) PROVE IInv'
<1> USE DEF callVars, poolVars
<1>1. UNCHANGED <<callVars, err, poolVars, worker, attempts>>
    BY DEF Cancel
<1>2. TypeOK'
    BY <1>1 DEF Cancel, IInv, TypeOK
<1>3. Counted(b) /\ InLoop(b) /\ Out(b)' = Out(b)
    BY <1>1, PoolSame DEF IInv
<1>4. Counted(b)' /\ InLoop(b)'
    BY <1>1, <1>3 DEF Counted, Remaining, InLoop, Sent, Unsent
<1> QED
    BY <1>1, <1>2, <1>4, CallMoves

\* A client has been tried: what is known of every other one stays.
LEMMA AttemptFacts ==
    ASSUME IInv, NEW b \in Call, NEW c \in 1..MaxClients, attempts[b][c] = 0, Attempt(b, c)
    PROVE  /\ attempts' \in [Call -> [1..MaxClients -> Nat]] /\ OnceAtMost'
           /\ attempts'[b][c] = 1
           /\ \A d \in Call, x \in 1..MaxClients :
                 d # b \/ x # c => attempts'[d][x] = attempts[d][x]
<1>1. attempts \in [Call -> [1..MaxClients -> Nat]] /\ OnceAtMost
    BY DEF IInv, TypeOK
<1>2. attempts' = [attempts EXCEPT ![b][c] = 1]
    BY <1>1 DEF Attempt
<1>3. /\ attempts' \in [Call -> [1..MaxClients -> Nat]]
      /\ attempts'[b][c] = 1
      /\ \A d \in Call, x \in 1..MaxClients :
            d # b \/ x # c => attempts'[d][x] = attempts[d][x]
    BY <1>1, <1>2
<1>4. OnceAtMost'
    BY <1>1, <1>3 DEF OnceAtMost
<1> QED
    BY <1>3, <1>4

\* A batch that is out has been submitted, so all its clients are before those
\* the loops of the call have still to do.
LEMMA OutFacts ==
    ASSUME IInv, NEW b \in Call, NEW i \in 0..MaxClients,
           <<b, i>> \in Submitted \/ \E w \in Worker : Holds(w, b, i)
    PROVE  /\ i \in Out(b) /\ i < batch[b] /\ LastIn(b, i) < First(batch[b])
           /\ First(i) <= LastIn(b, i) /\ pc[b] \notin {"new", "returned"}
<1>1. i \in Out(b) /\ Counted(b) /\ InLoop(b)
    BY DEF Out, IInv
<1>2. batch[b] \in Nat /\ MaxClients \in Nat /\ size[b] \in 0..MaxClients
    BY Types
<1>3. NumBatches(size[b]) \in Nat
    BY <1>2, NumBatchesFacts
<1>4. i < batch[b] /\ i < NumBatches(size[b]) /\ pc[b] \notin {"new", "returned"}
    BY <1>1, <1>2, <1>3 DEF Counted, InLoop
<1> QED
    BY <1>1, <1>2, <1>4, LastInFacts

\* The call sends to the next client itself.
LEMMA InlineSendKeeps == ASSUME IInv, NEW b \in Call, InlineSend(b) PROVE IInv'
<1> USE DEF callVars, poolVars
<1>1. /\ pc[b] = "inline" /\ next[b] <= size[b] /\ Attempt(b, next[b])
      /\ next' = [next EXCEPT ![b] = @ + 1]
      /\ UNCHANGED <<pc, size, batch, pending, err, ctxDone, poolVars, worker>>
    BY DEF InlineSend
<1>2. /\ size[b] \in 0..MaxClients /\ next[b] \in 1..MaxClients + 1 /\ MaxClients \in Nat
      /\ batch[b] \in Nat
    BY Types
<1>3. next[b] \in 1..MaxClients
    BY <1>1, <1>2
<1>4. InLoop(b) /\ First(batch[b]) \in Nat
    BY <1>2, FirstFacts DEF IInv
<1>5. attempts[b][next[b]] = 0
    BY <1>1, <1>2, <1>3, <1>4 DEF InLoop, Unsent
<1>6. /\ attempts' \in [Call -> [1..MaxClients -> Nat]] /\ OnceAtMost'
      /\ attempts'[b][next[b]] = 1
      /\ \A d \in Call, x \in 1..MaxClients :
            d # b \/ x # next[b] => attempts'[d][x] = attempts[d][x]
    BY <1>1, <1>3, <1>5, AttemptFacts
<1>7. next'[b] = next[b] + 1 /\ \A d \in Call : d # b => next'[d] = next[d]
    BY <1>1 DEF IInv, TypeOK
<1>8. TypeOK'
    <2>1. next' \in [Call -> 1..MaxClients + 1]
        BY <1>1, <1>2, <1>3 DEF IInv, TypeOK
    <2> QED
        BY <1>1, <1>6, <2>1 DEF IInv, TypeOK
<1>9. /\ Submitted' = Submitted /\ OneHolder'
      /\ \A w, d, i : Holds(w, d, i)' <=> Holds(w, d, i)
      /\ \A d : Out(d)' = Out(d)
    BY <1>1, PoolSame DEF IInv
<1>10. Draining'
    BY <1>1 DEF IInv, Draining
<1>11. ASSUME NEW d \in Call PROVE Counted(d)'
    BY <1>1, <1>9 DEF IInv, Counted, Remaining
<1>12. ASSUME NEW d \in Call PROVE InLoop(d)'
    <2>1. InLoop(d)
        BY DEF IInv
    <2>2. CASE d # b
        BY <1>1, <1>6, <1>7, <2>1, <2>2 DEF InLoop, Sent, Unsent
    <2>3. CASE d = b
        <3>1. First(batch[b]) <= next'[b] /\ next'[b] <= size[b] + 1
            BY <1>1, <1>2, <1>4, <1>7 DEF InLoop
        <3>2. Sent(b, First(batch[b]), next[b] - 1) /\ Unsent(b, next[b], MaxClients)
            BY <1>1, <1>4 DEF InLoop
        <3>3. ASSUME NEW c \in 1..MaxClients, c # next[b]
              PROVE  /\ attempts'[b][c] = attempts[b][c]
                     /\ c <= next[b] => c <= next[b] - 1
            BY <1>2, <1>6, <3>3
        <3>4. ASSUME NEW c \in 1..MaxClients, First(batch[b]) <= c, c <= next[b]
              PROVE  attempts'[b][c] = 1
            <4>1. CASE c = next[b]
                BY <1>6, <4>1
            <4>2. CASE c # next[b]
                BY <3>2, <3>3, <3>4, <4>2 DEF Sent
            <4> QED
                BY <4>1, <4>2
        <3>5. ASSUME NEW c \in 1..MaxClients, next[b] + 1 <= c
              PROVE  attempts'[b][c] = 0
            <4>1. c # next[b] /\ next[b] <= c /\ c <= MaxClients
                BY <1>2, <3>5
            <4> QED
                BY <3>2, <3>3, <4>1 DEF Unsent
        <3>6. next'[b] - 1 = next[b]
            BY <1>2, <1>7
        <3> QED
            BY <1>1, <1>7, <2>1, <2>3, <3>1, <3>4, <3>5, <3>6 DEF InLoop, Sent, Unsent
    <2> QED
        BY <2>2, <2>3
<1>13. ASSUME NEW d \in Call, NEW i \in 0..MaxClients PROVE BatchOK(d, i)'
    <2>1. BatchOK(d, i) /\ LastIn(d, i)' = LastIn(d, i)
        BY <1>1 DEF IInv, LastIn
    <2>2. CASE d # b
        BY <1>1, <1>6, <1>9, <2>1, <2>2 DEF BatchOK, Sent, Unsent
    <2>3. CASE d = b
        <3>1. i < batch[b] => LastIn(b, i) < next[b]
            BY <1>1, <1>2, <1>4, LastInFacts DEF InLoop
        <3>2. <<b, i>> \in Submitted \/ (\E w \in Worker : Holds(w, b, i)) => i < batch[b]
            BY OutFacts
        <3>3. /\ LastIn(b, i) \in Nat
              /\ \A w \in Worker : Holds(w, b, i) => worker[w].next \in Nat
            BY LastInFacts DEF IInv, TypeOK, Holds
        <3>4. ASSUME i < batch[b], NEW x \in 1..MaxClients, x <= LastIn(b, i)
              PROVE  attempts'[b][x] = attempts[b][x]
            <4>1. x # next[b]
                BY <1>2, <3>1, <3>3, <3>4
            <4> QED
                BY <1>6, <4>1
        <3>5. CASE i < batch[b]
            BY <1>1, <1>9, <2>1, <2>3, <3>3, <3>4, <3>5 DEF BatchOK, Sent, Unsent
        <3>6. CASE ~(i < batch[b])
            BY <1>1, <1>9, <2>1, <2>3, <3>2, <3>6 DEF BatchOK
        <3> QED
            BY <3>5, <3>6
    <2> QED
        BY <2>2, <2>3
<1> QED
    BY <1>6, <1>8, <1>9, <1>10, <1>11, <1>12, <1>13 DEF IInv

\* A call takes its snapshot and adds its batches to the WaitGroup.
LEMMA BeginKeeps == ASSUME IInv, NEW b \in Call, Begin(b) PROVE IInv'
<1> USE DEF callVars, poolVars
<1>1. PICK n \in Sizes :
        /\ size' = [size EXCEPT ![b] = n]
        /\ \/ n <= BatchSize /\ pc' = [pc EXCEPT ![b] = "inline"] /\ pending' = pending
           \/ /\ n > BatchSize /\ pc' = [pc EXCEPT ![b] = "check"]
              /\ pending' = [pending EXCEPT ![b] = NumBatches(n)]
    BY DEF Begin
<1>2. /\ pc[b] = "new"
      /\ UNCHANGED <<batch, next, err, ctxDone, poolVars, worker, attempts>>
    BY DEF Begin
<1>3. n \in 0..MaxClients /\ MaxClients \in Nat /\ BatchSize \in Nat \ {0}
    BY PoolAssumption
<1>4. /\ NumBatches(n) \in 0..MaxClients
      /\ n > 0 => NumBatches(n) > 0
    BY <1>3, NumBatchesFacts
<1>5. /\ Submitted' = Submitted /\ OneHolder'
      /\ \A w, d, i : Holds(w, d, i)' <=> Holds(w, d, i)
      /\ \A d : Out(d)' = Out(d)
    BY <1>2, PoolSame DEF IInv
<1>6. /\ batch[b] = 0 /\ next[b] = 1 /\ First(0) = 1 /\ Unsent(b, 1, MaxClients)
      /\ pending[b] = Cardinality(Out(b)) + 0 /\ Out(b) \subseteq 0..(0 - 1)
    <2>1. First(0) = 1
        BY <1>3 DEF First
    <2> QED
        BY <1>2, <2>1 DEF IInv, Counted, InLoop, Remaining
<1>7. Out(b) = {} /\ Cardinality(Out(b)) = 0
    BY <1>6, FS_EmptySet
<1>8. /\ size'[b] = n
      /\ \A d \in Call : d # b => /\ size'[d] = size[d] /\ pc'[d] = pc[d]
                                  /\ pending'[d] = pending[d]
      /\ \/ pc'[b] = "inline" /\ pending'[b] = 0
         \/ pc'[b] = "check" /\ pending'[b] = NumBatches(n) /\ NumBatches(n) > 0
    <2>1. /\ size'[b] = n
          /\ \A d \in Call : d # b => /\ size'[d] = size[d] /\ pc'[d] = pc[d]
                                      /\ pending'[d] = pending[d]
          /\ \/ pc'[b] = "inline" /\ pending'[b] = pending[b]
             \/ pc'[b] = "check" /\ pending'[b] = NumBatches(n) /\ n > BatchSize
        BY <1>1 DEF IInv, TypeOK
    <2> QED
        BY <1>3, <1>4, <1>6, <1>7, <2>1
<1>9. TypeOK'
    <2>1. size \in [Call -> 0..MaxClients] /\ pending \in [Call -> 0..MaxClients]
        BY DEF IInv, TypeOK
    <2>2. size' \in [Call -> 0..MaxClients]
        BY <1>1, <1>3, <2>1
    <2>3. pending' \in [Call -> 0..MaxClients]
        BY <1>1, <1>4, <2>1
    <2> QED
        BY <1>1, <1>2, <2>2, <2>3 DEF IInv, TypeOK
<1>10. OnceAtMost' /\ Draining'
    BY <1>2 DEF IInv, OnceAtMost, Draining
<1>11. ASSUME NEW d \in Call PROVE Counted(d)'
    <2>1. CASE d = b
        <3>1. Out(b)' = {} /\ Cardinality(Out(b)') = 0 /\ batch'[b] = 0
            BY <1>2, <1>5, <1>6, <1>7
        <3>2. pending'[b] = Remaining(b)' /\ pending'[b] \in Nat /\ pc'[b] # "returned"
            BY <1>3, <1>4, <1>8, <3>1 DEF Remaining
        <3>3. pending'[b] = Cardinality(Out(b)') + Remaining(b)'
            BY <3>1, <3>2
        <3> QED
            BY <2>1, <3>1, <3>2, <3>3 DEF Counted
    <2>2. CASE d # b
        BY <1>2, <1>5, <1>8, <2>2 DEF IInv, Counted, Remaining
    <2> QED
        BY <2>1, <2>2
<1>12. ASSUME NEW d \in Call PROVE InLoop(d)'
    <2>1. CASE d = b
        <3>1. /\ batch'[b] = 0 /\ next'[b] = 1 /\ attempts' = attempts
            BY <1>2, <1>6
        <3>2. Unsent(b, 1, MaxClients)' /\ Sent(b, 1, 0)'
            BY <1>6, <3>1 DEF Unsent, Sent
        <3> QED
            BY <1>3, <1>4, <1>6, <1>8, <2>1, <3>1, <3>2 DEF InLoop, Sent, Unsent
    <2>2. CASE d # b
        BY <1>2, <1>8, <2>2 DEF IInv, InLoop, Sent, Unsent
    <2> QED
        BY <2>1, <2>2
<1>13. ASSUME NEW d \in Call, NEW i \in 0..MaxClients PROVE BatchOK(d, i)'
    <2>1. CASE d = b
        <3>1. /\ <<b, i>> \notin Submitted /\ \A w \in Worker : ~Holds(w, b, i)
              /\ ~(i < batch[b])
            BY <1>3, <1>6, <1>7 DEF Out
        <3> QED
            BY <1>2, <1>5, <2>1, <3>1 DEF BatchOK
    <2>2. CASE d # b
        <3>1. BatchOK(d, i) /\ LastIn(d, i)' = LastIn(d, i)
            BY <1>8, <2>2 DEF IInv, LastIn
        <3> QED
            BY <1>2, <1>5, <3>1 DEF BatchOK, Sent, Unsent
    <2> QED
        BY <2>1, <2>2
<1> QED
    BY <1>5, <1>9, <1>10, <1>11, <1>12, <1>13 DEF IInv

\* A batch goes into the channel.
LEMMA SubmitSendKeeps == ASSUME IInv, NEW b \in Call, SubmitSend(b) PROVE IInv'
<1> USE DEF callVars, poolVars
<1> DEFINE k == batch[b]
<1>1. /\ pc[b] = "send" /\ ~closed /\ Len(tasks) < Cap
      /\ tasks' = Append(tasks, <<b, k>>)
      /\ batch' = [batch EXCEPT ![b] = @ + 1]
      /\ pc' = [pc EXCEPT ![b] = IF batch'[b] = NumBatches(size[b]) THEN "wait" ELSE "check"]
      /\ UNCHANGED <<size, next, pending, err, ctxDone, stopped, closed, stop, worker, attempts>>
    BY DEF SubmitSend
<1>2. /\ k \in 0..MaxClients /\ size[b] \in 0..MaxClients /\ MaxClients \in Nat
      /\ tasks \in Seq(Task) /\ IsFiniteSet(Out(b)) /\ Cardinality(Out(b)) \in Nat
    BY Types
<1>3. Counted(b) /\ InLoop(b)
    BY DEF IInv
<1>4. /\ k < NumBatches(size[b]) /\ Out(b) \subseteq 0..(k - 1)
      /\ pending[b] = Cardinality(Out(b)) + (NumBatches(size[b]) - k)
      /\ Unsent(b, First(k), MaxClients)
    BY <1>1, <1>3 DEF Counted, InLoop, Remaining
<1>5. /\ NumBatches(size[b]) \in 0..MaxClients /\ size[b] < First(NumBatches(size[b]))
    BY <1>2, NumBatchesFacts
<1>6. /\ batch'[b] = k + 1 /\ \A d \in Call : d # b => batch'[d] = batch[d] /\ pc'[d] = pc[d]
      /\ \/ pc'[b] = "wait" /\ k + 1 = NumBatches(size[b])
         \/ pc'[b] = "check" /\ k + 1 # NumBatches(size[b])
    BY <1>1 DEF IInv, TypeOK
<1>7. First(k) \in Nat /\ First(k + 1) \in Nat /\ First(k) <= First(k + 1)
    <2>1. k \in Nat /\ k + 1 \in Nat /\ BatchSize \in Nat
        BY <1>2, PoolAssumption
    <2>2. First(k) \in Nat /\ First(k + 1) = First(k) + BatchSize
        BY <2>1, FirstFacts
    <2> QED
        BY <2>1, <2>2
<1>8. <<b, k>> \in Task
    BY <1>2 DEF Task
<1>9. k \notin Out(b)
    BY <1>2, <1>4
<1> HIDE DEF k
<1>10. <<b, k>> \notin Submitted /\ \A w \in Worker : ~Holds(w, b, k)
    BY <1>2, <1>9 DEF Out
<1>11. Submitted' = Submitted \cup {<<b, k>>} /\ IsInjective(tasks')
    <2>1. ToSet(tasks') = ToSet(tasks) \cup {<<b, k>>}
        BY <1>1, <1>2, <1>8, AppendFacts
    <2>2. IsInjective(tasks')
        BY <1>1, <1>2, <1>8, <1>10, AppendKeepsInjective DEF IInv, OneHolder, Submitted
    <2> QED
        BY <2>1, <2>2 DEF Submitted
<1>12. /\ \A w : Busy(w)' <=> Busy(w)
       /\ \A w, d, i : Holds(w, d, i)' <=> Holds(w, d, i)
    BY <1>1 DEF Busy, Holds
<1>13. Out(b)' = Out(b) \cup {k} /\ \A d \in Call : d # b => Out(d)' = Out(d)
    <2>1. ASSUME NEW d \in Call, NEW i \in 0..MaxClients
          PROVE  <<d, i>> \in Submitted' <=> <<d, i>> \in Submitted \/ (d = b /\ i = k)
        BY <1>11
    <2>2. ASSUME NEW d \in Call, NEW i \in 0..MaxClients
          PROVE  i \in Out(d)' <=> i \in Out(d) \/ (d = b /\ i = k)
        BY <1>12, <2>1 DEF Out
    <2>3. \A d : Out(d)' \subseteq 0..MaxClients /\ Out(d) \subseteq 0..MaxClients
        BY DEF Out
    <2> QED
        BY <1>2, <2>2, <2>3
<1>14. Cardinality(Out(b)') = Cardinality(Out(b)) + 1
    BY <1>2, <1>9, <1>13, FS_AddElement
<1>15. TypeOK'
    <2>1. tasks' \in Seq(Task)
        BY <1>1, <1>2, <1>8
    <2>2. Len(tasks') <= Cap
        <3>1. Cap \in Nat
            <4>1. Cardinality(Worker) \in Nat /\ PerWorker \in Nat
                BY PoolAssumption, FS_CardinalityType
            <4> QED
                BY <4>1 DEF Cap
        <3>2. Len(tasks') = Len(tasks) + 1 /\ Len(tasks) \in Nat
            BY <1>1, <1>2, <1>8, AppendFacts
        <3> QED
            BY <1>1, <3>1, <3>2
    <2>3. batch' \in [Call -> 0..MaxClients]
        <3>1. batch' = [batch EXCEPT ![b] = k + 1] /\ k + 1 \in 0..MaxClients
            BY <1>1, <1>2, <1>4, <1>5 DEF k
        <3> QED
            BY <3>1 DEF IInv, TypeOK
    <2> QED
        BY <1>1, <2>1, <2>2, <2>3 DEF IInv, TypeOK
<1>16. OneHolder'
    <2> SUFFICES ASSUME NEW w \in Worker, Busy(w)
                 PROVE  /\ worker[w].task \in Task /\ worker[w].task \notin Submitted'
                        /\ \A v \in Worker : Busy(v) /\ worker[v].task = worker[w].task => v = w
        BY <1>1, <1>11, <1>12 DEF OneHolder
    <2>1. worker[w].task # <<b, k>>
        BY <1>10 DEF Holds
    <2> QED
        BY <1>11, <2>1 DEF IInv, OneHolder
<1>17. OnceAtMost' /\ Draining'
    BY <1>1 DEF IInv, OnceAtMost, Draining
<1>18. ASSUME NEW d \in Call PROVE Counted(d)'
    <2>1. CASE d = b
        <3>1. Out(b)' \subseteq 0..(batch'[b] - 1)
            BY <1>2, <1>4, <1>6, <1>13
        <3>2. pending'[b] = Cardinality(Out(b)') + Remaining(b)'
            <4>1. Remaining(b)' = NumBatches(size[b]) - (k + 1)
                BY <1>1, <1>2, <1>5, <1>6 DEF Remaining
            <4>2. pending'[b] = Cardinality(Out(b)) + (NumBatches(size[b]) - k)
                BY <1>1, <1>4
            <4> QED
                BY <1>2, <1>5, <1>14, <4>1, <4>2
        <3> QED
            BY <1>6, <2>1, <3>1, <3>2 DEF Counted
    <2>2. CASE d # b
        BY <1>1, <1>6, <1>13, <2>2 DEF IInv, Counted, Remaining
    <2> QED
        BY <2>1, <2>2
<1>19. ASSUME NEW d \in Call PROVE InLoop(d)'
    <2>1. CASE d = b
        <3>1. Unsent(b, First(k + 1), MaxClients)
            BY <1>2, <1>4, <1>7 DEF Unsent
        <3>2. k + 1 = NumBatches(size[b]) => Sent(b, First(k + 1), size[b])
            BY <1>2, <1>5, <1>7 DEF Sent
        <3>3. k + 1 <= NumBatches(size[b])
            BY <1>2, <1>4, <1>5
        <3>4. k + 1 # NumBatches(size[b]) => k + 1 < NumBatches(size[b])
            BY <1>2, <1>5, <3>3
        <3> QED
            BY <1>1, <1>6, <2>1, <3>1, <3>2, <3>3, <3>4 DEF InLoop, Sent, Unsent
    <2>2. CASE d # b
        BY <1>1, <1>6, <2>2 DEF IInv, InLoop, Sent, Unsent
    <2> QED
        BY <2>1, <2>2
<1>20. ASSUME NEW d \in Call, NEW i \in 0..MaxClients PROVE BatchOK(d, i)'
    <2>1. BatchOK(d, i) /\ LastIn(d, i)' = LastIn(d, i)
        BY <1>1 DEF IInv, LastIn
    <2>2. <<d, i>> \in Submitted' => Unsent(d, First(i), LastIn(d, i))'
        <3>1. CASE d = b /\ i = k
            <4>1. LastIn(d, i) <= MaxClients /\ LastIn(d, i) \in Nat
                BY <1>2, <3>1, LastInFacts
            <4> QED
                BY <1>1, <1>2, <1>4, <2>1, <3>1, <4>1 DEF Unsent
        <3>2. CASE ~(d = b /\ i = k)
            <4>1. <<d, i>> \in Submitted' => <<d, i>> \in Submitted
                BY <1>11, <3>2
            <4> QED
                BY <1>1, <2>1, <4>1 DEF BatchOK, Unsent
        <3> QED
            BY <3>1, <3>2
    <2>3. i < batch'[d] /\ i \notin Out(d)' => i < batch[d] /\ i \notin Out(d)
        <3>1. CASE d = b
            BY <1>2, <1>6, <1>13, <3>1 DEF k
        <3>2. CASE d # b
            BY <1>6, <1>13, <3>2
        <3> QED
            BY <3>1, <3>2
    <2> QED
        BY <1>1, <1>12, <2>1, <2>2, <2>3 DEF BatchOK, Sent, Unsent
<1> QED
    BY <1>15, <1>16, <1>17, <1>18, <1>19, <1>20 DEF IInv

-----------------------------------------------------------------------------
(* Steps of a worker                                                         *)

\* A worker takes a batch.
LEMMA WorkerTakeKeeps == ASSUME IInv, NEW w \in Worker, WorkerTake(w) PROVE IInv'
<1> USE DEF callVars, poolVars
<1> DEFINE t == Head(tasks)
<1>1. /\ worker[w].state = Idle /\ tasks # <<>> /\ tasks' = Tail(tasks)
      /\ worker' = [worker EXCEPT ![w] = [state |-> "busy", task |-> t, next |-> First(t[2])]]
      /\ UNCHANGED <<callVars, err, ctxDone, stopped, closed, stop, attempts>>
    BY DEF WorkerTake
<1>2. tasks \in Seq(Task) /\ IsInjective(tasks) /\ MaxClients \in Nat
    BY Types DEF IInv, OneHolder
<1>3. /\ t \in Task /\ tasks' \in Seq(Task) /\ Len(tasks') = Len(tasks) - 1
      /\ Submitted = Submitted' \cup {t}
    BY <1>1, <1>2, TailFacts DEF Submitted
<1>4. IsInjective(tasks') /\ t \notin Submitted'
    BY <1>1, <1>2, TailKeepsInjective DEF Submitted
<1>5. PICK b \in Call, i \in 0..MaxClients : t = <<b, i>>
    BY <1>3 DEF Task
<1>6. First(t[2]) = First(i) /\ First(i) \in Nat
    <2>1. t[2] = i /\ i \in Nat
        BY <1>2, <1>5
    <2> QED
        BY <2>1, FirstFacts
<1> HIDE DEF t
<1>7. /\ worker'[w] = [state |-> "busy", task |-> <<b, i>>, next |-> First(i)]
      /\ \A v \in Worker : v # w => worker'[v] = worker[v]
    BY <1>1, <1>5, <1>6 DEF IInv, TypeOK
<1>8. /\ Busy(w)' /\ ~Busy(w)
      /\ \A v \in Worker : v # w => (Busy(v)' <=> Busy(v))
    BY <1>1, <1>7 DEF Busy, Idle
<1>9. \A v \in Worker, d \in Call, j \in 0..MaxClients :
         Holds(v, d, j)' <=> Holds(v, d, j) \/ (v = w /\ d = b /\ j = i)
    <2> SUFFICES ASSUME NEW v \in Worker, NEW d \in Call, NEW j \in 0..MaxClients
                 PROVE  Holds(v, d, j)' <=> Holds(v, d, j) \/ (v = w /\ d = b /\ j = i)
        OBVIOUS
    <2>1. CASE v = w
        BY <1>7, <1>8, <2>1 DEF Holds
    <2>2. CASE v # w
        BY <1>7, <1>8, <2>2 DEF Holds
    <2> QED
        BY <2>1, <2>2
<1>10. ASSUME NEW d \in Call PROVE Out(d)' = Out(d)
    <2>1. ASSUME NEW j \in 0..MaxClients
          PROVE  (<<d, j>> \in Submitted <=> <<d, j>> \in Submitted' \/ (d = b /\ j = i))
        BY <1>3, <1>5
    <2>2. ASSUME NEW j \in 0..MaxClients
          PROVE  (\E v \in Worker : Holds(v, d, j))'
                   <=> (\E v \in Worker : Holds(v, d, j)) \/ (d = b /\ j = i)
        BY <1>9
    <2>3. ASSUME NEW j \in 0..MaxClients PROVE j \in Out(d)' <=> j \in Out(d)
        BY <2>1, <2>2 DEF Out
    <2>4. Out(d)' \subseteq 0..MaxClients /\ Out(d) \subseteq 0..MaxClients
        BY DEF Out
    <2> QED
        BY <2>3, <2>4
<1>11. TypeOK'
    <2>1. worker' \in [Worker -> [state : {Idle, "busy", Exited},
                                  task : Task \cup {None}, next : Nat]]
        BY <1>1, <1>3, <1>6 DEF IInv, TypeOK
    <2>2. Len(tasks') <= Cap
        <3>1. Cap \in Nat
            <4>1. Cardinality(Worker) \in Nat /\ PerWorker \in Nat
                BY PoolAssumption, FS_CardinalityType
            <4> QED
                BY <4>1 DEF Cap
        <3>2. Len(tasks) <= Cap /\ Len(tasks) \in Nat
            BY <1>2 DEF IInv, TypeOK
        <3> QED
            BY <1>3, <3>1, <3>2
    <2> QED
        BY <1>1, <1>3, <2>1, <2>2 DEF IInv, TypeOK
<1>12. OneHolder'
    <2>1. ASSUME NEW v \in Worker, Busy(v)'
          PROVE  worker'[v].task \in Task /\ worker'[v].task \notin Submitted'
        <3>1. CASE v = w
            BY <1>3, <1>4, <1>5, <1>7, <3>1
        <3>2. CASE v # w
            BY <1>3, <1>7, <1>8, <2>1, <3>2 DEF IInv, OneHolder
        <3> QED
            BY <3>1, <3>2
    <2>2. \A v \in Worker : v # w /\ Busy(v) => worker[v].task # <<b, i>>
        BY <1>3, <1>5 DEF IInv, OneHolder
    <2>3. ASSUME NEW v \in Worker, NEW u \in Worker, Busy(v)', Busy(u)',
                 worker'[u].task = worker'[v].task
          PROVE  u = v
        <3>1. CASE u = w /\ v # w
            BY <1>7, <1>8, <2>2, <2>3, <3>1
        <3>2. CASE u # w /\ v = w
            BY <1>7, <1>8, <2>2, <2>3, <3>2
        <3>3. CASE u # w /\ v # w
            BY <1>7, <1>8, <2>3, <3>3 DEF IInv, OneHolder
        <3> QED
            BY <3>1, <3>2, <3>3
    <2> QED
        BY <1>4, <2>1, <2>3 DEF OneHolder
<1>13. OnceAtMost'
    BY <1>1 DEF IInv, OnceAtMost
<1>14. Draining'
    BY <1>1, <1>7 DEF IInv, Draining, Exited, Idle
<1>15. ASSUME NEW d \in Call PROVE Counted(d)' /\ InLoop(d)'
    <2>1. Counted(d)'
        BY <1>1, <1>10 DEF IInv, Counted, Remaining
    <2>2. InLoop(d)'
        BY <1>1 DEF IInv, InLoop, Sent, Unsent
    <2> QED
        BY <2>1, <2>2
<1>16. ASSUME NEW d \in Call, NEW j \in 0..MaxClients PROVE BatchOK(d, j)'
    <2>1. BatchOK(d, j) /\ LastIn(d, j)' = LastIn(d, j)
        BY <1>1 DEF IInv, LastIn
    <2>2. <<d, j>> \in Submitted' => <<d, j>> \in Submitted
        BY <1>3
    <2>3. ASSUME NEW v \in Worker, Holds(v, d, j)'
          PROVE  /\ First(j) <= worker'[v].next /\ worker'[v].next <= LastIn(d, j) + 1
                 /\ Sent(d, First(j), worker'[v].next - 1)
                 /\ Unsent(d, worker'[v].next, LastIn(d, j))
        <3>1. CASE v = w
            <4>1. /\ d = b /\ j = i /\ worker'[v].next = First(i) /\ <<b, i>> \in Submitted
                BY <1>3, <1>5, <1>7, <1>8, <1>9, <2>3, <3>1 DEF Holds
            <4>2. First(i) <= LastIn(b, i) /\ LastIn(b, i) \in Nat
                BY <4>1, OutFacts, LastInFacts
            <4>3. Sent(b, First(i), First(i) - 1)
                BY <1>2, <1>6 DEF Sent
            <4> QED
                BY <1>6, <2>1, <4>1, <4>2, <4>3 DEF BatchOK
        <3>2. CASE v # w
            <4>1. Holds(v, d, j) /\ worker'[v] = worker[v]
                BY <1>7, <1>9, <2>3, <3>2
            <4> QED
                BY <2>1, <4>1 DEF BatchOK
        <3> QED
            BY <3>1, <3>2
    <2> QED
        BY <1>1, <1>10, <2>1, <2>2, <2>3 DEF BatchOK, Sent, Unsent
<1> QED
    BY <1>11, <1>12, <1>13, <1>14, <1>15, <1>16 DEF IInv

\* The task of a busy worker.
LEMMA HeldTask ==
    ASSUME IInv, NEW w \in Worker, Busy(w)
    PROVE  \E b \in Call, i \in 0..MaxClients :
              /\ worker[w].task = <<b, i>> /\ worker[w].task[1] = b /\ worker[w].task[2] = i
              /\ Holds(w, b, i) /\ worker[w].next \in Nat
              /\ <<b, i>> \notin Submitted
              /\ \A v \in Worker : v # w => ~Holds(v, b, i)
<1>1. worker[w].task \in Task /\ worker[w].next \in Nat
    BY DEF IInv, OneHolder, TypeOK
<1>2. PICK b \in Call, i \in 0..MaxClients : worker[w].task = <<b, i>>
    BY <1>1 DEF Task
<1>3. <<b, i>> \notin Submitted /\ \A v \in Worker : v # w => ~Holds(v, b, i)
    BY <1>2 DEF IInv, OneHolder, Holds
<1> QED
    BY <1>1, <1>2, <1>3 DEF Holds

\* A worker sends to the next client of its batch.
LEMMA WorkerSendKeeps == ASSUME IInv, NEW w \in Worker, WorkerSend(w) PROVE IInv'
<1> USE DEF callVars, poolVars
<1>1. Busy(w)
    BY DEF WorkerSend, Busy
<1>2. PICK b \in Call, i \in 0..MaxClients :
            /\ worker[w].task = <<b, i>> /\ worker[w].task[1] = b /\ worker[w].task[2] = i
            /\ Holds(w, b, i) /\ worker[w].next \in Nat
            /\ <<b, i>> \notin Submitted
            /\ \A v \in Worker : v # w => ~Holds(v, b, i)
    BY <1>1, HeldTask
<1> DEFINE c == worker[w].next
<1>3. /\ c <= LastIn(b, i) /\ Attempt(b, c)
      /\ worker' = [worker EXCEPT ![w].next = @ + 1]
      /\ UNCHANGED <<callVars, err, ctxDone, poolVars>>
    BY <1>2 DEF WorkerSend
<1>4. c \in Nat
    BY <1>2
<1>5. /\ worker'[w].next = c + 1 /\ worker'[w].task = worker[w].task
      /\ worker'[w].state = worker[w].state
      /\ \A v \in Worker : v # w => worker'[v] = worker[v]
      /\ worker' \in [Worker -> [state : {Idle, "busy", Exited},
                                 task : Task \cup {None}, next : Nat]]
    <2> DEFINE R == [state : {Idle, "busy", Exited}, task : Task \cup {None}, next : Nat]
    <2> DEFINE new == [worker[w] EXCEPT !.next = c + 1]
    <2>1. worker \in [Worker -> R]
        BY DEF IInv, TypeOK
    <2>2. /\ new \in R /\ new.next = c + 1 /\ new.task = worker[w].task
          /\ new.state = worker[w].state
        BY <1>4, <2>1
    <2>3. worker' = [worker EXCEPT ![w] = new]
        BY <1>3
    <2> HIDE DEF R, new
    <2>4. worker'[w] = new /\ worker' \in [Worker -> R]
          /\ \A v \in Worker : v # w => worker'[v] = worker[v]
        BY <2>1, <2>2, <2>3
    <2> QED
        BY <2>2, <2>4 DEF R
<1>6. /\ First(i) <= c /\ Sent(b, First(i), c - 1) /\ Unsent(b, c, LastIn(b, i))
    BY <1>2 DEF IInv, BatchOK
<1> HIDE DEF c
<1>7. /\ LastIn(b, i) \in Nat /\ LastIn(b, i) <= size[b] /\ First(i) \in Nat \ {0}
      /\ size[b] \in 0..MaxClients /\ MaxClients \in Nat /\ batch[b] \in Nat
    BY LastInFacts, Types
<1>8. LastIn(b, i) < First(batch[b]) /\ First(batch[b]) \in Nat
    BY <1>2, <1>7, OutFacts, FirstFacts
<1>9. c \in 1..MaxClients
    BY <1>3, <1>4, <1>6, <1>7
<1>10. attempts[b][c] = 0
    BY <1>3, <1>4, <1>6, <1>9 DEF Unsent
<1>11. /\ attempts' \in [Call -> [1..MaxClients -> Nat]] /\ OnceAtMost'
       /\ attempts'[b][c] = 1
       /\ \A d \in Call, x \in 1..MaxClients :
             d # b \/ x # c => attempts'[d][x] = attempts[d][x]
    BY <1>3, <1>9, <1>10, AttemptFacts
<1>12. /\ Submitted' = Submitted
       /\ \A v \in Worker : Busy(v)' <=> Busy(v)
       /\ \A v \in Worker : \A d, j : Holds(v, d, j)' <=> Holds(v, d, j)
    BY <1>3, <1>5 DEF Submitted, Busy, Holds
<1>13. \A d : Out(d)' = Out(d)
    BY <1>12 DEF Out
<1>14. TypeOK'
    BY <1>3, <1>5, <1>11 DEF IInv, TypeOK
<1>15. OneHolder'
    <2>1. \A v \in Worker : worker'[v].task = worker[v].task
        BY <1>5
    <2> QED
        BY <1>3, <1>12, <2>1 DEF IInv, OneHolder
<1>16. Draining'
    <2>1. \A v \in Worker : worker'[v].state = worker[v].state
        BY <1>5
    <2> QED
        BY <1>3, <2>1 DEF IInv, Draining
<1>17. ASSUME NEW d \in Call PROVE Counted(d)'
    BY <1>3, <1>13 DEF IInv, Counted, Remaining
<1>18. ASSUME NEW d \in Call PROVE InLoop(d)'
    <2>1. InLoop(d)
        BY DEF IInv
    <2>2. CASE d # b
        BY <1>3, <1>11, <2>1, <2>2 DEF InLoop, Sent, Unsent
    <2>3. CASE d = b
        <3>1. ASSUME NEW x \in 1..MaxClients, First(batch[b]) <= x
              PROVE  attempts'[b][x] = attempts[b][x]
            <4>1. x # c
                BY <1>3, <1>4, <1>7, <1>8, <3>1
            <4> QED
                BY <1>11, <4>1
        <3>2. pc[b] = "inline" => First(batch[b]) <= next[b]
            BY <2>1, <2>3 DEF InLoop
        <3>3. ASSUME pc[b] = "inline", NEW x \in 1..MaxClients, next[b] <= x
              PROVE  attempts'[b][x] = attempts[b][x]
            <4>1. First(batch[b]) <= x
                BY <1>8, <3>2, <3>3, Types
            <4> QED
                BY <3>1, <4>1
        <3> QED
            BY <1>3, <2>1, <2>3, <3>1, <3>2, <3>3 DEF InLoop, Sent, Unsent
    <2> QED
        BY <2>2, <2>3
<1>19. ASSUME NEW d \in Call, NEW j \in 0..MaxClients PROVE BatchOK(d, j)'
    <2>1. BatchOK(d, j) /\ LastIn(d, j)' = LastIn(d, j)
        BY <1>3 DEF IInv, LastIn
    <2>2. CASE d = b /\ j = i
        <3>1. i \in Out(b)
            BY <1>2, OutFacts
        <3>2. /\ First(i) <= c + 1 /\ c + 1 <= LastIn(b, i) + 1
            BY <1>3, <1>4, <1>6, <1>7
        <3>3. ASSUME NEW x \in 1..MaxClients, First(i) <= x, x <= (c + 1) - 1
              PROVE  attempts'[b][x] = 1
            <4>1. CASE x = c
                BY <1>11, <4>1
            <4>2. CASE x # c
                <5>1. x <= c - 1
                    BY <1>4, <3>3, <4>2
                <5> QED
                    BY <1>6, <1>11, <3>3, <4>2, <5>1 DEF Sent
            <4> QED
                BY <4>1, <4>2
        <3>4. ASSUME NEW x \in 1..MaxClients, c + 1 <= x, x <= LastIn(b, i)
              PROVE  attempts'[b][x] = 0
            <4>1. x # c /\ c <= x
                BY <1>4, <3>4
            <4> QED
                BY <1>6, <1>11, <3>4, <4>1 DEF Unsent
        <3>5. \A v \in Worker : Holds(v, b, i) => v = w
            BY <1>2
        <3> QED
            BY <1>2, <1>5, <1>12, <1>13, <2>1, <2>2, <3>1, <3>2, <3>3, <3>4, <3>5
               DEF BatchOK, Sent, Unsent
    <2>3. CASE ~(d = b /\ j = i)
        <3>1. ASSUME NEW x \in 1..MaxClients, First(j) <= x, x <= LastIn(d, j)
              PROVE  attempts'[d][x] = attempts[d][x]
            <4>1. CASE d # b
                BY <1>11, <4>1
            <4>2. CASE d = b
                <5>1. x # c
                    BY <1>3, <1>4, <1>6, <2>3, <3>1, <4>2, BatchesDisjoint
                <5> QED
                    BY <1>11, <5>1
            <4> QED
                BY <4>1, <4>2
        <3>2. ASSUME NEW v \in Worker, Holds(v, d, j)
              PROVE  v # w /\ worker'[v] = worker[v] /\ worker[v].next \in Nat
            <4>1. v # w
                BY <1>2, <2>3, <3>2 DEF Holds
            <4> QED
                BY <1>5, <4>1 DEF IInv, TypeOK
        <3>3. LastIn(d, j) \in Nat /\ First(j) \in Nat
            BY LastInFacts
        <3>4. ASSUME NEW v \in Worker, Holds(v, d, j)'
              PROVE  /\ First(j) <= worker'[v].next /\ worker'[v].next <= LastIn(d, j) + 1
                     /\ \A x \in 1..MaxClients :
                          First(j) <= x /\ x <= worker'[v].next - 1 => attempts'[d][x] = 1
                     /\ \A x \in 1..MaxClients :
                          worker'[v].next <= x /\ x <= LastIn(d, j) => attempts'[d][x] = 0
            <4>1. Holds(v, d, j) /\ worker'[v] = worker[v] /\ worker[v].next \in Nat
                BY <1>12, <3>2, <3>4
            <4>2. /\ First(j) <= worker[v].next /\ worker[v].next <= LastIn(d, j) + 1
                  /\ Sent(d, First(j), worker[v].next - 1)
                  /\ Unsent(d, worker[v].next, LastIn(d, j))
                BY <2>1, <4>1 DEF BatchOK
            <4>3. ASSUME NEW x \in 1..MaxClients, First(j) <= x, x <= worker[v].next - 1
                  PROVE  attempts'[d][x] = 1
                <5>1. x <= LastIn(d, j)
                    BY <3>3, <4>1, <4>2, <4>3
                <5> QED
                    BY <3>1, <4>2, <4>3, <5>1 DEF Sent
            <4>4. ASSUME NEW x \in 1..MaxClients, worker[v].next <= x, x <= LastIn(d, j)
                  PROVE  attempts'[d][x] = 0
                <5>1. First(j) <= x
                    BY <3>3, <4>1, <4>2, <4>4
                <5> QED
                    BY <3>1, <4>2, <4>4, <5>1 DEF Unsent
            <4> QED
                BY <4>1, <4>2, <4>3, <4>4
        <3> QED
            BY <1>3, <1>12, <1>13, <2>1, <3>1, <3>4 DEF BatchOK, Sent, Unsent
    <2> QED
        BY <2>2, <2>3
<1> QED
    BY <1>11, <1>14, <1>15, <1>16, <1>17, <1>18, <1>19 DEF IInv

\* A worker has gone through its batch, or the context ended it.
LEMMA WorkerDoneKeeps == ASSUME IInv, NEW w \in Worker, WorkerDone(w) PROVE IInv'
<1> USE DEF callVars, poolVars
<1>1. Busy(w)
    BY DEF WorkerDone, Busy
<1>2. PICK b \in Call, i \in 0..MaxClients :
            /\ worker[w].task = <<b, i>> /\ worker[w].task[1] = b /\ worker[w].task[2] = i
            /\ Holds(w, b, i) /\ worker[w].next \in Nat
            /\ <<b, i>> \notin Submitted
            /\ \A v \in Worker : v # w => ~Holds(v, b, i)
    BY <1>1, HeldTask
<1>3. /\ \/ worker[w].next > LastIn(b, i) /\ err' = err
         \/ err' = [err EXCEPT ![b] = TRUE]
      /\ pending' = [pending EXCEPT ![b] = @ - 1]
      /\ worker' = [worker EXCEPT ![w] = [state |-> Idle, task |-> None, next |-> 0]]
      /\ UNCHANGED <<pc, size, batch, next, ctxDone, poolVars, attempts>>
    BY <1>2 DEF WorkerDone
<1>4. /\ worker'[w] = [state |-> Idle, task |-> None, next |-> 0]
      /\ \A v \in Worker : v # w => worker'[v] = worker[v]
      /\ worker' \in [Worker -> [state : {Idle, "busy", Exited},
                                 task : Task \cup {None}, next : Nat]]
    BY <1>3 DEF IInv, TypeOK
<1>5. /\ ~Busy(w)' /\ Submitted' = Submitted
      /\ \A v \in Worker : v # w => (Busy(v)' <=> Busy(v))
    BY <1>3, <1>4 DEF Busy, Submitted, Idle
<1>6. \A v \in Worker, d \in Call, j \in 0..MaxClients :
         Holds(v, d, j)' <=> v # w /\ Holds(v, d, j)
    BY <1>4, <1>5 DEF Holds
<1>7. i \in Out(b)
    BY <1>2, OutFacts
<1>8. Out(b)' = Out(b) \ {i} /\ \A d \in Call : d # b => Out(d)' = Out(d)
    <2>1. ASSUME NEW d \in Call, NEW j \in 0..MaxClients, ~(d = b /\ j = i)
          PROVE  Holds(w, d, j) <=> FALSE
        BY <1>2, <2>1 DEF Holds
    <2>2. ASSUME NEW d \in Call, NEW j \in 0..MaxClients, ~(d = b /\ j = i)
          PROVE  j \in Out(d)' <=> j \in Out(d)
        BY <1>5, <1>6, <2>1, <2>2 DEF Out
    <2>3. i \notin Out(b)'
        BY <1>2, <1>5, <1>6 DEF Out
    <2>4. \A d : Out(d)' \subseteq 0..MaxClients /\ Out(d) \subseteq 0..MaxClients
        BY DEF Out
    <2>5. ASSUME NEW d \in Call, d # b PROVE Out(d)' = Out(d)
        BY <2>2, <2>4, <2>5
    <2>6. Out(b)' = Out(b) \ {i}
        BY <2>2, <2>3, <2>4
    <2> QED
        BY <2>5, <2>6
<1>9. /\ IsFiniteSet(Out(b)) /\ Cardinality(Out(b)) \in Nat /\ pending[b] \in 0..MaxClients
      /\ MaxClients \in Nat /\ size[b] \in 0..MaxClients /\ batch[b] \in 0..MaxClients
    BY Types
<1>10. Cardinality(Out(b)') = Cardinality(Out(b)) - 1
    BY <1>7, <1>8, <1>9, FS_RemoveElement
<1>11. Cardinality(Out(b)) >= 1
    <2>1. Cardinality(Out(b)') \in Nat
        <3>1. IsFiniteSet(Out(b)')
            BY <1>8, <1>9, FS_Subset
        <3> QED
            BY <3>1, FS_CardinalityType
    <2> QED
        BY <1>9, <1>10, <2>1
<1>12. /\ Counted(b) /\ InLoop(b) /\ NumBatches(size[b]) \in Nat
    BY <1>9, NumBatchesFacts DEF IInv
<1>13. pending[b] - 1 \in 0..MaxClients /\ pending[b] = Cardinality(Out(b)) + Remaining(b)
       /\ Remaining(b) \in Nat
    <2>1. Remaining(b) \in Nat
        BY <1>9, <1>12 DEF Remaining, InLoop
    <2>2. pending[b] = Cardinality(Out(b)) + Remaining(b)
        BY <1>12 DEF Counted
    <2> QED
        BY <1>9, <1>11, <2>1, <2>2
<1>14. /\ pending'[b] = pending[b] - 1 /\ \A d \in Call : d # b => pending'[d] = pending[d]
       /\ pending' \in [Call -> 0..MaxClients]
    BY <1>3, <1>13 DEF IInv, TypeOK
<1>15. /\ err' \in [Call -> BOOLEAN] /\ \A d \in Call : err[d] => err'[d]
       /\ \A d \in Call : d # b => err'[d] = err[d]
       /\ ~err'[b] => worker[w].next > LastIn(b, i)
    <2>1. err \in [Call -> BOOLEAN]
        BY DEF IInv, TypeOK
    <2> QED
        BY <1>3, <2>1
<1>16. TypeOK'
    BY <1>3, <1>4, <1>14, <1>15 DEF IInv, TypeOK
<1>17. OneHolder'
    <2>1. \A v \in Worker : Busy(v)' => v # w /\ Busy(v) /\ worker'[v] = worker[v]
        BY <1>4, <1>5
    <2> QED
        BY <1>3, <1>5, <2>1 DEF IInv, OneHolder
<1>18. OnceAtMost'
    BY <1>3 DEF IInv, OnceAtMost
<1>19. Draining'
    <2>1. worker[w].state # Exited /\ worker'[w].state # Exited
        BY <1>1, <1>4 DEF Busy, Exited, Idle
    <2> QED
        BY <1>3, <1>4, <2>1 DEF IInv, Draining
<1>20. ASSUME NEW d \in Call PROVE Counted(d)'
    <2>1. CASE d = b
        <3>1. Remaining(b)' = Remaining(b)
            BY <1>3 DEF Remaining
        <3>2. pending'[b] = Cardinality(Out(b)') + Remaining(b)'
            BY <1>9, <1>10, <1>13, <1>14, <3>1
        <3> QED
            BY <1>3, <1>8, <1>12, <2>1, <3>2 DEF Counted
    <2>2. CASE d # b
        BY <1>3, <1>8, <1>14, <2>2 DEF IInv, Counted, Remaining
    <2> QED
        BY <2>1, <2>2
<1>21. ASSUME NEW d \in Call PROVE InLoop(d)'
    BY <1>3, <1>15 DEF IInv, InLoop, Sent, Unsent
<1>22. ASSUME NEW d \in Call, NEW j \in 0..MaxClients PROVE BatchOK(d, j)'
    <2>1. BatchOK(d, j) /\ LastIn(d, j)' = LastIn(d, j)
        BY <1>3 DEF IInv, LastIn
    <2>2. ASSUME NEW v \in Worker, Holds(v, d, j)'
          PROVE  Holds(v, d, j) /\ worker'[v] = worker[v]
        BY <1>4, <1>6, <2>2
    <2>3. ASSUME j < batch[d], j \notin Out(d)', ~err'[d]
          PROVE  Sent(d, First(j), LastIn(d, j))
        <3>1. CASE d = b /\ j = i
            <4>1. /\ Sent(b, First(i), worker[w].next - 1)
                  /\ worker[w].next > LastIn(b, i) /\ worker[w].next \in Nat
                  /\ LastIn(b, i) \in Nat /\ First(i) \in Nat
                BY <1>2, <1>15, <2>1, <2>3, <3>1, LastInFacts DEF BatchOK
            <4> QED
                BY <3>1, <4>1 DEF Sent
        <3>2. CASE ~(d = b /\ j = i)
            <4>1. j \notin Out(d)
                BY <1>8, <2>3, <3>2
            <4> QED
                BY <1>15, <2>1, <2>3, <4>1 DEF BatchOK
        <3> QED
            BY <3>1, <3>2
    <2> QED
        BY <1>3, <1>5, <2>1, <2>2, <2>3 DEF BatchOK, Sent, Unsent
<1> QED
    BY <1>16, <1>17, <1>18, <1>19, <1>20, <1>21, <1>22 DEF IInv

\* A worker finds the channel closed and empty.
LEMMA WorkerExitKeeps == ASSUME IInv, NEW w \in Worker, WorkerExit(w) PROVE IInv'
<1> USE DEF callVars, poolVars
<1>1. /\ worker[w].state = Idle /\ closed /\ tasks = <<>>
      /\ worker' = [worker EXCEPT ![w].state = Exited]
      /\ UNCHANGED <<callVars, err, ctxDone, poolVars, attempts>>
    BY DEF WorkerExit
<1>2. /\ worker'[w].state = Exited
      /\ \A v \in Worker : v # w => worker'[v] = worker[v]
      /\ worker' \in [Worker -> [state : {Idle, "busy", Exited},
                                 task : Task \cup {None}, next : Nat]]
    BY <1>1 DEF IInv, TypeOK
<1>3. /\ Submitted' = Submitted
      /\ \A v \in Worker : Busy(v)' <=> Busy(v)
      /\ \A v \in Worker : Busy(v)' => worker'[v] = worker[v]
    BY <1>1, <1>2 DEF Submitted, Busy, Idle, Exited
<1>4. \A v \in Worker : \A d, j : Holds(v, d, j)' <=> Holds(v, d, j)
    BY <1>3 DEF Holds
<1>5. \A d : Out(d)' = Out(d)
    BY <1>3, <1>4 DEF Out
<1>6. TypeOK'
    BY <1>1, <1>2 DEF IInv, TypeOK
<1>7. OneHolder'
    BY <1>1, <1>3 DEF IInv, OneHolder
<1>8. OnceAtMost' /\ Draining'
    BY <1>1, <1>2 DEF IInv, OnceAtMost, Draining
<1>9. ASSUME NEW d \in Call PROVE Counted(d)' /\ InLoop(d)'
    <2>1. Counted(d)'
        BY <1>1, <1>5 DEF IInv, Counted, Remaining
    <2>2. InLoop(d)'
        BY <1>1 DEF IInv, InLoop, Sent, Unsent
    <2> QED
        BY <2>1, <2>2
<1>10. ASSUME NEW d \in Call, NEW j \in 0..MaxClients PROVE BatchOK(d, j)'
    <2>1. BatchOK(d, j) /\ LastIn(d, j)' = LastIn(d, j)
        BY <1>1 DEF IInv, LastIn
    <2>2. ASSUME NEW v \in Worker, Holds(v, d, j)'
          PROVE  Holds(v, d, j) /\ worker'[v] = worker[v]
        BY <1>3, <1>4, <2>2 DEF Holds
    <2> QED
        BY <1>1, <1>3, <1>5, <2>1, <2>2 DEF BatchOK, Sent, Unsent
<1> QED
    BY <1>6, <1>7, <1>8, <1>9, <1>10 DEF IInv

-----------------------------------------------------------------------------
(* The whole system                                                          *)

\* A step of Shutdown, or none at all.
LEMMA StopKeeps ==
    ASSUME IInv, TypeOK', Draining', UNCHANGED <<callVars, err, tasks, worker, attempts>>
    PROVE  IInv'
<1> USE DEF callVars
<1>1. /\ Submitted' = Submitted /\ OneHolder'
      /\ \A w, d, i : Holds(w, d, i)' <=> Holds(w, d, i)
      /\ \A d : Out(d)' = Out(d)
    BY PoolSame DEF IInv
<1>2. OnceAtMost'
    BY DEF IInv, OnceAtMost
<1>3. ASSUME NEW d \in Call PROVE Counted(d)' /\ InLoop(d)'
    <2>1. Counted(d)'
        BY <1>1 DEF IInv, Counted, Remaining
    <2>2. InLoop(d)'
        BY DEF IInv, InLoop, Sent, Unsent
    <2> QED
        BY <2>1, <2>2
<1>4. ASSUME NEW d \in Call, NEW i \in 0..MaxClients PROVE BatchOK(d, i)'
    <2>1. BatchOK(d, i) /\ LastIn(d, i)' = LastIn(d, i)
        BY DEF IInv, LastIn
    <2> QED
        BY <1>1, <2>1 DEF BatchOK, Sent, Unsent
<1> QED
    BY <1>1, <1>2, <1>3, <1>4 DEF IInv

\* The initial state satisfies the invariant.
LEMMA InitOK == Init => IInv
<1> SUFFICES ASSUME Init PROVE IInv
    OBVIOUS
<1>1. MaxClients \in Nat /\ BatchSize \in Nat \ {0} /\ Cap \in Nat
    <2>1. Cardinality(Worker) \in Nat /\ PerWorker \in Nat
        BY PoolAssumption, FS_CardinalityType
    <2> QED
        BY <2>1, PoolAssumption DEF Cap
<1>2. TypeOK
    <2>1. tasks \in Seq(Task) /\ Len(tasks) <= Cap
        BY <1>1 DEF Init
    <2>2. /\ pc \in [Call -> {"new", "check", "send", "inline", "wait", "returned"}]
          /\ size \in [Call -> 0..MaxClients] /\ batch \in [Call -> 0..MaxClients]
          /\ next \in [Call -> 1..MaxClients + 1] /\ pending \in [Call -> 0..MaxClients]
        BY <1>1 DEF Init
    <2>3. worker \in [Worker -> [state : {Idle, "busy", Exited},
                                 task : Task \cup {None}, next : Nat]]
        BY DEF Init
    <2>4. attempts \in [Call -> [1..MaxClients -> Nat]]
        BY DEF Init
    <2> QED
        BY <2>1, <2>2, <2>3, <2>4 DEF Init, TypeOK
<1>3. ToSet(<<>>) = {} /\ IsInjective(<<>>)
    BY DEF ToSet, IsInjective
<1>4. Submitted = {} /\ \A w \in Worker : ~Busy(w)
    BY <1>3 DEF Init, Submitted, Busy, Idle
<1>5. \A b : Out(b) = {}
    BY <1>4 DEF Out, Holds
<1>6. OneHolder
    BY <1>3, <1>4 DEF Init, OneHolder
<1>7. OnceAtMost /\ Draining
    BY DEF Init, OnceAtMost, Draining, Idle, Exited
<1>8. ASSUME NEW b \in Call PROVE Counted(b) /\ InLoop(b)
    <2>1. NumBatches(0) \in 0..MaxClients
        BY <1>1, NumBatchesFacts
    <2>2. /\ pc[b] = "new" /\ batch[b] = 0 /\ next[b] = 1 /\ pending[b] = 0 /\ size[b] = 0
          /\ \A c \in 1..MaxClients : attempts[b][c] = 0
        BY DEF Init
    <2>3. Cardinality(Out(b)) = 0
        BY <1>5, FS_EmptySet
    <2>4. Counted(b)
        BY <1>5, <2>2, <2>3 DEF Counted, Remaining
    <2>5. InLoop(b)
        BY <1>1, <2>1, <2>2 DEF InLoop, Unsent
    <2> QED
        BY <2>4, <2>5
<1>9. ASSUME NEW b \in Call, NEW i \in 0..MaxClients PROVE BatchOK(b, i)
    BY <1>1, <1>4 DEF Init, BatchOK, Holds
<1> QED
    BY <1>2, <1>6, <1>7, <1>8, <1>9 DEF IInv

\* Every step keeps the invariant.
LEMMA InvStep == IInv /\ [Next]_vars => IInv'
<1> SUFFICES ASSUME IInv, [Next]_vars PROVE IInv'
    OBVIOUS
<1>1. ASSUME NEW b \in Call, Begin(b) \/ CallStep(b) \/ Cancel(b) PROVE IInv'
    <2>1. CASE SubmitRefused(b) \/ SubmitPanics(b)
        BY <2>1, FallbackKeeps DEF SubmitRefused, SubmitPanics
    <2> QED
        BY <1>1, <2>1, BeginKeeps, SubmitCheckKeeps, SubmitSendKeeps, InlineSendKeeps,
           InlineCancelledKeeps, InlineDoneKeeps, ReturnKeeps, CancelKeeps DEF CallStep
<1>2. ASSUME NEW w \in Worker, WorkerStep(w) PROVE IInv'
    BY <1>2, WorkerTakeKeeps, WorkerSendKeeps, WorkerDoneKeeps, WorkerExitKeeps
       DEF WorkerStep
<1>3. ASSUME NEW s \in Stopper, StopStore(s) \/ StopStep(s) PROVE IInv'
    <2>1. UNCHANGED <<callVars, err, ctxDone, tasks, worker, attempts>>
        BY <1>3 DEF StopStep, StopStore, StopClose, StopReturn
    <2>2. TypeOK'
        BY <1>3, <2>1 DEF StopStep, StopStore, StopClose, StopReturn, IInv, TypeOK, callVars
    <2>3. Draining'
        BY <1>3 DEF StopStep, StopStore, StopClose, StopReturn, IInv, TypeOK, Draining
    <2> QED
        BY <2>1, <2>2, <2>3, StopKeeps
<1>4. CASE UNCHANGED vars
    <2>1. TypeOK' /\ Draining'
        BY <1>4 DEF vars, callVars, poolVars, IInv, TypeOK, Draining
    <2> QED
        BY <1>4, <2>1, StopKeeps DEF vars, poolVars
<1> QED
    BY <1>1, <1>2, <1>3, <1>4 DEF Next

\* The invariant holds in every state.
LEMMA Invariance == Spec => []IInv
BY InitOK, InvStep, PTL DEF Spec

\* The channel never holds more than four tasks per worker, the WaitGroup of a
\* call never becomes negative, and every variable keeps its type.
THEOREM TypeCorrect == Spec => []TypeOK
<1>1. IInv => TypeOK
    BY DEF IInv
<1> QED
    BY Invariance, <1>1, PTL

\* When parallelSend or sendWithContext has returned, no worker has a batch of
\* it and none is queued.
THEOREM NoTaskOutlivesCall == Spec => []NothingOutlivesCall
<1>1. IInv => NothingOutlivesCall
    <2> SUFFICES ASSUME IInv, NEW b \in Call, pc[b] = "returned"
                 PROVE  /\ \A w \in Worker : Busy(w) => worker[w].task[1] # b
                        /\ \A i \in DOMAIN tasks : tasks[i][1] # b
        BY DEF NothingOutlivesCall, Busy
    <2>1. Out(b) = {}
        BY DEF IInv, Counted
    <2>2. ASSUME NEW w \in Worker, Busy(w), worker[w].task[1] = b PROVE FALSE
        BY <2>1, <2>2, HeldTask, OutFacts
    <2>3. ASSUME NEW i \in DOMAIN tasks, tasks[i][1] = b PROVE FALSE
        <3>1. tasks[i] \in Task /\ tasks[i] \in Submitted
            BY Types DEF Submitted, ToSet
        <3>2. PICK j \in 0..MaxClients : tasks[i] = <<b, j>>
            BY <2>3, <3>1 DEF Task
        <3> QED
            BY <2>1, <3>1, <3>2 DEF Out
    <2> QED
        BY <2>2, <2>3
<1> QED
    BY Invariance, <1>1, PTL

\* No client is sent an item of a call twice, whether by a worker or by the
\* caller, and a call that returns without an error has sent it to all.
THEOREM SentOnce == Spec => []EveryClientOnce
<1>1. IInv => EveryClientOnce
    <2> SUFFICES ASSUME IInv, NEW b \in Call, NEW c \in 1..MaxClients
                 PROVE  /\ attempts[b][c] <= 1
                        /\ (pc[b] = "returned" /\ ~err[b] /\ c <= size[b])
                              => attempts[b][c] = 1
        BY DEF EveryClientOnce
    <2>1. attempts[b][c] <= 1
        BY DEF IInv, OnceAtMost
    <2>2. ASSUME pc[b] = "returned", ~err[b], c <= size[b] PROVE attempts[b][c] = 1
        <3>1. /\ size[b] \in 0..MaxClients /\ MaxClients \in Nat /\ batch[b] \in 0..MaxClients
            BY Types
        <3>0. First(batch[b]) \in Nat
            <4>1. batch[b] \in Nat
                BY <3>1
            <4> QED
                BY <4>1, FirstFacts
        <3>2. Out(b) = {} /\ Sent(b, First(batch[b]), size[b])
            BY <2>2 DEF IInv, Counted, InLoop
        <3>3. CASE First(batch[b]) <= c
            BY <2>2, <3>2, <3>3 DEF Sent
        <3>4. CASE c < First(batch[b])
            <4>1. PICK i \in Nat : i < batch[b] /\ First(i) <= c /\ c <= First(i) + BatchSize - 1
                BY <3>0, <3>1, <3>4, ClientBatch
            <4>2. i \in 0..MaxClients
                BY <3>1, <4>1
            <4>3. c <= LastIn(b, i)
                BY <2>2, <3>1, <4>1, <4>2, LastInFacts
            <4>4. Sent(b, First(i), LastIn(b, i))
                BY <2>2, <3>2, <4>1, <4>2 DEF IInv, BatchOK
            <4> QED
                BY <4>1, <4>3, <4>4 DEF Sent
        <3> QED
            BY <3>0, <3>1, <3>3, <3>4
    <2> QED
        BY <2>1, <2>2
<1> QED
    BY Invariance, <1>1, PTL

\* shutdown of the pool returns after the channel has been drained, and no
\* worker leaves a task in it.
THEOREM DrainedOnShutdown == Spec => []ShutdownDrains
<1>1. IInv => ShutdownDrains
    <2>1. Worker # {}
        BY PoolAssumption
    <2> QED
        BY <2>1 DEF IInv, Draining, ShutdownDrains
<1> QED
    BY Invariance, <1>1, PTL
=============================================================================
