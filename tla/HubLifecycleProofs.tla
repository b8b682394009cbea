------------------------- MODULE HubLifecycleProofs -------------------------
(* Proofs about HubLifecycle for any number of clients and drainers.        *)
EXTENDS HubLifecycle, FiniteSetTheorems, TLAPS

\* Where a connection is between UpgradeConnection, the channels, Run and its
\* read pump.  This is what makes every register request the first one of its
\* client, and every unregistration one of a client that is registered.
ClientInv(c) ==
    /\ up[c] \in {"none", "checked", "upgraded"} =>
          c \notin register /\ c \notin clients /\ result[c] = "none"
    /\ c \in register => c \notin clients
    /\ rp[c] # "none" => up[c] = "accepted"
    /\ c \in unregister => rp[c] = "done"
    /\ (up[c] = "waiting" /\ result[c] = "ok") => c \in clients
    /\ rp[c] \in {"reading", "leaving"} => c \in clients

\* What Run knows of its current client.
RunInv ==
    /\ run.pc = "regCount" => run.client \in clients
    /\ run.pc = "unregCount" => run.client \notin clients

\* The part of the invariant about clients on their way in and out.
Admission == RunInv /\ \A c \in Client : ClientInv(c)

USE DEF At, hubVars, runVars, chanVars, connVars, callVars

-----------------------------------------------------------------------------
\* Every step keeps the types.
LEMMA TypesStep == Types /\ [Next]_vars => Types'
<1> SUFFICES ASSUME Types, [Next]_vars PROVE Types'
    OBVIOUS
<1> USE LifecycleAssumption DEF Types, RunPCs
<1>1. ASSUME RunStart PROVE Types'
    BY <1>1 DEF RunStart
<1>2. ASSUME RegisterDone PROVE Types'
    BY <1>2 DEF RegisterDone
<1>3. ASSUME UnregisterCount PROVE Types'
    BY <1>3 DEF UnregisterCount
<1>4. ASSUME UnregisterSignal PROVE Types'
    BY <1>4 DEF UnregisterSignal
<1>5. ASSUME UnregisterClose PROVE Types'
    BY <1>5 DEF UnregisterClose
<1>6. ASSUME RebuildSnapshot PROVE Types'
    BY <1>6 DEF RebuildSnapshot
<1>7. ASSUME RunExit PROVE Types'
    BY <1>7 DEF RunExit, CloseAll
<1>8. ASSUME NEW c \in Client, RefuseRegister(c) PROVE Types'
    BY <1>8 DEF RefuseRegister, CanTake
<1>9. ASSUME NEW c \in Client, AdmitRegister(c) PROVE Types'
    BY <1>9 DEF AdmitRegister, CanTake
<1>10. ASSUME NEW c \in Client, TakeUnregister(c) PROVE Types'
    BY <1>10 DEF TakeUnregister, CanTake
<1>11. ASSUME NEW c \in Client, UpgradeCheck(c) PROVE Types'
    BY <1>11 DEF UpgradeCheck
<1>12. ASSUME NEW c \in Client, UpgradeReject(c) PROVE Types'
    BY <1>12 DEF UpgradeReject
<1>13. ASSUME NEW c \in Client, UpgradeConn(c) PROVE Types'
    BY <1>13 DEF UpgradeConn
<1>14. ASSUME NEW c \in Client, UpgradeSend(c) PROVE Types'
    BY <1>14 DEF UpgradeSend
<1>15. ASSUME NEW c \in Client, UpgradeAbort(c) PROVE Types'
    BY <1>15 DEF UpgradeAbort
<1>16. ASSUME NEW c \in Client, UpgradeRefused(c) PROVE Types'
    BY <1>16 DEF UpgradeRefused
<1>17. ASSUME NEW c \in Client, UpgradeAccept(c) PROVE Types'
    BY <1>17 DEF UpgradeAccept
<1>18. ASSUME NEW c \in Client, ReadEnds(c) PROVE Types'
    BY <1>18 DEF ReadEnds
<1>19. ASSUME NEW c \in Client, ReadUnregister(c) PROVE Types'
    BY <1>19 DEF ReadUnregister
<1>20. ASSUME NEW c \in Client, ReadAbandon(c) PROVE Types'
    BY <1>20 DEF ReadAbandon
<1>21. ASSUME NEW c \in Client, WatchContext(c) PROVE Types'
    BY <1>21 DEF WatchContext
<1>22. ASSUME NEW c \in Client, WriteFlush(c) PROVE Types'
    BY <1>22 DEF WriteFlush
<1>23. ASSUME NEW c \in Client, WriteCloseFrame(c) PROVE Types'
    BY <1>23 DEF WriteCloseFrame
<1>24. ASSUME NEW c \in Client, WriteEnds(c) PROVE Types'
    BY <1>24 DEF WriteEnds
<1>25. ASSUME NEW c \in Client, CloseWithCode(c) PROVE Types'
    BY <1>25 DEF CloseWithCode, CloseAll
<1>26. ASSUME NEW c \in Client, Reaps(c) PROVE Types'
    BY <1>26 DEF Reaps, CloseAll
<1>27. ASSUME NEW d \in Drainer, Drain(d) PROVE Types'
    BY <1>27 DEF Drain
<1>28. ASSUME NEW d \in Drainer, DrainCheck(d) PROVE Types'
    BY <1>28 DEF DrainCheck
<1>29. ASSUME NEW d \in Drainer, DrainReturn(d) \/ DrainLost(d) PROVE Types'
    BY <1>29 DEF DrainReturn, DrainLost
<1>30. ASSUME NEW d \in Drainer, DrainExpire(d) PROVE Types'
    BY <1>30 DEF DrainExpire
<1>31. ASSUME ReaperExit PROVE Types'
    BY <1>31 DEF ReaperExit
<1>32. ASSUME Shutdown PROVE Types'
    BY <1>32 DEF Shutdown
<1>33. ASSUME ShutdownSignal PROVE Types'
    BY <1>33 DEF ShutdownSignal
<1>34. ASSUME ShutdownCancel PROVE Types'
    BY <1>34 DEF ShutdownCancel
<1>35. ASSUME ShutdownReturn PROVE Types'
    BY <1>35 DEF ShutdownReturn
<1>36. ASSUME ShutdownExpire PROVE Types'
    BY <1>36 DEF ShutdownExpire
<1>37. ASSUME UNCHANGED vars PROVE Types'
    BY <1>37 DEF vars
<1> QED
    BY <1>1, <1>2, <1>3, <1>4, <1>5, <1>6, <1>7, <1>8, <1>9, <1>10, <1>11,
       <1>12, <1>13, <1>14, <1>15, <1>16, <1>17, <1>18, <1>19, <1>20, <1>21,
       <1>22, <1>23, <1>24, <1>25, <1>26, <1>27, <1>28, <1>29, <1>30, <1>31,
       <1>32, <1>33, <1>34, <1>35, <1>36, <1>37 DEF Next, RunStep, ClientStep,
       UpgradeStep, DrainStep, ShutdownStep

\* Every step keeps the admission bookkeeping.  Only the steps of Run, the
\* sends on its channels and the outcomes of UpgradeConnection matter.
LEMMA AdmissionStep == Types /\ Admission /\ [Next]_vars => Admission'
<1> SUFFICES ASSUME Types, Admission, [Next]_vars PROVE Admission'
    OBVIOUS
<1> USE LifecycleAssumption DEF Types, Admission, RunInv, ClientInv
<1>1. ASSUME RunStart PROVE Admission'
    BY <1>1 DEF RunStart
<1>2. ASSUME RegisterDone PROVE Admission'
    BY <1>2 DEF RegisterDone
<1>3. ASSUME UnregisterCount PROVE Admission'
    BY <1>3 DEF UnregisterCount
<1>4. ASSUME UnregisterSignal PROVE Admission'
    BY <1>4 DEF UnregisterSignal
<1>5. ASSUME UnregisterClose PROVE Admission'
    BY <1>5 DEF UnregisterClose
<1>6. ASSUME RebuildSnapshot PROVE Admission'
    BY <1>6 DEF RebuildSnapshot
<1>7. ASSUME RunExit PROVE Admission'
    BY <1>7 DEF RunExit, CloseAll
<1>8. ASSUME NEW c \in Client, RefuseRegister(c) PROVE Admission'
    BY <1>8 DEF RefuseRegister, CanTake
<1>9. ASSUME NEW c \in Client, AdmitRegister(c) PROVE Admission'
    BY <1>9 DEF AdmitRegister, CanTake
<1>10. ASSUME NEW c \in Client, TakeUnregister(c) PROVE Admission'
    BY <1>10 DEF TakeUnregister, CanTake
<1>11. ASSUME NEW c \in Client, UpgradeConn(c) PROVE Admission'
    BY <1>11 DEF UpgradeConn
<1>12. ASSUME NEW c \in Client, UpgradeSend(c) PROVE Admission'
    BY <1>12 DEF UpgradeSend
<1>13. ASSUME NEW c \in Client, UpgradeAbort(c) PROVE Admission'
    BY <1>13 DEF UpgradeAbort
<1>14. ASSUME NEW c \in Client, UpgradeRefused(c) PROVE Admission'
    BY <1>14 DEF UpgradeRefused
<1>15. ASSUME NEW c \in Client, UpgradeAccept(c) PROVE Admission'
    BY <1>15 DEF UpgradeAccept
<1>16. ASSUME NEW c \in Client, ReadUnregister(c) PROVE Admission'
    BY <1>16 DEF ReadUnregister
<1>17. ASSUME
          \/ ReaperExit \/ Shutdown \/ ShutdownSignal \/ ShutdownCancel
          \/ ShutdownReturn \/ ShutdownExpire
     PROVE  Admission'
    BY <1>17 DEF ReaperExit, Shutdown, ShutdownSignal, ShutdownCancel,
       ShutdownReturn, ShutdownExpire
<1>18. ASSUME NEW c \in Client,
          \/ UpgradeCheck(c) \/ UpgradeReject(c) \/ ReadEnds(c)
          \/ ReadAbandon(c) \/ WatchContext(c) \/ WriteFlush(c)
          \/ WriteCloseFrame(c) \/ WriteEnds(c) \/ CloseWithCode(c)
          \/ Reaps(c)
     PROVE  Admission'
    BY <1>18 DEF UpgradeCheck, UpgradeReject, ReadEnds, ReadAbandon,
       WatchContext, WriteFlush, WriteCloseFrame, WriteEnds, CloseWithCode,
       CloseAll, Reaps
<1>19. ASSUME NEW d \in Drainer,
          \/ Drain(d) \/ DrainLost(d) \/ DrainCheck(d) \/ DrainReturn(d)
          \/ DrainExpire(d)
     PROVE  Admission'
    BY <1>19 DEF Drain, DrainLost, DrainCheck, DrainReturn, DrainExpire
<1>20. ASSUME UNCHANGED vars PROVE Admission'
    BY <1>20 DEF vars
<1> QED
    BY <1>1, <1>2, <1>3, <1>4, <1>5, <1>6, <1>7, <1>8, <1>9, <1>10, <1>11,
       <1>12, <1>13, <1>14, <1>15, <1>16, <1>17, <1>18, <1>19, <1>20 DEF Next,
       RunStep, ClientStep, UpgradeStep, DrainStep, ShutdownStep

-----------------------------------------------------------------------------
\* Any set of clients is finite.
LEMMA ClientsFinite == Types => IsFiniteSet(clients)
    BY LifecycleAssumption, FS_Subset DEF Types

\* The updates of h.clients and h.clientCount keep the two in step: Run adds
\* only new clients and removes only registered ones.
LEMMA CountStep ==
    Types /\ Admission /\ CountTracksClients /\ [Next]_vars => CountTracksClients'
<1> SUFFICES ASSUME Types, Admission, CountTracksClients, [Next]_vars
             PROVE  CountTracksClients'
    OBVIOUS
<1> USE DEF Types, CountTracksClients
<1>0. IsFiniteSet(clients) /\ Cardinality(clients) \in Nat
    BY ClientsFinite, FS_CardinalityType
<1>1. ASSUME RunStart PROVE CountTracksClients'
    BY <1>0, <1>1 DEF RunStart
<1>2. ASSUME RegisterDone PROVE CountTracksClients'
    BY <1>0, <1>2 DEF RegisterDone
<1>3. ASSUME UnregisterCount PROVE CountTracksClients'
    BY <1>0, <1>3 DEF UnregisterCount
<1>4. ASSUME UnregisterSignal PROVE CountTracksClients'
    BY <1>0, <1>4 DEF UnregisterSignal
<1>5. ASSUME UnregisterClose PROVE CountTracksClients'
    BY <1>0, <1>5 DEF UnregisterClose
<1>6. ASSUME RebuildSnapshot PROVE CountTracksClients'
    BY <1>0, <1>6 DEF RebuildSnapshot
<1>7. ASSUME RunExit PROVE CountTracksClients'
    BY <1>0, <1>7 DEF RunExit, CloseAll
<1>8. ASSUME NEW c \in Client, RefuseRegister(c) PROVE CountTracksClients'
    BY <1>0, <1>8 DEF RefuseRegister, CanTake
<1>9. ASSUME NEW c \in Client, AdmitRegister(c) PROVE CountTracksClients'
    <2>1. c \notin clients
        BY <1>9 DEF AdmitRegister, Admission, ClientInv
    <2>2. Cardinality(clients') = Cardinality(clients) + 1
        BY <1>9, <1>0, <2>1, FS_AddElement DEF AdmitRegister
    <2> QED
        BY <1>9, <1>0, <2>2 DEF AdmitRegister, CanTake
<1>10. ASSUME NEW c \in Client, TakeUnregister(c) PROVE CountTracksClients'
    <2>0. run.pc \in {"select", "drain"} /\ count' = count
        BY <1>10 DEF TakeUnregister, CanTake
    <2>1. CASE c \in clients
        <3>1. Cardinality(clients') = Cardinality(clients) - 1
            BY <1>10, <1>0, <2>1, FS_RemoveElement DEF TakeUnregister
        <3>2. run'.pc = "unregCount"
            BY <1>10, <2>1 DEF TakeUnregister
        <3> QED
            BY <1>0, <2>0, <3>1, <3>2
    <2>2. CASE c \notin clients
        BY <1>10, <2>0, <2>2 DEF TakeUnregister
    <2> QED
        BY <2>1, <2>2
<1>11. ASSUME
          \/ ReaperExit \/ Shutdown \/ ShutdownSignal \/ ShutdownCancel
          \/ ShutdownReturn \/ ShutdownExpire
     PROVE  CountTracksClients'
    BY <1>0, <1>11 DEF ReaperExit, Shutdown, ShutdownSignal,
       ShutdownCancel, ShutdownReturn, ShutdownExpire
<1>12. ASSUME NEW c \in Client,
          \/ UpgradeCheck(c) \/ UpgradeReject(c) \/ UpgradeConn(c)
          \/ UpgradeSend(c) \/ UpgradeAbort(c) \/ UpgradeRefused(c)
          \/ UpgradeAccept(c) \/ ReadEnds(c) \/ ReadUnregister(c)
          \/ ReadAbandon(c) \/ WatchContext(c) \/ WriteFlush(c)
          \/ WriteCloseFrame(c) \/ WriteEnds(c) \/ CloseWithCode(c)
          \/ Reaps(c)
     PROVE  CountTracksClients'
    BY <1>0, <1>12 DEF UpgradeCheck, UpgradeReject, UpgradeConn,
       UpgradeSend, UpgradeAbort, UpgradeRefused, UpgradeAccept, ReadEnds,
       ReadUnregister, ReadAbandon, WatchContext, WriteFlush, WriteCloseFrame,
       WriteEnds, CloseWithCode, CloseAll, Reaps
<1>13. ASSUME NEW d \in Drainer,
          \/ Drain(d) \/ DrainLost(d) \/ DrainCheck(d) \/ DrainReturn(d)
          \/ DrainExpire(d)
     PROVE  CountTracksClients'
    BY <1>0, <1>13 DEF Drain, DrainLost, DrainCheck, DrainReturn, DrainExpire
<1>14. ASSUME UNCHANGED vars PROVE CountTracksClients'
    BY <1>0, <1>14 DEF vars
<1> QED
    BY <1>1, <1>2, <1>3, <1>4, <1>5, <1>6, <1>7, <1>8, <1>9, <1>10, <1>11,
       <1>12, <1>13, <1>14 DEF Next, RunStep, ClientStep, UpgradeStep,
       DrainStep, ShutdownStep

\* No step loses a drain completion: Run decrements before it looks at the
\* state, Drain changes the state before it looks at the count.
LEMMA SignalStep ==
    Types /\ count >= 0 /\ NoLostDrainSignal /\ [Next]_vars => NoLostDrainSignal'
<1> SUFFICES ASSUME Types, count >= 0, NoLostDrainSignal, [Next]_vars
             PROVE  NoLostDrainSignal'
    OBVIOUS
<1> USE DEF Types, NoLostDrainSignal
<1>1. ASSUME RegisterDone PROVE NoLostDrainSignal'
    BY <1>1 DEF RegisterDone
<1>2. ASSUME UnregisterCount PROVE NoLostDrainSignal'
    BY <1>2 DEF UnregisterCount
<1>3. ASSUME UnregisterSignal PROVE NoLostDrainSignal'
    BY <1>3 DEF UnregisterSignal
<1>4. ASSUME NEW d \in Drainer, Drain(d) PROVE NoLostDrainSignal'
    BY <1>4 DEF Drain
<1>5. ASSUME NEW d \in Drainer, DrainCheck(d) PROVE NoLostDrainSignal'
    BY <1>5 DEF DrainCheck
<1>6. ASSUME NEW d \in Drainer, DrainReturn(d) \/ DrainLost(d)
      PROVE  NoLostDrainSignal'
    BY <1>6 DEF DrainReturn, DrainLost
<1>7. ASSUME NEW d \in Drainer, DrainExpire(d) PROVE NoLostDrainSignal'
    BY <1>7 DEF DrainExpire
<1>8. ASSUME
          \/ RunStart \/ UnregisterClose \/ RebuildSnapshot \/ RunExit
          \/ ReaperExit \/ Shutdown \/ ShutdownSignal \/ ShutdownCancel
          \/ ShutdownReturn \/ ShutdownExpire
     PROVE  NoLostDrainSignal'
    BY <1>8 DEF RunStart, UnregisterClose, RebuildSnapshot, RunExit,
       CloseAll, ReaperExit, Shutdown, ShutdownSignal, ShutdownCancel,
       ShutdownReturn, ShutdownExpire
<1>9. ASSUME NEW c \in Client,
          \/ RefuseRegister(c) \/ AdmitRegister(c) \/ TakeUnregister(c)
          \/ UpgradeCheck(c) \/ UpgradeReject(c) \/ UpgradeConn(c)
          \/ UpgradeSend(c) \/ UpgradeAbort(c) \/ UpgradeRefused(c)
          \/ UpgradeAccept(c) \/ ReadEnds(c) \/ ReadUnregister(c)
          \/ ReadAbandon(c) \/ WatchContext(c) \/ WriteFlush(c)
          \/ WriteCloseFrame(c) \/ WriteEnds(c) \/ CloseWithCode(c)
          \/ Reaps(c)
     PROVE  NoLostDrainSignal'
    BY <1>9 DEF RefuseRegister, CanTake, AdmitRegister, TakeUnregister,
       UpgradeCheck, UpgradeReject, UpgradeConn, UpgradeSend, UpgradeAbort,
       UpgradeRefused, UpgradeAccept, ReadEnds, ReadUnregister, ReadAbandon,
       WatchContext, WriteFlush, WriteCloseFrame, WriteEnds, CloseWithCode,
       CloseAll, Reaps
<1>10. ASSUME UNCHANGED vars PROVE NoLostDrainSignal'
    BY <1>10 DEF vars
<1> QED
    BY <1>1, <1>2, <1>3, <1>4, <1>5, <1>6, <1>7, <1>8, <1>9, <1>10 DEF
       Next, RunStep, ClientStep, UpgradeStep, DrainStep, ShutdownStep

\* Run admits a client only below the limit.
LEMMA LimitStep ==
    Types /\ ConnectionLimit /\ [Next]_vars => ConnectionLimit'
<1> SUFFICES ASSUME Types, ConnectionLimit, [Next]_vars PROVE ConnectionLimit'
    OBVIOUS
<1> USE LifecycleAssumption DEF ConnectionLimit
<1>0. IsFiniteSet(clients) /\ Cardinality(clients) \in Nat
    BY ClientsFinite, FS_CardinalityType
<1>1. ASSUME NEW c \in Client, AdmitRegister(c) PROVE ConnectionLimit'
    <2>1. clients' = clients \cup {c} /\ ~AtLimit
        BY <1>1 DEF AdmitRegister
    <2>2. Cardinality(clients \cup {c}) =
             IF c \in clients THEN Cardinality(clients) ELSE Cardinality(clients) + 1
        BY <1>0, FS_AddElement
    <2> QED
        BY <1>0, <2>1, <2>2 DEF AtLimit
<1>2. ASSUME NEW c \in Client, TakeUnregister(c) PROVE ConnectionLimit'
    <2>1. clients' = clients \ {c}
        BY <1>2 DEF TakeUnregister
    <2>2. Cardinality(clients \ {c}) =
             IF c \in clients THEN Cardinality(clients) - 1 ELSE Cardinality(clients)
        BY <1>0, FS_RemoveElement
    <2> QED
        BY <1>0, <2>1, <2>2
<1>3. ASSUME
          \/ RunStart \/ RegisterDone \/ UnregisterCount \/ UnregisterSignal
          \/ UnregisterClose \/ RebuildSnapshot \/ RunExit \/ ReaperExit
          \/ Shutdown \/ ShutdownSignal \/ ShutdownCancel \/ ShutdownReturn
          \/ ShutdownExpire
     PROVE  ConnectionLimit'
    BY <1>0, <1>3 DEF RunStart, RegisterDone, UnregisterCount,
       UnregisterSignal, UnregisterClose, RebuildSnapshot, RunExit, CloseAll,
       ReaperExit, Shutdown, ShutdownSignal, ShutdownCancel, ShutdownReturn,
       ShutdownExpire
<1>4. ASSUME NEW c \in Client,
          \/ RefuseRegister(c) \/ UpgradeCheck(c) \/ UpgradeReject(c)
          \/ UpgradeConn(c) \/ UpgradeSend(c) \/ UpgradeAbort(c)
          \/ UpgradeRefused(c) \/ UpgradeAccept(c) \/ ReadEnds(c)
          \/ ReadUnregister(c) \/ ReadAbandon(c) \/ WatchContext(c)
          \/ WriteFlush(c) \/ WriteCloseFrame(c) \/ WriteEnds(c)
          \/ CloseWithCode(c) \/ Reaps(c)
     PROVE  ConnectionLimit'
    BY <1>0, <1>4 DEF RefuseRegister, CanTake, UpgradeCheck, UpgradeReject,
       UpgradeConn, UpgradeSend, UpgradeAbort, UpgradeRefused, UpgradeAccept,
       ReadEnds, ReadUnregister, ReadAbandon, WatchContext, WriteFlush,
       WriteCloseFrame, WriteEnds, CloseWithCode, CloseAll, Reaps
<1>5. ASSUME NEW d \in Drainer,
          \/ Drain(d) \/ DrainLost(d) \/ DrainCheck(d) \/ DrainReturn(d)
          \/ DrainExpire(d)
     PROVE  ConnectionLimit'
    BY <1>0, <1>5 DEF Drain, DrainLost, DrainCheck, DrainReturn, DrainExpire
<1>6. ASSUME UNCHANGED vars PROVE ConnectionLimit'
    BY <1>0, <1>6 DEF vars
<1> QED
    BY <1>1, <1>2, <1>3, <1>4, <1>5, <1>6 DEF Next, RunStep, ClientStep,
       UpgradeStep, DrainStep, ShutdownStep

-----------------------------------------------------------------------------
\* An open connection is passed from UpgradeConnection to the pumps, and the
\* last pump to stop closes it.
LEMMA OwnerStep == Types /\ ConnHasOwner /\ [Next]_vars => ConnHasOwner'
<1> SUFFICES ASSUME Types, ConnHasOwner, [Next]_vars PROVE ConnHasOwner'
    OBVIOUS
<1> USE DEF Types, ConnHasOwner, PumpsDone
<1>1. ASSUME
          \/ RunStart \/ RegisterDone \/ UnregisterCount \/ UnregisterSignal
          \/ RebuildSnapshot \/ RunExit \/ ReaperExit
          \/ Shutdown \/ ShutdownSignal \/ ShutdownCancel \/ ShutdownReturn
          \/ ShutdownExpire
      PROVE  ConnHasOwner'
    BY <1>1 DEF RunStart, RegisterDone, UnregisterCount, UnregisterSignal,
       RebuildSnapshot, RunExit, ReaperExit, Shutdown, ShutdownSignal,
       ShutdownCancel, ShutdownReturn, ShutdownExpire
<1>2. ASSUME UnregisterClose PROVE ConnHasOwner'
    BY <1>2 DEF UnregisterClose
<1>3. ASSUME NEW c \in Client, RefuseRegister(c) \/ AdmitRegister(c) \/ TakeUnregister(c)
      PROVE  ConnHasOwner'
    BY <1>3 DEF RefuseRegister, AdmitRegister, TakeUnregister
<1>4. ASSUME NEW c \in Client,
          \/ UpgradeCheck(c) \/ UpgradeReject(c) \/ UpgradeConn(c) \/ UpgradeSend(c)
      PROVE  ConnHasOwner'
    BY <1>4 DEF UpgradeCheck, UpgradeReject, UpgradeConn, UpgradeSend
<1>5. ASSUME NEW c \in Client, UpgradeAbort(c) \/ UpgradeRefused(c) \/ UpgradeAccept(c)
      PROVE  ConnHasOwner'
    BY <1>5 DEF UpgradeAbort, UpgradeRefused, UpgradeAccept
<1>6. ASSUME NEW c \in Client,
          \/ ReadEnds(c) \/ ReadUnregister(c) \/ ReadAbandon(c) \/ WatchContext(c)
      PROVE  ConnHasOwner'
    BY <1>6 DEF ReadEnds, ReadUnregister, ReadAbandon, WatchContext
<1>7. ASSUME NEW c \in Client, WriteFlush(c) \/ WriteCloseFrame(c) \/ WriteEnds(c)
      PROVE  ConnHasOwner'
    BY <1>7 DEF WriteFlush, WriteCloseFrame, WriteEnds
<1>8. ASSUME NEW c \in Client, CloseWithCode(c) \/ Reaps(c) PROVE ConnHasOwner'
    BY <1>8 DEF CloseWithCode, Reaps
<1>9. ASSUME NEW d \in Drainer,
          \/ Drain(d) \/ DrainLost(d) \/ DrainCheck(d) \/ DrainReturn(d)
          \/ DrainExpire(d)
      PROVE  ConnHasOwner'
    BY <1>9 DEF Drain, DrainLost, DrainCheck, DrainReturn, DrainExpire
<1>10. ASSUME UNCHANGED vars PROVE ConnHasOwner'
    BY <1>10 DEF vars
<1> QED
    BY <1>1, <1>2, <1>3, <1>4, <1>5, <1>6, <1>7, <1>8, <1>9, <1>10
       DEF Next, RunStep, ClientStep, UpgradeStep, DrainStep, ShutdownStep

\* While the peers stay and the hub is up, only writePump closes the connection
\* of an accepted client, and it writes the close frame first: the read pump
\* stops after that, and Run closes what the read pump has handed in.
Wired(c) ==
    /\ wp[c] # "none" => up[c] = "accepted"
    /\ up[c] \in {"upgraded", "waiting"} => conn[c] = "open"
    /\ closing[c] = "abrupt" => rp[c] = "done"
    /\ ~PeerFails /\ ~ctxDone =>
          /\ wp[c] \in {"running", "flushing"} => conn[c] = "open" /\ rp[c] = "reading"
          /\ wp[c] = "done" => c \in framed

\* Run closes only connections whose read pump has ended.
Wiring ==
    /\ run.pc \in {"unregCount", "unregSignal", "unregClose"} => rp[run.client] = "done"
    /\ \A c \in Client : Wired(c)

\* Every step keeps the wiring.
LEMMA WiringStep == Types /\ Admission /\ Wiring /\ [Next]_vars => Wiring'
<1> SUFFICES ASSUME Types, Admission, Wiring, [Next]_vars PROVE Wiring'
    OBVIOUS
<1> USE LifecycleAssumption DEF Types, Wiring, Wired
<1>1. ASSUME
          \/ RunStart \/ RegisterDone \/ UnregisterCount \/ UnregisterSignal
          \/ RebuildSnapshot \/ ReaperExit
          \/ Shutdown \/ ShutdownSignal \/ ShutdownReturn \/ ShutdownExpire
      PROVE  Wiring'
    <2>1. UNCHANGED <<up, conn, closing, rp, wp, framed, ctxDone>>
        BY <1>1 DEF RunStart, RegisterDone, UnregisterCount, UnregisterSignal,
           RebuildSnapshot, ReaperExit, Shutdown, ShutdownSignal,
           ShutdownReturn, ShutdownExpire, hubVars, connVars
    <2>2. run'.pc \in {"unregCount", "unregSignal", "unregClose"}
             => /\ run.pc \in {"unregCount", "unregSignal", "unregClose"}
                /\ run'.client = run.client
        BY <1>1 DEF RunStart, RegisterDone, UnregisterCount, UnregisterSignal,
           RebuildSnapshot, ReaperExit, Shutdown, ShutdownSignal,
           ShutdownReturn, ShutdownExpire, runVars, At
    <2> QED
        BY <2>1, <2>2
<1>2. ASSUME ShutdownCancel PROVE Wiring'
    BY <1>2 DEF ShutdownCancel
<1>3. ASSUME UnregisterClose PROVE Wiring'
    BY <1>3 DEF UnregisterClose, Admission, ClientInv
<1>4. ASSUME NEW c \in Client, RefuseRegister(c) \/ AdmitRegister(c) PROVE Wiring'
    BY <1>4 DEF RefuseRegister, AdmitRegister
<1>5. ASSUME NEW c \in Client, TakeUnregister(c) PROVE Wiring'
    BY <1>5 DEF TakeUnregister, Admission, ClientInv
<1>6. ASSUME NEW c \in Client,
          \/ UpgradeCheck(c) \/ UpgradeReject(c) \/ UpgradeConn(c) \/ UpgradeSend(c)
      PROVE  Wiring'
    BY <1>6 DEF UpgradeCheck, UpgradeReject, UpgradeConn, UpgradeSend
<1>7. ASSUME NEW c \in Client, UpgradeAbort(c) \/ UpgradeRefused(c) PROVE Wiring'
    BY <1>7 DEF UpgradeAbort, UpgradeRefused
<1>8. ASSUME NEW c \in Client, UpgradeAccept(c) PROVE Wiring'
    BY <1>8 DEF UpgradeAccept, Admission, ClientInv
<1>9. ASSUME NEW c \in Client,
          \/ ReadEnds(c) \/ ReadUnregister(c) \/ ReadAbandon(c) \/ WatchContext(c)
      PROVE  Wiring'
    BY <1>9 DEF ReadEnds, ReadUnregister, ReadAbandon, WatchContext, Admission, ClientInv
<1>10. ASSUME NEW c \in Client, WriteFlush(c) \/ WriteCloseFrame(c) \/ WriteEnds(c)
      PROVE  Wiring'
    <2>1. CASE WriteFlush(c)
        BY <2>1 DEF WriteFlush
    <2>2. CASE WriteCloseFrame(c)
        BY <2>2 DEF WriteCloseFrame
    <2>3. CASE WriteEnds(c)
        BY <2>3 DEF WriteEnds
    <2> QED
        BY <1>10, <2>1, <2>2, <2>3
<1>11. ASSUME NEW c \in Client, CloseWithCode(c) \/ Reaps(c) PROVE Wiring'
    BY <1>11 DEF CloseWithCode, Reaps, CloseAll
<1>12. ASSUME NEW d \in Drainer,
          \/ Drain(d) \/ DrainLost(d) \/ DrainCheck(d) \/ DrainReturn(d)
          \/ DrainExpire(d)
      PROVE  Wiring'
    BY <1>12 DEF Drain, DrainLost, DrainCheck, DrainReturn, DrainExpire
<1>13. ASSUME RunExit PROVE Wiring'
    BY <1>13 DEF RunExit, CloseAll, At
<1>14. ASSUME UNCHANGED vars PROVE Wiring'
    BY <1>14 DEF vars
<1> QED
    BY <1>1, <1>2, <1>3, <1>4, <1>5, <1>6, <1>7, <1>8, <1>9, <1>10, <1>11, <1>12, <1>13, <1>14
       DEF Next, RunStep, ClientStep, UpgradeStep, DrainStep, ShutdownStep

-----------------------------------------------------------------------------
\* The inductive invariant.
IInv ==
    /\ Types /\ Admission /\ CountTracksClients
    /\ NoLostDrainSignal /\ ConnectionLimit

\* The count is never negative: Run subtracts only what it has added.
LEMMA CountNotNegative == Types /\ Admission /\ CountTracksClients => count >= 0
<1> SUFFICES ASSUME Types, Admission, CountTracksClients PROVE count >= 0
    OBVIOUS
<1>1. IsFiniteSet(clients) /\ Cardinality(clients) \in Nat
    BY ClientsFinite, FS_CardinalityType
<1>2. CASE run.pc = "regCount"
    <2>1. clients # {}
        BY <1>2 DEF Admission, RunInv
    <2>2. Cardinality(clients) >= 1
        BY <1>1, <2>1, FS_EmptySet
    <2> QED
        BY <1>1, <1>2, <2>2 DEF CountTracksClients
<1>3. CASE run.pc # "regCount"
    BY <1>1, <1>3 DEF CountTracksClients
<1> QED
    BY <1>2, <1>3

\* The initial state satisfies it.
LEMMA InitIInv == Init => IInv
<1> SUFFICES ASSUME Init PROVE IInv
    OBVIOUS
<1> USE LifecycleAssumption DEF Init
<1>1. Types
    <2>1. /\ run \in [pc : RunPCs, client : Client \cup {None}]
          /\ run.client # None
                <=> run.pc \in {"regCount", "unregCount", "unregSignal", "unregClose"}
        BY DEF RunPCs
    <2>2. /\ result \in [Client -> {"none", "ok", "err"}]
          /\ up \in [Client -> {"none", "checked", "upgraded", "waiting",
                               "accepted", "failed"}]
          /\ conn \in [Client -> {"none", "open", "closed"}]
          /\ closing \in [Client -> {"open", "graceful", "abrupt"}]
        OBVIOUS
    <2>3. /\ rp \in [Client -> {"none", "reading", "leaving", "done"}]
          /\ wp \in [Client -> {"none", "running", "flushing", "done"}]
          /\ dr \in [Drainer -> {"idle", "won", "lost", "wait", "nil", "err"}]
        OBVIOUS
    <2>4. /\ hubState \in {"running", "draining", "stopped"}
          /\ ctxDone \in BOOLEAN /\ drainDone \in BOOLEAN
          /\ sd \in {"idle", "stored", "signalled", "wait", "nil", "err"}
          /\ reaper \in {"none", "running", "done"}
        OBVIOUS
    <2>5. /\ clients \subseteq Client /\ snapshot \subseteq Client
          /\ notified \subseteq Client /\ framed \subseteq Client
          /\ register \subseteq Client /\ unregister \subseteq Client
          /\ count \in Int
        OBVIOUS
    <2> HIDE DEF Init
    <2> QED
        BY <2>1, <2>2, <2>3, <2>4, <2>5 DEF Types
<1>2. Admission
    BY DEF Admission, RunInv, ClientInv
<1>3. CountTracksClients
    BY FS_EmptySet DEF CountTracksClients
<1>4. NoLostDrainSignal /\ ConnectionLimit
    BY FS_EmptySet DEF NoLostDrainSignal, ConnectionLimit
<1> QED
    BY <1>1, <1>2, <1>3, <1>4 DEF IInv

\* The conjunction is inductive, so it holds of every reachable state of a hub
\* with any number of clients and of Drain callers.
THEOREM Invariance == Spec => []IInv
<1>1. IInv /\ [Next]_vars => IInv'
    BY TypesStep, AdmissionStep, CountStep, CountNotNegative, SignalStep,
       LimitStep DEF IInv
<1> QED
    BY <1>1, InitIInv, PTL DEF Spec

\* Every variable keeps its type and clientCount never goes below zero,
\* for any number of clients and of concurrent upgrades.
THEOREM TypeCorrect == Spec => []TypeOK
<1>1. IInv => TypeOK
    BY CountNotNegative DEF IInv, TypeOK
<1> QED
    BY <1>1, Invariance, PTL

\* clientCount follows h.clients.
THEOREM CountCorrect == Spec => []CountTracksClients
<1>1. IInv => CountTracksClients
    BY DEF IInv
<1> QED
    BY <1>1, Invariance, PTL

\* The limit of handleRegister holds whatever the fast path let through.
THEOREM LimitHolds == Spec => []ConnectionLimit
<1>1. IInv => ConnectionLimit
    BY DEF IInv
<1> QED
    BY <1>1, Invariance, PTL

\* A drain is never left waiting for a signal nobody will give.
THEOREM DrainSignalNotLost == Spec => []NoLostDrainSignal
<1>1. IInv => NoLostDrainSignal
    BY DEF IInv
<1> QED
    BY <1>1, Invariance, PTL

\* Run can find, and close, every connection that has a read pump.
THEOREM PumpsRegistered == Spec => []PumpedIsRegistered
<1>1. IInv => PumpedIsRegistered
    BY DEF IInv, Admission, ClientInv, PumpedIsRegistered
<1> QED
    BY <1>1, Invariance, PTL

\* Running, Draining, Stopped: the state only moves forward.
THEOREM NoRegress == Spec => StateNeverRegresses
<1>1. Types /\ [Next]_vars => [Rank[hubState'] >= Rank[hubState]]_vars
    <2> SUFFICES ASSUME Types, [Next]_vars
                 PROVE  [Rank[hubState'] >= Rank[hubState]]_vars
        OBVIOUS
    <2>1. \/ hubState' = hubState
          \/ hubState = "running" /\ hubState' = "draining"
          \/ hubState' = "stopped"
        BY DEF Next, RunStep, ClientStep, UpgradeStep, DrainStep, ShutdownStep,
           RunStart, RegisterDone, UnregisterCount, UnregisterSignal,
           UnregisterClose, RebuildSnapshot, RunExit, RefuseRegister,
           AdmitRegister, TakeUnregister, UpgradeCheck, UpgradeReject,
           UpgradeConn, UpgradeSend, UpgradeAbort, UpgradeRefused,
           UpgradeAccept, ReadEnds, ReadUnregister, ReadAbandon, WatchContext,
           WriteFlush, WriteCloseFrame, WriteEnds, CloseWithCode, Reaps,
           Drain, DrainLost, DrainCheck, DrainReturn, DrainExpire, ReaperExit, Shutdown,
           ShutdownSignal, ShutdownCancel, ShutdownReturn, ShutdownExpire,
           vars
    <2> QED
        BY <2>1 DEF Types, Rank
<1>2. IInv => Types
    BY DEF IInv
<1> QED
    BY <1>1, <1>2, Invariance, PTL DEF Spec, StateNeverRegresses

\* Wherever UpgradeConnection, the pumps, Run, Drain and Shutdown are, an open
\* connection has a goroutine that will close it.
THEOREM ConnOwned == Spec => []ConnHasOwner
<1>1. Init => ConnHasOwner
    BY DEF Init, ConnHasOwner
<1>2. IInv /\ ConnHasOwner /\ [Next]_vars => ConnHasOwner'
    BY OwnerStep DEF IInv
<1> QED
    BY <1>1, <1>2, Invariance, PTL DEF Spec

\* If the peers stay and the hub is not shut down, a client that is closed in an
\* orderly way gets its close frame, whatever else happens to the hub.
THEOREM CloseFramesSent == Spec => []CloseFrameSent
<1>1. Init => Wiring
    BY DEF Init, Wiring, Wired
<1>2. IInv /\ Wiring /\ [Next]_vars => Wiring'
    BY WiringStep DEF IInv
<1>3. Wiring => CloseFrameSent
    BY DEF Wiring, Wired, CloseFrameSent
<1> QED
    BY <1>1, <1>2, <1>3, Invariance, PTL DEF Spec
=============================================================================
