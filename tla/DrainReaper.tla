---------------------------- MODULE DrainReaper ----------------------------
(***************************************************************************)
(* The clock of runDrainReaper, for one client of a draining hub: at every *)
(* tick the reaper looks at len(client.send), remembers when it first saw  *)
(* the buffer empty, and closes the client when that is DrainTimeout ago.  *)
(* Senders fill the buffer and writePump empties it between the ticks.     *)
(*                                                                         *)
(* Clients do not affect each other in firstIdleAt.  Time is discrete; a   *)
(* tick is handled in the unit of time in which it fires.  In module       *)
(* HubLifecycle the reaper may close any client of the snapshot.           *)
(***************************************************************************)
EXTENDS Integers

CONSTANTS
    DrainTimeout,   \* h.drainTimeout, positive: with 0 there is no reaper
    FloorInterval,  \* 100ms, the least time between two ticks
    MaxInstant      \* bound: the clock stops here

ASSUME ReaperAssumption ==
    /\ DrainTimeout \in Nat \ {0} /\ FloorInterval \in Nat \ {0}
    /\ MaxInstant \in Nat

VARIABLES
    instant,      \* now; Drain started the reaper at 0
    nextTick,     \* when the ticker fires next
    reaper,       \* waiting, closing (the client it has looked at), returned
    firstIdleAt,  \* the reaper's entry for the client, or Untracked
    pending,      \* the client's send buffer is not empty
    present,      \* the client is in the snapshot
    closedAt,     \* when the reaper called CloseWithCode, or Untracked
    emptySince,   \* history: since when the buffer has been empty, until the close
    busyTick      \* history: the last tick before the close that saw it not
                  \* empty, or the start

reaperVars == <<instant, nextTick, reaper, firstIdleAt, pending, present,
                closedAt, emptySince, busyTick>>

Untracked == -1

\* max(drainTimeout/4, 100ms)
ReaperInterval ==
    IF DrainTimeout \div 4 > FloorInterval THEN DrainTimeout \div 4
                                           ELSE FloorInterval

ReaperInit ==
    /\ instant = 0 /\ nextTick = ReaperInterval
    /\ reaper = "waiting"
    /\ firstIdleAt = Untracked /\ closedAt = Untracked
    /\ pending \in BOOLEAN /\ present = TRUE
    /\ emptySince = 0 /\ busyTick = 0

\* A message is queued for the client, or writePump takes the last one.
BufferFills ==
    /\ ~pending /\ closedAt = Untracked
    /\ pending' = TRUE
    /\ UNCHANGED <<instant, nextTick, reaper, firstIdleAt, present, closedAt,
                   emptySince, busyTick>>

BufferEmpties ==
    /\ pending
    /\ pending' = FALSE
    /\ emptySince' = IF closedAt = Untracked THEN instant ELSE emptySince
    /\ UNCHANGED <<instant, nextTick, reaper, firstIdleAt, present, closedAt,
                   busyTick>>

\* The client disconnects and Run rebuilds the snapshot without it.
ClientVanishes ==
    /\ present
    /\ present' = FALSE
    /\ UNCHANGED <<instant, nextTick, reaper, firstIdleAt, pending, closedAt,
                   emptySince, busyTick>>

TickKeepsTracking ==
    /\ reaper = "waiting" /\ instant = nextTick
    /\ nextTick' = nextTick + ReaperInterval
    /\ IF ~present \/ pending
       THEN UNCHANGED <<firstIdleAt, reaper>>
       ELSE IF firstIdleAt = Untracked
            THEN firstIdleAt' = instant /\ UNCHANGED reaper
            ELSE /\ reaper' = IF instant - firstIdleAt >= DrainTimeout
                              THEN "closing" ELSE "waiting"
                 /\ UNCHANGED firstIdleAt
    /\ busyTick' = IF pending /\ closedAt = Untracked THEN instant ELSE busyTick
    /\ UNCHANGED <<instant, pending, present, closedAt, emptySince>>

\* A tick: forget the client if it is gone or has pending messages, remember it
\* if it is idle for the first time, decide to close it if that is long enough.
ReaperTick ==
    /\ reaper = "waiting" /\ instant = nextTick
    /\ nextTick' = nextTick + ReaperInterval
    /\ IF ~present \/ pending
       THEN firstIdleAt' = Untracked /\ UNCHANGED reaper
       ELSE IF firstIdleAt = Untracked
            THEN firstIdleAt' = instant /\ UNCHANGED reaper
            ELSE /\ reaper' = IF instant - firstIdleAt >= DrainTimeout
                              THEN "closing" ELSE "waiting"
                 /\ UNCHANGED firstIdleAt
    /\ busyTick' = IF pending /\ closedAt = Untracked THEN instant ELSE busyTick
    /\ UNCHANGED <<instant, pending, present, closedAt, emptySince>>

\* CloseWithCode, by when a message may have been queued; it would be flushed.
ReaperCloses ==
    /\ reaper = "closing"
    /\ closedAt' = IF closedAt = Untracked THEN instant ELSE closedAt
    /\ firstIdleAt' = Untracked
    /\ reaper' = "waiting"
    /\ UNCHANGED <<instant, nextTick, pending, present, emptySince, busyTick>>

\* drainDone is closed, or the hub's context is done.
ReaperReturns ==
    /\ reaper = "waiting"
    /\ reaper' = "returned"
    /\ UNCHANGED <<instant, nextTick, firstIdleAt, pending, present, closedAt,
                   emptySince, busyTick>>

ReaperClock ==
    /\ instant < MaxInstant
    /\ reaper = "returned" \/ (reaper = "waiting" /\ instant < nextTick)
    /\ instant' = instant + 1
    /\ UNCHANGED <<nextTick, reaper, firstIdleAt, pending, present, closedAt,
                   emptySince, busyTick>>

ReaperNext ==
    \/ BufferFills \/ BufferEmpties \/ ClientVanishes
    \/ ReaperTick \/ ReaperCloses \/ ReaperReturns \/ ReaperClock

ReaperSpec == ReaperInit /\ [][ReaperNext]_reaperVars

\* Time passes, and the reaper handles the ticks of its ticker.
FairReaperSpec ==
    /\ ReaperSpec
    /\ WF_reaperVars(ReaperTick) /\ WF_reaperVars(ReaperCloses)
    /\ WF_reaperVars(ReaperClock)

-----------------------------------------------------------------------------
(* Properties                                                              *)

\* What the ticks make of the timeout.  A client is closed only after ticks that
\* span the drain timeout have all found its buffer empty, from one interval after
\* the last tick that found it in use; and while the reaper runs, a client that
\* stays idle is closed within the timeout and two intervals, one to be noticed
\* and one until a tick falls due.
TicksDecide ==
    /\ closedAt # Untracked => closedAt >= busyTick + ReaperInterval + DrainTimeout
    /\ (closedAt = Untracked /\ present /\ ~pending /\ reaper # "returned")
          => instant <= emptySince + DrainTimeout + 2 * ReaperInterval

\* The comment on runDrainReaper: a connection is idle, and is closed, "when its
\* send buffer has been continuously empty for the entire drain timeout duration".
\* (Not held against it: a message that comes and goes while it closes the client.)
ContinuouslyEmpty ==
    closedAt # Untracked =>
        emptySince + DrainTimeout <= closedAt \/ emptySince = closedAt

\* The comment on WithDrainTimeout: it is "the maximum time an idle connection can
\* remain open after Hub.Drain is called".
IdleAtMostTimeout ==
    (closedAt = Untracked /\ present /\ ~pending /\ reaper # "returned")
        => instant <= emptySince + DrainTimeout

\* At least one of the two comments is right about how long an idle connection
\* stays open: no connection is closed early, or none is closed late.
TimeoutAsDocumented == []ContinuouslyEmpty \/ []IdleAtMostTimeout
=============================================================================
