-------------------------- MODULE StandaloneProofs --------------------------
(* Proofs about the parts of a node that share no state with the others: the *)
(* log limiter, the clock of the drain reaper, the user index and the rate   *)
(* limiter, for any intervals, rates, limits and numbers of callers.         *)
EXTENDS UserIndex, RateLimit, LogLimiter, DrainReaper,
        SequenceLemmas, FiniteSetTheorems, TLAPS

-----------------------------------------------------------------------------
(* logLimiter.allow                                                          *)

\* A call that is about to swap has read a time an interval after the last line
\* it has read, and no line is later than l.last.
LogInv ==
    /\ nano \in Nat /\ lastLine \in Nat /\ lines \in Seq(Nat)
    /\ allow \in [Handshake -> [step : {"none", "load", "swap"}, now : Nat, last : Nat]]
    /\ \A h \in Handshake : allow[h].step = "swap" =>
          allow[h].last + LogInterval <= allow[h].now
    /\ \A i \in DOMAIN lines : lines[i] <= lastLine
    /\ LinesSpaced

\* The initial state satisfies the invariant.
LEMMA LogInitOK == LogInit => LogInv
<1> SUFFICES ASSUME LogInit PROVE LogInv
    OBVIOUS
<1>1. lines \in Seq(Nat) /\ DOMAIN lines = {}
    BY DEF LogInit
<1> QED
    BY <1>1, LogAssumption DEF LogInit, LogInv, Waiting, LinesSpaced

\* The compare-and-swap of a handshake succeeds only from the time it has read.
LEMMA SwapKeeps == ASSUME LogInv, NEW h \in Handshake, AllowSwaps(h) PROVE LogInv'
<1>1. /\ allow' = [allow EXCEPT ![h] = Waiting] /\ nano' = nano
      /\ allow[h].step = "swap" /\ allow[h].now \in Nat /\ LogInterval \in Nat
      /\ allow[h].last + LogInterval <= allow[h].now /\ allow[h].last \in Nat
    BY LogAssumption DEF LogInv, AllowSwaps
<1>2. /\ allow' \in [Handshake -> [step : {"none", "load", "swap"}, now : Nat, last : Nat]]
      /\ \A k \in Handshake : allow'[k].step = "swap" =>
            allow'[k].last + LogInterval <= allow'[k].now
    BY <1>1 DEF LogInv, Waiting
<1>3. CASE lastLine = allow[h].last
    <2>1. lastLine' = allow[h].now /\ lines' = Append(lines, lastLine')
        BY <1>3 DEF AllowSwaps
    <2>2. lines \in Seq(Nat) /\ lastLine \in Nat /\ lastLine' \in Nat
        BY <1>1, <2>1 DEF LogInv
    <2>3. lastLine + LogInterval <= lastLine'
        BY <1>1, <1>3, <2>1
    <2>4. /\ lines' \in Seq(Nat) /\ DOMAIN lines' = DOMAIN lines \cup {Len(lines) + 1}
          /\ DOMAIN lines = 1..Len(lines) /\ Len(lines) \in Nat
          /\ \A i \in DOMAIN lines : lines'[i] = lines[i] /\ lines[i] \in Nat
          /\ lines'[Len(lines) + 1] = lastLine'
        BY <2>1, <2>2
    <2>5. \A i \in DOMAIN lines : lines[i] <= lastLine /\ lines[i] + LogInterval <= lastLine'
        BY <1>1, <2>2, <2>3, <2>4 DEF LogInv
    <2>6. \A i \in DOMAIN lines' : lines'[i] <= lastLine'
        BY <1>1, <2>2, <2>4, <2>5
    <2>7. LinesSpaced'
        BY <2>4, <2>5 DEF LogInv, LinesSpaced
    <2> QED
        BY <1>1, <1>2, <2>2, <2>4, <2>6, <2>7 DEF LogInv
<1>4. CASE lastLine # allow[h].last
    BY <1>1, <1>2, <1>4 DEF LogInv, AllowSwaps, LinesSpaced
<1> QED
    BY <1>3, <1>4

\* Every step keeps the invariant.
LEMMA LogStep == LogInv /\ [LogNext]_logVars => LogInv'
<1> SUFFICES ASSUME LogInv, [LogNext]_logVars PROVE LogInv'
    OBVIOUS
<1>1. LogInterval \in Nat
    BY LogAssumption
<1>2. ASSUME NEW h \in Handshake, AllowReadsClock(h) PROVE LogInv'
    BY <1>2 DEF LogInv, AllowReadsClock, LinesSpaced
<1>3. ASSUME NEW h \in Handshake, AllowLoads(h) PROVE LogInv'
    <2>1. /\ allow'[h] = IF allow[h].now < lastLine + LogInterval THEN Waiting
                         ELSE [allow[h] EXCEPT !.step = "swap", !.last = lastLine]
          /\ \A k \in Handshake : k # h => allow'[k] = allow[k]
          /\ allow' \in [Handshake -> [step : {"none", "load", "swap"},
                                       now : Nat, last : Nat]]
        BY <1>3 DEF LogInv, AllowLoads, Waiting
    <2>2. allow[h].now \in Nat /\ lastLine \in Nat
        BY DEF LogInv
    <2>3. allow'[h].step = "swap" => allow'[h].last + LogInterval <= allow'[h].now
        BY <1>1, <2>1, <2>2 DEF LogInv, Waiting
    <2> QED
        BY <1>3, <2>1, <2>3 DEF LogInv, AllowLoads, LinesSpaced
<1>4. ASSUME NEW h \in Handshake, AllowSwaps(h) PROVE LogInv'
    BY <1>4, SwapKeeps
<1>5. CASE LogClock \/ UNCHANGED logVars
    BY <1>5 DEF LogInv, LogClock, logVars, LinesSpaced
<1> QED
    BY <1>2, <1>3, <1>4, <1>5 DEF LogNext

\* However many handshakes fail at the same time, and whatever happens between
\* the three steps of a call, two permitted log lines are an interval apart.
THEOREM LogLinesSpaced == LogSpec => []LinesSpaced
<1>1. LogInv => LinesSpaced
    BY DEF LogInv
<1> QED
    BY LogInitOK, LogStep, <1>1, PTL DEF LogSpec

-----------------------------------------------------------------------------
(* runDrainReaper                                                            *)

\* The ticker is never late, a client is tracked from a tick on which it was
\* idle, at most one interval after its buffer became empty, and the last tick
\* did not find the timeout over, unless the reaper is about to close.
ReaperInv ==
    /\ instant \in Nat /\ nextTick \in Nat /\ busyTick \in Nat /\ emptySince \in Nat
    /\ firstIdleAt \in Nat \cup {Untracked} /\ closedAt \in Nat \cup {Untracked}
    /\ reaper \in {"waiting", "closing", "returned"}
    /\ pending \in BOOLEAN /\ present \in BOOLEAN
    /\ busyTick <= instant /\ busyTick + ReaperInterval <= nextTick /\ emptySince <= instant
    /\ nextTick <= instant + ReaperInterval
    /\ reaper # "returned" => instant <= nextTick
    /\ firstIdleAt # Untracked =>
          busyTick + ReaperInterval <= firstIdleAt /\ firstIdleAt <= instant
    /\ reaper = "waiting" /\ firstIdleAt # Untracked =>
          nextTick < firstIdleAt + DrainTimeout + ReaperInterval
    /\ reaper = "closing" =>
          /\ firstIdleAt # Untracked /\ instant >= firstIdleAt + DrainTimeout
          /\ instant < firstIdleAt + DrainTimeout + ReaperInterval
    /\ closedAt # Untracked => busyTick + ReaperInterval + DrainTimeout <= closedAt
    /\ closedAt = Untracked /\ present /\ ~pending /\ reaper # "returned" =>
          /\ firstIdleAt = Untracked => nextTick <= emptySince + ReaperInterval
          /\ firstIdleAt # Untracked => firstIdleAt <= emptySince + ReaperInterval

\* What the proofs use of the constants.
LEMMA Interval == ReaperInterval \in Nat \ {0} /\ DrainTimeout \in Nat \ {0} /\ Untracked \notin Nat
<1>1. DrainTimeout \in Nat \ {0} /\ FloorInterval \in Nat \ {0}
    BY ReaperAssumption
<1>2. DrainTimeout \div 4 \in Nat
    BY <1>1
<1> QED
    BY <1>1, <1>2 DEF ReaperInterval, Untracked

\* The initial state satisfies the invariant.
LEMMA ReaperInitOK == ReaperInit => ReaperInv
BY Interval DEF ReaperInit, ReaperInv

\* The reaper looks at the clients.
LEMMA TickKeeps == ASSUME ReaperInv, ReaperTick PROVE ReaperInv'
<1> USE Interval
<1>1. /\ reaper = "waiting" /\ instant = nextTick
      /\ nextTick' = nextTick + ReaperInterval
      /\ busyTick' = (IF pending /\ closedAt = Untracked THEN instant ELSE busyTick)
      /\ UNCHANGED <<instant, pending, present, closedAt, emptySince>>
    BY DEF ReaperTick
<1>2. CASE ~present \/ pending
    <2>1. firstIdleAt' = Untracked /\ reaper' = reaper
        BY <1>2 DEF ReaperTick
    <2> QED
        BY <1>1, <1>2, <2>1 DEF ReaperInv
<1>3. CASE present /\ ~pending /\ firstIdleAt = Untracked
    <2>1. firstIdleAt' = instant /\ reaper' = reaper
        BY <1>3 DEF ReaperTick
    <2> QED
        BY <1>1, <1>3, <2>1 DEF ReaperInv
<1>4. CASE present /\ ~pending /\ firstIdleAt # Untracked
    <2>1. /\ firstIdleAt' = firstIdleAt
          /\ reaper' = IF instant - firstIdleAt >= DrainTimeout THEN "closing" ELSE "waiting"
        BY <1>4 DEF ReaperTick
    <2> QED
        BY <1>1, <1>4, <2>1 DEF ReaperInv
<1> QED
    BY <1>2, <1>3, <1>4 DEF ReaperInv

\* Every step keeps the invariant.
LEMMA ReaperStep == ReaperInv /\ [ReaperNext]_reaperVars => ReaperInv'
<1> SUFFICES ASSUME ReaperInv, [ReaperNext]_reaperVars PROVE ReaperInv'
    OBVIOUS
<1> USE Interval
<1>1. CASE BufferFills
    <2>1. pending' = TRUE
        BY <1>1 DEF BufferFills
    <2>2. UNCHANGED <<instant, nextTick, reaper, firstIdleAt, present, closedAt,
                      emptySince, busyTick>>
        BY <1>1 DEF BufferFills
    <2>3. pending' \in BOOLEAN /\ ~(~pending')
        BY <2>1, Zenon
    <2> QED
        BY <2>2, <2>3 DEF ReaperInv
<1>2. CASE BufferEmpties
    <2>1. pending' \in BOOLEAN
        BY <1>2, Zenon DEF BufferEmpties
    <2>2. /\ emptySince' = IF closedAt = Untracked THEN instant ELSE emptySince
          /\ UNCHANGED <<instant, nextTick, reaper, firstIdleAt, present, closedAt, busyTick>>
        BY <1>2 DEF BufferEmpties
    <2> QED
        BY <2>1, <2>2 DEF ReaperInv
<1>3. CASE ClientVanishes
    BY <1>3 DEF ReaperInv, ClientVanishes
<1>4. CASE ReaperTick
    BY <1>4, TickKeeps
<1>5. CASE ReaperCloses
    BY <1>5 DEF ReaperInv, ReaperCloses
<1>6. CASE ReaperReturns
    BY <1>6 DEF ReaperInv, ReaperReturns
<1>7. CASE ReaperClock
    BY <1>7 DEF ReaperInv, ReaperClock
<1>8. CASE UNCHANGED reaperVars
    BY <1>8 DEF ReaperInv, reaperVars
<1> QED
    BY <1>1, <1>2, <1>3, <1>4, <1>5, <1>6, <1>7, <1>8 DEF ReaperNext

\* For every timeout and every least interval between ticks, whatever the client
\* does between them: the reaper closes it only when the ticks of a whole timeout
\* have found its buffer empty, and a client that stays idle is not left open for
\* more than two intervals beyond the timeout.
THEOREM TicksBoundTheClose == ReaperSpec => []TicksDecide
<1>1. ReaperInv => TicksDecide
    BY Interval DEF ReaperInv, TicksDecide
<1> QED
    BY ReaperInitOK, ReaperStep, <1>1, PTL DEF ReaperSpec

-----------------------------------------------------------------------------
(* addToUserIndex, removeFromUserIndex, setClientUserID                      *)

\* The index lists a client under its own ID only, and nobody but a client that
\* Run is about to insert and one that is or was in h.clients.  Listed for sure is
\* the first, and one in h.clients as long as Run does not look at it to remove it.
Listing ==
    /\ \A u \in User : \A c \in userIndex[u] :
          /\ u = userID[c]
          /\ \/ inHub[c] \in {"registered", "gone"}
             \/ handler.client = c /\ handler.step = "insert"
    /\ \A c \in IndexedClient :
          /\ userID[c] \in User
          /\ \/ inHub[c] = "registered" /\ handler.client # c
             \/ handler.client = c /\ handler.step = "insert"
          => c \in userIndex[userID[c]]

\* What Run knows of the client whose register or unregister it handles.
Handling ==
    /\ handler.step = "none" <=> handler.client = Nobody
    /\ handler.step = "insert" => inHub[handler.client] = "new"
    /\ handler.step \in {"unindex", "delete"} => inHub[handler.client] = "registered"
    /\ handler.step = "unindex" => handler.user \in User

\* The type of every variable.
UserTypes ==
    /\ userID \in [IndexedClient -> User \cup {NoUser}]
    /\ userIndex \in [User -> SUBSET IndexedClient]
    /\ inHub \in [IndexedClient -> {"new", "registered", "refused", "gone"}]
    /\ handler \in [step : {"none", "insert", "unindex", "delete"},
                    client : IndexedClient \cup {Nobody}, user : User \cup {NoUser}]

\* The inductive invariant.
UserInv == UserTypes /\ Handling /\ Listing /\ UserLimit

\* The initial state satisfies the invariant.
LEMMA UserInitOK == UserInit => UserInv
<1> SUFFICES ASSUME UserInit PROVE UserInv
    OBVIOUS
<1>1. UserTypes /\ Handling /\ Listing
    BY UserIndexAssumption DEF UserInit, Idling, UserTypes, Handling, Listing
<1>2. UserLimit
    BY FS_EmptySet, UserIndexAssumption DEF UserInit, UserLimit
<1> QED
    BY <1>1, <1>2 DEF UserInv

\* An entry that is not full has room for one client more, and no entry grows
\* by losing a client.
LEMMA EntryWithinLimit ==
    ASSUME UserInv, NEW u \in User, NEW c \in IndexedClient
    PROVE  /\ ~UserFull(u) => (MaxPerUser > 0 => Cardinality(userIndex[u] \cup {c}) <= MaxPerUser)
           /\ MaxPerUser > 0 => Cardinality(userIndex[u] \ {c}) <= MaxPerUser
<1>1. userIndex[u] \subseteq IndexedClient
    BY DEF UserInv, UserTypes
<1>2. IsFiniteSet(userIndex[u])
    BY <1>1, FS_Subset, UserIndexAssumption
<1>3. /\ Cardinality(userIndex[u]) \in Nat /\ MaxPerUser \in Nat
      /\ IsFiniteSet(userIndex[u] \ {c})
    BY <1>2, FS_CardinalityType, FS_Difference, UserIndexAssumption
<1>4. Cardinality(userIndex[u] \cup {c}) =
         IF c \in userIndex[u] THEN Cardinality(userIndex[u]) ELSE Cardinality(userIndex[u]) + 1
    BY <1>2, FS_AddElement
<1>5. Cardinality(userIndex[u] \ {c}) =
         IF c \in userIndex[u] THEN Cardinality(userIndex[u]) - 1 ELSE Cardinality(userIndex[u])
    BY <1>2, FS_RemoveElement
<1>6. MaxPerUser > 0 => Cardinality(userIndex[u]) <= MaxPerUser
    BY DEF UserInv, UserLimit
<1>7. ASSUME ~UserFull(u), MaxPerUser > 0
      PROVE  Cardinality(userIndex[u] \cup {c}) <= MaxPerUser
    <2>1. Cardinality(userIndex[u]) < MaxPerUser
        BY <1>3, <1>7 DEF UserFull
    <2> QED
        BY <1>3, <1>4, <2>1
<1>8. MaxPerUser > 0 => Cardinality(userIndex[u] \ {c}) <= MaxPerUser
    BY <1>3, <1>5, <1>6
<1> QED
    BY <1>7, <1>8

\* handleRegister lists the client under its user.
LEMMA AddToUserIndexKeeps ==
    ASSUME UserInv, NEW c \in IndexedClient, AddToUserIndex(c)
    PROVE  UserInv'
<1> USE DEF UserInv
<1>1. /\ handler.step = "none" /\ handler.client = Nobody /\ inHub[c] = "new"
      /\ handler' = [step |-> "insert", client |-> c, user |-> userID[c]]
      /\ UNCHANGED <<userID, inHub>>
    BY DEF AddToUserIndex, Idling
<1>2. /\ userIndex' \in [User -> SUBSET IndexedClient]
      /\ \A u \in User : userIndex'[u] = IF u = userID[c] THEN userIndex[u] \cup {c}
                                          ELSE userIndex[u]
    BY DEF AddToUserIndex, UserTypes
<1>3. UserTypes'
    BY <1>1, <1>2 DEF UserTypes
<1>4. Handling'
    BY <1>1, UserIndexAssumption DEF Handling
<1>5. Listing'
    BY <1>1, <1>2, UserIndexAssumption DEF Listing, UserTypes
<1>6. UserLimit'
    <2> SUFFICES ASSUME MaxPerUser > 0, NEW u \in User
                 PROVE  Cardinality(userIndex'[u]) <= MaxPerUser
        BY DEF UserLimit
    <2>1. userID[c] = u => ~UserFull(u)
        BY DEF AddToUserIndex
    <2> QED
        BY <1>2, <2>1, EntryWithinLimit DEF UserLimit
<1> QED
    BY <1>3, <1>4, <1>5, <1>6

\* SetUserID moves a client from one user to another.
LEMMA SetClientUserIDKeeps ==
    ASSUME UserInv, NEW c \in IndexedClient, NEW u \in User \cup {NoUser}, SetClientUserID(c, u)
    PROVE  UserInv'
<1> USE DEF UserInv
<1>1. /\ userID' = [userID EXCEPT ![c] = u] /\ u # userID[c]
      /\ UNCHANGED <<inHub, handler>>
    BY DEF SetClientUserID
<1>2. /\ userIndex' \in [User -> SUBSET IndexedClient]
      /\ \A v \in User : userIndex'[v] = IF v = u THEN userIndex[v] \cup {c}
                                          ELSE IF v = userID[c] THEN userIndex[v] \ {c}
                                          ELSE userIndex[v]
    BY DEF SetClientUserID, UserTypes
<1>3. UserTypes'
    BY <1>1, <1>2 DEF UserTypes
<1>4. /\ userID'[c] = u
      /\ \A k \in IndexedClient : k # c => userID'[k] = userID[k]
    BY <1>1 DEF UserTypes
<1>5. Handling'
    BY <1>1 DEF Handling
<1>6. Listing'
    <2>1. \/ inHub[c] \in {"registered", "gone"}
          \/ handler.client = c /\ handler.step = "insert"
        BY DEF SetClientUserID, Known, ClientsByUserID, Listing
    <2>2. ASSUME NEW v \in User, NEW k \in userIndex'[v]
          PROVE  /\ v = userID'[k]
                 /\ \/ inHub[k] \in {"registered", "gone"}
                    \/ handler.client = k /\ handler.step = "insert"
        <3>1. CASE k = c
            <4>1. v = u
                BY <1>2, <3>1 DEF Listing
            <4> QED
                BY <1>4, <2>1, <3>1, <4>1
        <3>2. CASE k # c
            <4>1. k \in userIndex[v] /\ k \in IndexedClient
                BY <1>2, <3>2 DEF UserTypes
            <4> QED
                BY <1>4, <3>2, <4>1 DEF Listing
        <3> QED
            BY <3>1, <3>2
    <2>3. ASSUME NEW k \in IndexedClient, userID'[k] \in User,
                 \/ inHub[k] = "registered" /\ handler.client # k
                 \/ handler.client = k /\ handler.step = "insert"
          PROVE  k \in userIndex'[userID'[k]]
        <3>1. CASE k = c
            BY <1>2, <1>4, <2>3, <3>1
        <3>2. CASE k # c
            <4>1. userID'[k] = userID[k] /\ k \in userIndex[userID[k]]
                BY <1>4, <2>3, <3>2 DEF Listing
            <4> QED
                BY <1>2, <2>3, <3>2, <4>1
        <3> QED
            BY <3>1, <3>2
    <2> QED
        BY <1>1, <2>2, <2>3 DEF Listing
<1>7. UserLimit'
    <2> SUFFICES ASSUME MaxPerUser > 0, NEW v \in User
                 PROVE  Cardinality(userIndex'[v]) <= MaxPerUser
        BY DEF UserLimit
    <2>1. v = u => ~UserFull(v)
        BY DEF SetClientUserID
    <2> QED
        BY <1>2, <2>1, EntryWithinLimit DEF UserLimit
<1> QED
    BY <1>3, <1>5, <1>6, <1>7

\* handleUnregister takes the client out of the index.
LEMMA RemoveFromUserIndexKeeps == ASSUME UserInv, RemoveFromUserIndex PROVE UserInv'
<1> USE DEF UserInv
<1> DEFINE c == handler.client
<1>1. /\ handler.step = "unindex" /\ c \in IndexedClient /\ handler.user \in User
      /\ inHub[c] = "registered"
    BY DEF RemoveFromUserIndex, Handling, UserTypes
<1>2. /\ handler' = [handler EXCEPT !.step = "delete"]
      /\ UNCHANGED <<userID, inHub>>
      /\ userIndex' = [userIndex EXCEPT ![handler.user] = @ \ {c}]
    BY DEF RemoveFromUserIndex
<1>3. /\ userIndex' \in [User -> SUBSET IndexedClient]
      /\ \A v \in User : userIndex'[v] = IF v = handler.user THEN userIndex[v] \ {c}
                                          ELSE userIndex[v]
    BY <1>1, <1>2 DEF UserTypes
<1>4. handler'.step = "delete" /\ handler'.client = c /\ handler'.user = handler.user
    BY <1>2 DEF UserTypes
<1>5. UserTypes'
    BY <1>2, <1>3 DEF UserTypes
<1>6. Handling'
    BY <1>1, <1>2, <1>4, UserIndexAssumption DEF Handling
<1>7. Listing'
    BY <1>1, <1>2, <1>3, <1>4 DEF Listing
<1>8. UserLimit'
    BY <1>1, <1>3, EntryWithinLimit DEF UserLimit
<1> QED
    BY <1>5, <1>6, <1>7, <1>8

\* Every step keeps the invariant.
LEMMA UserStep == UserInv /\ [UserNext]_userVars => UserInv'
<1> SUFFICES ASSUME UserInv, [UserNext]_userVars PROVE UserInv'
    OBVIOUS
<1> USE DEF UserInv
<1>1. ASSUME NEW c \in IndexedClient, RefuseUser(c) PROVE UserInv'
    BY <1>1, UserIndexAssumption
       DEF RefuseUser, Idling, UserTypes, Handling, Listing, UserLimit
<1>2. ASSUME NEW c \in IndexedClient, ReadUserID(c) PROVE UserInv'
    <2>1. UserTypes' /\ Handling'
        BY <1>2, UserIndexAssumption DEF ReadUserID, Idling, UserTypes, Handling
    <2>2. Listing' /\ UserLimit'
        BY <1>2, UserIndexAssumption DEF ReadUserID, Idling, UserTypes, Listing, UserLimit
    <2> QED
        BY <2>1, <2>2
<1>3. CASE InsertClient
    <2>1. handler.client \in IndexedClient
        BY <1>3 DEF InsertClient, Handling, UserTypes
    <2> QED
        BY <1>3, <2>1, UserIndexAssumption
           DEF InsertClient, Idling, UserTypes, Handling, Listing, UserLimit
<1>4. CASE DeleteClient
    <2>1. handler.client \in IndexedClient
        BY <1>4 DEF DeleteClient, Handling, UserTypes
    <2> QED
        BY <1>4, <2>1, UserIndexAssumption
           DEF DeleteClient, Idling, UserTypes, Handling, Listing, UserLimit
<1>5. CASE UNCHANGED userVars
    BY <1>5 DEF userVars, UserTypes, Handling, Listing, UserLimit
<1> QED
    BY <1>1, <1>2, <1>3, <1>4, <1>5, AddToUserIndexKeeps, SetClientUserIDKeeps,
       RemoveFromUserIndexKeeps DEF UserNext

\* For any numbers of clients and users, and any limit, no interleaving of
\* registrations and SetUserID calls gives a user more connections than that.
THEOREM UserLimitHolds == UserSpec => []UserLimit
<1>1. UserInv => UserLimit
    BY DEF UserInv
<1> QED
    BY UserInitOK, UserStep, <1>1, PTL DEF UserSpec

\* For any clients, users and limit: SendToUser finds all the registered
\* connections of a user and no connection of another, whenever SetUserID runs.
\* (It may find connections that have left.)
THEOREM IndexExact == UserSpec => []IndexTracksUsers
<1>1. ASSUME UserInv PROVE IndexTracksUsers
    <2> SUFFICES ASSUME NEW c \in IndexedClient
                 PROVE  LET listed == {u \in User : c \in ClientsByUserID(u)}
                        IN  /\ listed \subseteq {userID[c]}
                            /\ (inHub[c] = "registered" /\ handler.client # c)
                                  => listed = {userID[c]} \ {NoUser}
                            /\ inHub[c] = "refused" => listed = {}
        BY DEF IndexTracksUsers
    <2> DEFINE listed == {u \in User : c \in ClientsByUserID(u)}
    <2>1. listed \subseteq {userID[c]}
        BY <1>1 DEF UserInv, Listing, ClientsByUserID
    <2>2. userID[c] \in User \cup {NoUser} /\ NoUser \notin User
        BY <1>1, UserIndexAssumption DEF UserInv, UserTypes
    <2>3. ASSUME inHub[c] = "registered", handler.client # c
          PROVE  listed = {userID[c]} \ {NoUser}
        <3>1. userID[c] \in User => userID[c] \in listed
            BY <1>1, <2>3 DEF UserInv, Listing, ClientsByUserID
        <3> QED
            BY <2>1, <2>2, <3>1
    <2>4. ASSUME inHub[c] = "refused", NEW u \in listed
          PROVE  FALSE
        BY <1>1, <2>4 DEF UserInv, Listing, Handling, ClientsByUserID
    <2> QED
        BY <2>1, <2>3, <2>4
<1> QED
    BY UserInitOK, UserStep, <1>1, PTL DEF UserSpec

-----------------------------------------------------------------------------
(* checkRateLimit                                                            *)

\* What a bucket that was full, and missed no refill, just before the i-th
\* message passed would hold at time t, after n messages.
Left(i, t, n) == MaxMessageRate * (Second + t - accepted[i]) - (n - i + 1) * Second

\* The bucket holds the least of these: no more than any of them, and as much
\* as one of them, the message that found the bucket full for the last time.
RateInv ==
    /\ tick \in Nat /\ lastRefill \in Nat /\ lastRefill <= tick
    /\ tokens \in Nat /\ tokens <= Burst
    /\ accepted \in Seq(Nat)
    /\ \A i \in DOMAIN accepted :
          accepted[i] <= lastRefill /\ tokens <= Left(i, lastRefill, Len(accepted))
    /\ \/ tokens = Burst
       \/ \E i \in DOMAIN accepted : tokens = Left(i, lastRefill, Len(accepted))
    /\ \A m \in dropped : m.after \in Nat /\ m.after <= Len(accepted)
    /\ RateExact

\* What the proofs use of the constants.
LEMMA BurstType == /\ MaxMessageRate \in Nat \ {0} /\ Second \in Nat \ {0}
                   /\ Burst \in Nat /\ Second <= Burst
<1>1. MaxMessageRate \in Nat \ {0} /\ Second \in Nat \ {0}
    BY RateAssumption
<1>2. \A r, s \in Nat : r > 0 => r * s \in Nat /\ s <= r * s
    OBVIOUS
<1> QED
    BY <1>1, <1>2 DEF Burst

\* The initial state satisfies the invariant.
LEMMA RateInitOK == RateInit => RateInv
<1> SUFFICES ASSUME RateInit PROVE RateInv
    OBVIOUS
<1>1. accepted \in Seq(Nat) /\ DOMAIN accepted = {}
    BY DEF RateInit
<1> QED
    BY <1>1, BurstType DEF RateInit, RateInv, RateExact

\* From one refill to another a bucket gains what the rate allows; a message
\* takes a token.
LEMMA LeftLater ==
    ASSUME NEW i \in DOMAIN accepted, accepted \in Seq(Nat),
           NEW t \in Nat, NEW u \in Nat, NEW n \in Nat
    PROVE  /\ Left(i, u, n) = Left(i, t, n) + (u - t) * MaxMessageRate
           /\ Left(i, u, n + 1) = Left(i, u, n) - Second
           /\ Left(i, u, n) \in Int
<1>1. /\ accepted[i] \in Nat /\ i \in Nat
      /\ MaxMessageRate \in Nat /\ Second \in Nat
    BY BurstType
<1> DEFINE x == MaxMessageRate * (Second + t - accepted[i])
           y == MaxMessageRate * (Second + u - accepted[i])
           z == (n - i + 1) * Second
           w == (n + 1 - i + 1) * Second
           g == (u - t) * MaxMessageRate
<1>2. y = x + g
    <2>1. \A r, s, a \in Nat : r * (s + u - a) = r * (s + t - a) + (u - t) * r
        OBVIOUS
    <2> QED
        BY <1>1, <2>1
<1>3. w = z + Second
    <2>1. \A s \in Nat : (n + 1 - i + 1) * s = (n - i + 1) * s + s
        BY <1>1
    <2> QED
        BY <1>1, <2>1
<1>4. x \in Int /\ g \in Int
    <2>1. Second + t - accepted[i] \in Int /\ u - t \in Int
        BY <1>1
    <2>2. \A p, q \in Int : p * q \in Int
        OBVIOUS
    <2> QED
        BY <1>1, <2>1, <2>2
<1>5. z \in Int
    BY <1>1
<1>6. Left(i, t, n) = x - z /\ Left(i, u, n) = y - z /\ Left(i, u, n + 1) = y - w
    BY DEF Left
<1>7. /\ Left(i, u, n) = Left(i, t, n) + g
      /\ Left(i, u, n + 1) = Left(i, u, n) - Second
      /\ Left(i, u, n) \in Int
    <2> HIDE DEF x, y, z, w, g
    <2> QED
        BY <1>1, <1>2, <1>3, <1>4, <1>5, <1>6
<1> QED
    BY <1>7

\* What the bucket holds once it is refilled, with or without the cap.
LEMMA RefilledLeast ==
    ASSUME RateInv
    PROVE  /\ Refilled \in Nat /\ Refilled <= Burst
           /\ \A i \in DOMAIN accepted : Refilled <= Left(i, tick, Len(accepted))
           /\ \/ Refilled = Burst
              \/ \E i \in DOMAIN accepted : Refilled = Left(i, tick, Len(accepted))
<1> DEFINE gain == (tick - lastRefill) * MaxMessageRate
<1>1. gain \in Nat
    <2>1. tick - lastRefill \in Nat
        BY DEF RateInv
    <2>2. \A x, y \in Nat : x * y \in Nat
        OBVIOUS
    <2> QED
        BY <2>1, <2>2, BurstType
<1>2. Refilled = IF tokens + gain > Burst THEN Burst ELSE tokens + gain
    BY DEF Refilled
<1> HIDE DEF gain
<1>3. tokens \in Nat /\ tokens <= Burst /\ Burst \in Nat
    BY BurstType DEF RateInv
<1>4. Refilled \in Nat /\ Refilled <= Burst /\ Refilled <= tokens + gain
    BY <1>1, <1>2, <1>3
<1>5. \A i \in DOMAIN accepted :
         /\ Left(i, tick, Len(accepted)) = Left(i, lastRefill, Len(accepted)) + gain
         /\ Left(i, lastRefill, Len(accepted)) \in Int
    <2>1. accepted \in Seq(Nat) /\ tick \in Nat /\ lastRefill \in Nat
        BY DEF RateInv
    <2>2. Len(accepted) \in Nat
        BY <2>1
    <2> QED
        BY <2>1, <2>2, LeftLater DEF gain
<1>6. \A i \in DOMAIN accepted : tokens <= Left(i, lastRefill, Len(accepted))
    BY DEF RateInv
<1>7. \A i \in DOMAIN accepted : Refilled <= Left(i, tick, Len(accepted))
    BY <1>1, <1>3, <1>4, <1>5, <1>6
<1>8. \/ Refilled = Burst
      \/ \E i \in DOMAIN accepted : Refilled = Left(i, tick, Len(accepted))
    <2>1. tokens = Burst \/ \E i \in DOMAIN accepted : tokens = Left(i, lastRefill, Len(accepted))
        BY DEF RateInv
    <2>2. tokens = Burst => Refilled = Burst
        BY <1>1, <1>2, <1>3
    <2> QED
        BY <1>1, <1>2, <1>3, <1>5, <2>1, <2>2
<1> QED
    BY <1>4, <1>7, <1>8

\* A message finds too few tokens.
LEMMA RateDropKeeps == ASSUME RateInv, RateDrop PROVE RateInv'
<1>1. /\ tokens' = Refilled /\ Refilled < Second /\ lastRefill' = tick
      /\ dropped' = dropped \cup {[at |-> tick, after |-> Len(accepted)]}
      /\ tick' = tick /\ accepted' = accepted
    BY DEF RateDrop
<1>2. accepted \in Seq(Nat) /\ tick \in Nat /\ lastRefill \in Nat /\ lastRefill <= tick
    BY DEF RateInv
<1>3. \A i \in DOMAIN accepted : Left(i, tick, Len(accepted))' = Left(i, tick, Len(accepted))
    BY <1>1 DEF Left
<1>4. \A i \in DOMAIN accepted : accepted[i] <= tick
    BY <1>2 DEF RateInv
<1>5. PICK i \in DOMAIN accepted : Refilled = Left(i, tick, Len(accepted))
    BY <1>1, RefilledLeast, BurstType
<1>6. ~Conforms(Len(accepted) - i + 2, tick - accepted[i])
    <2>1. Left(i, tick, Len(accepted)) < Second
        BY <1>1, <1>5
    <2>2. /\ accepted[i] \in Nat /\ i \in Nat /\ Len(accepted) \in Nat
          /\ MaxMessageRate \in Nat /\ Second \in Nat
        BY <1>2, BurstType
    <2> DEFINE k == Len(accepted) - i
               z == MaxMessageRate * (Second + (tick - accepted[i]))
    <2>3. k \in Int /\ z \in Int
        BY <1>2, <2>2
    <2>4. (k + 2) * Second = (k + 1) * Second + Second /\ (k + 1) * Second \in Int
        <3>1. \A a, b \in Int : (a + 2) * b = (a + 1) * b + b /\ (a + 1) * b \in Int
            OBVIOUS
        <3> HIDE DEF k, z
        <3> QED
            BY <2>2, <2>3, <3>1
    <2>5. Left(i, tick, Len(accepted)) = z - (k + 1) * Second
        BY <1>2, <2>2 DEF Left
    <2>6. z < (k + 2) * Second
        <3> HIDE DEF k, z
        <3> QED
            BY <2>1, <2>2, <2>3, <2>4, <2>5
    <2> QED
        BY <2>3, <2>4, <2>2, <2>6 DEF Conforms
<1>7. RateExact'
    <2>1. ASSUME NEW m \in dropped'
          PROVE  \E x \in 1..m.after : ~Conforms(m.after - x + 2, m.at - accepted[x])
        <3>1. CASE m \in dropped
            BY <3>1 DEF RateInv, RateExact
        <3>2. CASE m = [at |-> tick, after |-> Len(accepted)]
            BY <1>2, <1>6, <3>2
        <3> QED
            BY <1>1, <3>1, <3>2
    <2> QED
        BY <1>1, <2>1 DEF RateInv, RateExact, Conforms
<1>8. \A m \in dropped' : m.after \in Nat /\ m.after <= Len(accepted)
    BY <1>1, <1>2 DEF RateInv
<1> QED
    BY <1>1, <1>2, <1>3, <1>4, <1>7, <1>8, RefilledLeast DEF RateInv, Burst

\* A message takes its tokens.
LEMMA RateAcceptKeeps == ASSUME RateInv, RateAccept PROVE RateInv'
<1> DEFINE n == Len(accepted)
<1>1. /\ tokens' = Refilled - Second /\ Refilled >= Second /\ lastRefill' = tick
      /\ accepted' = Append(accepted, tick) /\ tick' = tick /\ dropped' = dropped
    BY DEF RateAccept
<1>2. accepted \in Seq(Nat) /\ tick \in Nat /\ lastRefill \in Nat /\ lastRefill <= tick
    BY DEF RateInv
<1>3. /\ accepted' \in Seq(Nat) /\ Len(accepted') = n + 1 /\ n \in Nat
      /\ DOMAIN accepted' = DOMAIN accepted \cup {n + 1} /\ DOMAIN accepted = 1..n
      /\ \A i \in DOMAIN accepted : accepted'[i] = accepted[i] /\ accepted[i] \in Nat
      /\ accepted'[n + 1] = tick
    BY <1>1, <1>2
<1> HIDE DEF n
<1>4. tokens' \in Nat /\ tokens' <= Burst
    BY <1>1, RefilledLeast, BurstType
<1> DEFINE L(i) == MaxMessageRate * (Second + tick - accepted'[i]) - (n + 1 - i + 1) * Second
<1>5. \A i \in DOMAIN accepted : L(i) = Left(i, tick, n) - Second /\ Left(i, tick, n) \in Int
    <2> SUFFICES ASSUME NEW i \in DOMAIN accepted
                 PROVE  L(i) = Left(i, tick, n) - Second /\ Left(i, tick, n) \in Int
        OBVIOUS
    <2>1. Left(i, tick, n + 1) = Left(i, tick, n) - Second /\ Left(i, tick, n) \in Int
        BY <1>2, <1>3, LeftLater
    <2>2. L(i) = Left(i, tick, n + 1)
        BY <1>3 DEF Left
    <2> QED
        BY <2>1, <2>2
<1>6. L(n + 1) = Burst - Second
    <2>1. \A r, s \in Nat : r * (s + tick - tick) - (n + 1 - (n + 1) + 1) * s = r * s - s
        BY <1>2, <1>3
    <2> QED
        BY <1>3, <2>1, BurstType DEF Burst
<1> HIDE DEF L
<1>7. \A i \in DOMAIN accepted' : accepted'[i] <= tick /\ tokens' <= L(i) /\ L(i) \in Int
    <2>1. \A i \in DOMAIN accepted : accepted[i] <= tick
        BY <1>2, <1>3 DEF RateInv
    <2>2. \A i \in DOMAIN accepted : tokens' <= L(i) /\ L(i) \in Int
        BY <1>1, <1>5, RefilledLeast, BurstType DEF n
    <2>3. tokens' <= L(n + 1) /\ L(n + 1) \in Int
        BY <1>1, <1>6, RefilledLeast, BurstType
    <2> QED
        BY <1>2, <1>3, <2>1, <2>2, <2>3
<1>8. \E i \in DOMAIN accepted' : tokens' = L(i)
    <2>1. CASE Refilled = Burst
        BY <1>1, <1>3, <1>6, <2>1
    <2>2. CASE \E i \in DOMAIN accepted : Refilled = Left(i, tick, n)
        BY <1>1, <1>3, <1>5, <2>2
    <2> QED
        BY <2>1, <2>2, RefilledLeast DEF n
<1>9. \A i \in DOMAIN accepted' : Left(i, lastRefill, Len(accepted))' = L(i)
    BY <1>1, <1>3 DEF Left, L
<1>10. \A i \in DOMAIN accepted' : Conforms(n + 1 - i + 1, tick - accepted'[i])
    <2> SUFFICES ASSUME NEW i \in DOMAIN accepted'
                 PROVE  Conforms(n + 1 - i + 1, tick - accepted'[i])
        OBVIOUS
    <2>1. accepted'[i] \in Nat /\ i \in Nat
        BY <1>3
    <2>2. 0 <= L(i)
        BY <1>4, <1>7
    <2>3. MaxMessageRate * (Second + tick - accepted'[i])
             = MaxMessageRate * (Second + (tick - accepted'[i]))
        BY <1>2, <2>1, BurstType
    <2>4. /\ MaxMessageRate * (Second + (tick - accepted'[i])) \in Int
          /\ (n + 1 - i + 1) * Second \in Int
        BY <1>2, <1>3, <2>1, BurstType
    <2> QED
        BY <2>2, <2>3, <2>4 DEF L, Conforms
<1>11. RateExact'
    <2>1. ASSUME NEW i \in DOMAIN accepted', NEW j \in DOMAIN accepted', i <= j
          PROVE  Conforms(j - i + 1, accepted'[j] - accepted'[i])
        <3>1. CASE j = n + 1
            BY <1>3, <1>10, <3>1
        <3>2. CASE j # n + 1
            <4>1. i \in DOMAIN accepted /\ j \in DOMAIN accepted
                BY <1>3, <2>1, <3>2
            <4> QED
                BY <1>3, <2>1, <4>1 DEF RateInv, RateExact
        <3> QED
            BY <3>1, <3>2
    <2>2. ASSUME NEW m \in dropped'
          PROVE  \E x \in 1..m.after : ~Conforms(m.after - x + 2, m.at - accepted'[x])
        <3>1. m \in dropped /\ m.after \in Nat /\ m.after <= n
            BY <1>1 DEF RateInv, n
        <3>2. PICK x \in 1..m.after : ~Conforms(m.after - x + 2, m.at - accepted[x])
            BY <3>1 DEF RateInv, RateExact
        <3>3. x \in DOMAIN accepted
            BY <1>3, <3>1
        <3> QED
            BY <1>3, <3>2, <3>3
    <2> QED
        BY <2>1, <2>2 DEF RateExact, Conforms
<1>12. \A m \in dropped' : m.after \in Nat /\ m.after <= Len(accepted')
    BY <1>1, <1>3 DEF RateInv, n
<1> QED
    BY <1>1, <1>2, <1>3, <1>4, <1>7, <1>8, <1>9, <1>11, <1>12 DEF RateInv, Burst

\* Every step keeps the invariant.
LEMMA RateStep == RateInv /\ [RateNext]_rateVars => RateInv'
<1> SUFFICES ASSUME RateInv, [RateNext]_rateVars PROVE RateInv'
    OBVIOUS
<1>1. CASE RateAccept
    BY <1>1, RateAcceptKeeps
<1>2. CASE RateDrop
    BY <1>2, RateDropKeeps
<1>3. CASE ProcessMessage \/ RateClock \/ UNCHANGED rateVars
    <2>1. /\ UNCHANGED <<tokens, lastRefill, accepted, dropped>>
          /\ tick' = tick \/ tick' = tick + 1
        BY <1>3 DEF ProcessMessage, RateClock, rateVars
    <2>2. RateExact' <=> RateExact
        BY <2>1 DEF RateExact, Conforms
    <2>3. \A i \in DOMAIN accepted :
             Left(i, lastRefill, Len(accepted))' = Left(i, lastRefill, Len(accepted))
        BY <2>1 DEF Left
    <2>4. tick' \in Nat /\ lastRefill <= tick'
        BY <2>1 DEF RateInv
    <2> QED
        BY <2>1, <2>2, <2>3, <2>4 DEF RateInv, Burst
<1> QED
    BY <1>1, <1>2, <1>3 DEF RateNext

\* For every rate and every division of the second, and messages at any times,
\* the bucket passes no more than a burst and the rate allow in any stretch of
\* time, and drops a message only where it would have been one too many.
THEOREM BucketExact == RateSpec => []RateExact
<1>1. RateInv => RateExact
    BY DEF RateInv
<1> QED
    BY RateInitOK, RateStep, <1>1, PTL DEF RateSpec
=============================================================================
