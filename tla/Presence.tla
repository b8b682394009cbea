------------------------------ MODULE Presence ------------------------------
(***************************************************************************)
(* The presence gossip: a hub publishes its client and room counts at      *)
(* every tick (runPresence, publishPresence), another hub caches the last  *)
(* report of each node and forgets nodes that fall silent                  *)
(* (handlePresenceMessage, evictStaleNodes), and adds what it cached to    *)
(* its own counts (GlobalClientCount, GlobalRoomCount).                    *)
(*                                                                         *)
(* Entries of different nodes do not interact, so there is one publisher   *)
(* and one observer.  The publisher's rooms are the abstract ones of       *)
(* RoomCounts.  To save work it gathers the room counts only if the        *)
(* client count or the room version has moved since the last time, and it  *)
(* reads the three without a common lock.                                  *)
(***************************************************************************)
EXTENDS RoomCounts, Integers, Sequences

CONSTANTS
    NoReport,     \* no entry in presenceCache, no payload yet
    TTL,          \* presenceTTL in ticks of the observer (3)
    BusCap,       \* bound: reports in flight, more are lost
    MaxBumps,     \* bound: no room call starts when the version is here
    MaxArrivals   \* bound: registrations

ASSUME PresenceAssumption ==
    /\ TTL \in Nat \ {0} /\ BusCap \in Nat \ {0}
    /\ MaxBumps \in Nat /\ MaxArrivals \in Nat

VARIABLES
    hubUp,        \* the publisher's context is not done and it has not crashed
    clientCount,  \* its h.clientCount
    arrivals,     \* registrations so far
    pub,          \* its presence goroutine, with presenceState
    bus,          \* reports on their way
    cache,        \* the observer's presenceCache entry for this node
    age           \* ticks of the observer since the entry was stored

hubSide == <<countVars, clientCount, arrivals>>
presenceVars == <<hubSide, hubUp, pub, bus, cache, age>>

\* The type of a report, with room sizes already gathered or still zero.
Empty == [n \in RoomName |-> 0]

\* lastRoomVersion starts at -1, so that the first tick gathers.
PubInit == [pc |-> "idle", clients |-> 0, lastClients |-> 0,
            lastVersion |-> -1, todo |-> {}, report |-> NoReport]

PresenceInit ==
    /\ CountsInit
    /\ clientCount = 0 /\ arrivals = 0
    /\ hubUp \in BOOLEAN
    /\ pub = PubInit
    /\ bus = <<>>
    /\ cache = NoReport /\ age = 0

-----------------------------------------------------------------------------
(* The publishing hub                                                      *)

\* The locked sections of the room calls.  Only clients that have registered are
\* in rooms.
RoomMoves(w) ==
    /\ hubUp
    /\ version + Cardinality(owing) < MaxBumps
    /\ Touch(w) \/ TouchAndBump(w)
    /\ \A n \in RoomName : size'[n] <= arrivals
    /\ UNCHANGED <<clientCount, arrivals, hubUp, pub, bus, cache, age>>

\* The increment they owe.
VersionMoves(w) ==
    /\ hubUp
    /\ Bump(w)
    /\ UNCHANGED <<clientCount, arrivals, hubUp, pub, bus, cache, age>>

\* handleRegister and handleUnregister count.
CountClient ==
    /\ hubUp
    /\ \/ /\ arrivals < MaxArrivals
          /\ arrivals' = arrivals + 1
          /\ clientCount' = clientCount + 1
       \/ /\ clientCount > 0
          /\ clientCount' = clientCount - 1
          /\ UNCHANGED arrivals
    /\ UNCHANGED <<countVars, hubUp, pub, bus, cache, age>>

\* The ticker fires: publishPresence loads the client count.
PresenceTick ==
    /\ hubUp
    /\ pub.pc = "idle"
    /\ pub' = [pub EXCEPT !.pc = "version", !.clients = clientCount]
    /\ UNCHANGED <<hubSide, hubUp, bus, cache, age>>

\* It loads the version, before it looks at a room, and gathers only if one of
\* the two has moved; otherwise the last report is sent again, if there is one.
LoadVersion ==
    /\ hubUp
    /\ pub.pc = "version"
    /\ pub' = IF pub.clients # pub.lastClients \/ version # pub.lastVersion
              THEN [pub EXCEPT !.pc = "gather", !.todo = RoomName,
                               !.lastClients = pub.clients,
                               !.lastVersion = version,
                               !.report = [clients |-> pub.clients,
                                           rooms |-> Empty]]
              ELSE [pub EXCEPT !.pc = IF pub.report = NoReport
                                      THEN "idle" ELSE "publish"]
    /\ UNCHANGED <<hubSide, hubUp, bus, cache, age>>

\* One room of the loop: roomsMu is held, which keeps rooms from appearing and
\* disappearing, but not their snapshots from changing.
Gather ==
    /\ hubUp
    /\ pub.pc = "gather"
    /\ \E n \in pub.todo :
          pub' = [pub EXCEPT !.report.rooms[n] = size[n],
                             !.todo = pub.todo \ {n},
                             !.pc = IF pub.todo = {n} THEN "publish" ELSE "gather"]
    /\ UNCHANGED <<hubSide, hubUp, bus, cache, age>>

VersionAfterGather ==
    /\ hubUp
    /\ pub.pc = "publish"
    /\ Len(bus) < BusCap
    /\ bus' = Append(bus, pub.report)
    /\ pub' = [pub EXCEPT !.pc = "idle", !.lastVersion = version]
    /\ UNCHANGED <<hubSide, hubUp, cache, age>>

\* publishToAdapter, which the broker accepts.
Publish ==
    /\ hubUp
    /\ pub.pc = "publish"
    /\ Len(bus) < BusCap
    /\ bus' = Append(bus, pub.report)
    /\ pub' = [pub EXCEPT !.pc = "idle"]
    /\ UNCHANGED <<hubSide, hubUp, cache, age>>

\* publishToAdapter fails, or the broker loses the report.
PublishLost ==
    /\ hubUp
    /\ pub.pc = "publish"
    /\ pub' = [pub EXCEPT !.pc = "idle"]
    /\ UNCHANGED <<hubSide, hubUp, bus, cache, age>>

\* Shutdown, which ends runPresence, or a crash at any point.
HubStops ==
    /\ hubUp
    /\ hubUp' = FALSE
    /\ UNCHANGED <<hubSide, pub, bus, cache, age>>

-----------------------------------------------------------------------------
(* The observing hub                                                       *)

\* handlePresenceMessage replaces the entry, whatever it was.
HandlePresence ==
    /\ bus # <<>>
    /\ cache' = Head(bus)
    /\ age' = 0
    /\ bus' = Tail(bus)
    /\ UNCHANGED <<hubSide, hubUp, pub>>

\* A tick passes; evictStaleNodes drops an entry older than the TTL.
EvictStale ==
    /\ cache # NoReport
    /\ IF age < TTL
       THEN age' = age + 1 /\ UNCHANGED cache
       ELSE age' = 0 /\ cache' = NoReport
    /\ UNCHANGED <<hubSide, hubUp, pub, bus>>

\* What GlobalClientCount and GlobalRoomCount add to the observer's own counts.
RemoteClients == IF cache = NoReport THEN 0 ELSE cache.clients
RemoteMembers(n) == IF cache = NoReport THEN 0 ELSE cache.rooms[n]

-----------------------------------------------------------------------------
PublisherStep ==
    PresenceTick \/ LoadVersion \/ Gather \/ Publish \/ PublishLost

PresenceNext ==
    \/ \E w \in Caller : RoomMoves(w) \/ VersionMoves(w)
    \/ CountClient
    \/ PublisherStep \/ HubStops
    \/ HandlePresence \/ EvictStale

\* The ticker of a hub that is up keeps firing, calls return, the observer's
\* goroutines run, and the broker does not lose every report.
PresenceFairness ==
    /\ WF_presenceVars(PublisherStep) /\ SF_presenceVars(Publish)
    /\ WF_presenceVars(HandlePresence) /\ WF_presenceVars(EvictStale)
    /\ \A w \in Caller : WF_presenceVars(VersionMoves(w))

PresenceSpec ==
    PresenceInit /\ [][PresenceNext]_presenceVars /\ PresenceFairness

-----------------------------------------------------------------------------
(* Properties                                                              *)

\* The observer's share of the global counts is what the publisher has: its
\* clients and the members of each room, or nothing once it has stopped.
CountsRight ==
    /\ (cache # NoReport) = hubUp
    /\ RemoteClients = (IF hubUp THEN clientCount ELSE 0)
    /\ \A n \in RoomName : RemoteMembers(n) = (IF hubUp THEN size[n] ELSE 0)

\* When the calls are over the global counts come out right, although a join
\* may have moved a room between the load of the version and the gathering, and
\* before its own increment: from some point on the observer has no wrong entry,
\* and again and again it has the right one.  A node that stops is forgotten.
PresenceConverges ==
    /\ <>[](cache = NoReport \/ CountsRight)
    /\ []<>CountsRight
=============================================================================
