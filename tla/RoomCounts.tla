----------------------------- MODULE RoomCounts -----------------------------
(***************************************************************************)
(* What the rooms of a hub promise to a reader that takes no lock: the     *)
(* number of clients each room lists, and a version that tells when to     *)
(* look again.  The size of a room may move before the version does, but   *)
(* then a call is in flight that owes the version an increment.            *)
(*                                                                         *)
(* This is the abstract view presence.go relies on.  Module Rooms          *)
(* implements it, module Presence is built on it.                          *)
(***************************************************************************)
EXTENDS Naturals, FiniteSets

CONSTANTS
    RoomName,  \* room names
    Caller     \* goroutines that join and leave

VARIABLES
    size,     \* how many clients RoomClients(n) lists
    version,  \* h.roomVersion
    owing     \* the callers that will still increment it

countVars == <<size, version, owing>>

CountsInit ==
    /\ size = [n \in RoomName |-> 0]
    /\ version = 0
    /\ owing = {}

\* A locked section adds a client to a room, removes one, or does so in a room
\* object that no name refers to any more.
OneMove ==
    \/ UNCHANGED size
    \/ \E n \in RoomName : size' = [size EXCEPT ![n] = @ + 1]
    \/ \E n \in RoomName : size[n] > 0 /\ size' = [size EXCEPT ![n] = @ - 1]

\* JoinRoom, and a round of removeClientFromAllRoomsWithHooks: the version
\* follows later.
Touch(w) ==
    /\ OneMove
    /\ owing' = owing \cup {w}
    /\ UNCHANGED version

\* LeaveRoom: member and version in the same locked section.
TouchAndBump(w) ==
    /\ w \notin owing
    /\ OneMove
    /\ version' = version + 1
    /\ UNCHANGED owing

\* The increment that JoinRoom and the loop over a client's rooms end with: one
\* for each room that was touched.
Bump(w) ==
    /\ w \in owing
    /\ \E k \in 1..Cardinality(RoomName) : version' = version + k
    /\ owing' = owing \ {w}
    /\ UNCHANGED size

CountsNext == \E w \in Caller : Touch(w) \/ TouchAndBump(w) \/ Bump(w)

CountsSpec == CountsInit /\ [][CountsNext]_countVars
=============================================================================
