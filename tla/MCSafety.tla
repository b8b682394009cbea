------------------------------ MODULE MCSafety ------------------------------
(***************************************************************************)
(* Three models that share no state, checked side by side: the rooms, the  *)
(* send path of one client, and the life of the hub with its connections.  *)
(* Each behaviour is one of a single part, chosen in the initial state;    *)
(* the others do not move.  An instance has |Name| + |Worker| - 1 room     *)
(* objects at least, so that JoinRoom never waits for a free one.          *)
(***************************************************************************)
EXTENDS HubLifecycle, Rooms, SendQueue

VARIABLE part    \* the part this behaviour is about

\* A part that stands still starts in one of its initial states.
SafetyInit ==
    /\ part \in {"rooms", "queue", "hub"}
    /\ Init /\ RoomsInit /\ QueueInit
    /\ part # "queue" => policy = "DropOldest"

SafetyNext ==
    /\ UNCHANGED part
    /\ \/ part = "rooms" /\ RoomsNext /\ UNCHANGED <<vars, queueVars>>
       \/ part = "queue" /\ QueueNext /\ UNCHANGED <<vars, roomVars>>
       \/ part = "hub"   /\ Next      /\ UNCHANGED <<roomVars, queueVars>>

SafetySpec ==
    SafetyInit /\ [][SafetyNext]_<<part, vars, roomVars, queueVars>>

\* Clients, names and goroutines are interchangeable, and so are, in the other
\* parts, the messages sent without a context, the connections and the callers
\* of Drain.  The parts share model values, so one permutation serves them all.
Symmetry ==
    Permutations(RoomClient) \cup Permutations(Name) \cup Permutations(Proc)
=============================================================================
