----------------------------- MODULE Membership -----------------------------
(***************************************************************************)
(* Rooms and the user index of one hub together.  Run's handlers work on   *)
(* both: handleRegister indexes a client and then inserts it into          *)
(* h.clients; handleUnregister takes it out of the index, then out of its  *)
(* rooms, and only then out of h.clients.  The calls of the application    *)
(* (JoinRoom, LeaveRoom, LeaveAllRooms, SetUserID) run beside them.        *)
(*                                                                         *)
(* h.clients is kept twice here, as status and as inHub; the two change in *)
(* the same steps.                                                         *)
(***************************************************************************)
EXTENDS Rooms, UserIndex

MembershipInit == RoomsInit /\ UserInit

\* handleRegister, after addToUserIndex: the insertion into h.clients.
HandleRegister(c) ==
    /\ handler.client = c
    /\ InsertClient
    /\ Register(c)

\* handleUnregister, after removeFromUserIndex: the rooms are left.
LeaveRooms(c) ==
    /\ handler.step = "delete" /\ handler.client = c
    /\ Unregister(c)
    /\ UNCHANGED userVars

\* handleUnregister, after the rooms: delete(h.clients, client).
HandleUnregister == Deregister /\ DeleteClient

\* What touches the index only.
IndexStep ==
    /\ \/ RemoveFromUserIndex
       \/ \E c \in RoomClient :
             \/ AddToUserIndex(c) \/ RefuseUser(c) \/ ReadUserID(c)
             \/ \E u \in User \cup {NoUser} : SetClientUserID(c, u)
    /\ UNCHANGED roomVars

\* What touches the rooms only.
RoomStep ==
    /\ \/ \E p \in Proc, c \in RoomClient :
             \/ LeaveAllRooms(p, c)
             \/ \E n \in Name : JoinRoom(p, c, n) \/ LeaveRoom(p, c, n)
       \/ \E p \in Worker : Continue(p)
    /\ UNCHANGED userVars

MembershipNext ==
    \/ \E c \in RoomClient : HandleRegister(c) \/ LeaveRooms(c)
    \/ HandleUnregister \/ IndexStep \/ RoomStep

MembershipSpec == MembershipInit /\ [][MembershipNext]_<<roomVars, userVars>>

-----------------------------------------------------------------------------
(* Properties                                                              *)

\* RoomClients returns no client that was removed from h.clients.
ListedAreRegistered ==
    \A n \in Name : \A c \in Listed(n) : status[c] # "gone"

\* GetClientsByUserID returns no client that was removed from h.clients.
IndexedAreRegistered ==
    \A u \in User : \A c \in ClientsByUserID(u) : inHub[c] # "gone"

\* handleUnregister cleans up the index and the rooms first "so that concurrent
\* lookups (GetClientsByUserID, RoomClients) never return a client that has already
\* been removed from h.clients".  At least one of the two lookups keeps to that.
LookupsFindRegistered == ListedAreRegistered \/ IndexedAreRegistered
=============================================================================
