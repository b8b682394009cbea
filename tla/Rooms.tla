------------------------------- MODULE Rooms -------------------------------
(***************************************************************************)
(* Room membership of one hub: JoinRoom, LeaveRoom, LeaveAllRooms and the  *)
(* room cleanup that handleUnregister runs, called concurrently by         *)
(* application goroutines and by the hub's Run goroutine.                  *)
(*                                                                         *)
(* Membership is kept three times in the code: h.rooms maps a name to a    *)
(* *Room, room.clients holds the members of that object, client.rooms      *)
(* holds the names a client believes it is in.  They are guarded by three  *)
(* different mutexes (roomsMu, room.mu, client.mu) that are taken one      *)
(* after the other, so a step of this specification is exactly one         *)
(* critical section, and any other goroutine may run between two steps.    *)
(*                                                                         *)
(* A *Room is a heap object: a goroutine may still hold a pointer to a     *)
(* room that has been deleted from h.rooms.  RoomObj is the heap; an       *)
(* object nobody refers to may be allocated again.                         *)
(***************************************************************************)
EXTENDS Integers, FiniteSets

CONSTANTS
    RoomClient,             \* *Client objects
    Name,               \* non-empty room names
    RoomObj,            \* *Room objects
    Proc,               \* application goroutines (handlers, hooks, timers)
    RunLoop,            \* the goroutine of Hub.Run, the only unregisterer
    Nil,
    MaxClientsPerRoom,  \* limits.MaxClientsPerRoom, 0 is no limit
    MaxRoomsPerClient,  \* limits.MaxRoomsPerClient, 0 is no limit
    MaxVersion          \* bound: no call starts once roomVersion is here

ASSUME ConstantsAssumption ==
    /\ Nil \notin RoomClient \cup Name \cup RoomObj
    /\ RunLoop \notin Proc
    /\ IsFiniteSet(RoomClient) /\ IsFiniteSet(Name)
    /\ MaxClientsPerRoom \in Nat
    /\ MaxRoomsPerClient \in Nat
    /\ MaxVersion \in Nat

VARIABLES
    status,       \* "registered": in h.clients; "gone": unregistered
    rooms,        \* h.rooms, Nil where the name has no entry
    members,      \* room.clients; room.snapshot is rebuilt under the same lock
    clientRooms,  \* client.rooms
    roomVersion,  \* h.roomVersion
    op            \* the call each goroutine is in, and its local variables

roomVars == <<status, rooms, members, clientRooms, roomVersion, op>>

Worker == Proc \cup {RunLoop}

\* A goroutine outside any of the modelled calls.
Idle == [kind |-> "none", pc |-> "idle", client |-> Nil, name |-> Nil,
         room |-> Nil, created |-> FALSE, todo |-> {}, left |-> {}]

\* The objects reachable from h.rooms or from a local variable.
Referenced == {rooms[n] : n \in Name} \cup {op[p].room : p \in Worker}

\* What RoomClients(n) and BroadcastToRoom(n) see.
Listed(n) == IF rooms[n] = Nil THEN {} ELSE members[rooms[n]]

RoomsInit ==
    /\ status = [c \in RoomClient |-> "new"]
    /\ rooms = [n \in Name |-> Nil]
    /\ members = [r \in RoomObj |-> {}]
    /\ clientRooms = [c \in RoomClient |-> {}]
    /\ roomVersion = 0
    /\ op = [p \in Worker |-> Idle]

-----------------------------------------------------------------------------
(* Steps shared by the calls.                                              *)

\* Goroutine p may start a call, about any client: calls may overlap.
MayStart(p) ==
    /\ op[p] = Idle
    /\ roomVersion < MaxVersion

\* The map insertion of handleRegister; its limits are in module HubLifecycle.
Register(c) ==
    /\ status[c] = "new"
    /\ status' = [status EXCEPT ![c] = "registered"]
    /\ UNCHANGED <<rooms, members, clientRooms, roomVersion, op>>

\* Where the caller of deleteRoomIfEmpty continues: the loop over the rooms
\* of a client, or the return of JoinRoom and LeaveRoom.
AfterRoom(p) ==
    IF op[p].kind \in {"leaveAll", "unregister"}
    THEN [op[p] EXCEPT !.pc = "next", !.name = Nil, !.room = Nil]
    ELSE Idle

DeleteUnchecked(p) ==
    /\ op[p].pc = "delete"
    /\ rooms' = IF rooms[op[p].name] = op[p].room
                THEN [rooms EXCEPT ![op[p].name] = Nil]
                ELSE rooms
    /\ op' = [op EXCEPT ![p] = AfterRoom(p)]
    /\ UNCHANGED <<status, members, clientRooms, roomVersion>>

\* deleteRoomIfEmpty: under roomsMu and room.mu, both conditions again.
DeleteRoomIfEmpty(p) ==
    /\ op[p].pc = "delete"
    /\ rooms' = IF members[op[p].room] = {} /\ rooms[op[p].name] = op[p].room
                THEN [rooms EXCEPT ![op[p].name] = Nil]
                ELSE rooms
    /\ op' = [op EXCEPT ![p] = AfterRoom(p)]
    /\ UNCHANGED <<status, members, clientRooms, roomVersion>>

-----------------------------------------------------------------------------
(* JoinRoom                                                                *)

\* The client must be in h.clients, which is tested under h.mu only here.
JoinRoom(p, c, n) ==
    /\ MayStart(p)
    /\ status[c] = "registered"
    /\ op' = [op EXCEPT ![p] = [Idle EXCEPT !.kind = "join", !.pc = "joinGet",
                                            !.client = c, !.name = n]]
    /\ UNCHANGED <<status, rooms, members, clientRooms, roomVersion>>

\* The BeforeRoomJoin hook returns an error.
JoinVetoed(p) ==
    /\ op[p].pc = "joinGet"
    /\ op' = [op EXCEPT ![p] = Idle]
    /\ UNCHANGED <<status, rooms, members, clientRooms, roomVersion>>

\* Get or create, under roomsMu: the name has a room.
JoinFind(p) ==
    /\ op[p].pc = "joinGet"
    /\ rooms[op[p].name] # Nil
    /\ op' = [op EXCEPT ![p] = [@ EXCEPT !.pc = "joinLock",
                                         !.room = rooms[op[p].name]]]
    /\ UNCHANGED <<status, rooms, members, clientRooms, roomVersion>>

CreateForgotten(p) ==
    /\ op[p].pc = "joinGet"
    /\ rooms[op[p].name] = Nil
    /\ \E r \in RoomObj \ Referenced :
          /\ rooms' = [rooms EXCEPT ![op[p].name] = r]
          /\ members' = [members EXCEPT ![r] = {}]
          /\ op' = [op EXCEPT ![p] = [@ EXCEPT !.pc = "joinLock", !.room = r]]
    /\ UNCHANGED <<status, clientRooms, roomVersion>>

\* Get or create, under roomsMu: the name has no room.
JoinCreate(p) ==
    /\ op[p].pc = "joinGet"
    /\ rooms[op[p].name] = Nil
    /\ \E r \in RoomObj \ Referenced :
          /\ rooms' = [rooms EXCEPT ![op[p].name] = r]
          /\ members' = [members EXCEPT ![r] = {}]
          /\ op' = [op EXCEPT ![p] = [@ EXCEPT !.pc = "joinLock", !.room = r,
                                               !.created = TRUE]]
    /\ UNCHANGED <<status, clientRooms, roomVersion>>

RoomFull(r) ==
    /\ MaxClientsPerRoom > 0
    /\ Cardinality(members[r]) >= MaxClientsPerRoom

ClientFull(c) ==
    /\ MaxRoomsPerClient > 0
    /\ Cardinality(clientRooms[c]) >= MaxRoomsPerClient

RefusedNoClientLimit(p) ==
    \/ RoomFull(op[p].room)
    \/ op[p].client \in members[op[p].room]

\* ErrRoomFull, ErrAlreadyInRoom, ErrMaxRoomsReached
JoinRefused(p) ==
    \/ RoomFull(op[p].room)
    \/ op[p].client \in members[op[p].room]
    \/ ClientFull(op[p].client)

\* A limit check under room.mu fails; cleanupRoom undoes the creation.
JoinRefuse(p) ==
    /\ op[p].pc = "joinLock"
    /\ JoinRefused(p)
    /\ op' = [op EXCEPT ![p] = IF op[p].created /\ members[op[p].room] = {}
                               THEN [@ EXCEPT !.pc = "delete"]
                               ELSE Idle]
    /\ UNCHANGED <<status, rooms, members, clientRooms, roomVersion>>

\* The critical section under room.mu, with client.mu inside it.
JoinAdd(p) ==
    /\ op[p].pc = "joinLock"
    /\ ~JoinRefused(p)
    /\ clientRooms' = [clientRooms EXCEPT ![op[p].client] = @ \cup {op[p].name}]
    /\ members' = [members EXCEPT ![op[p].room] = @ \cup {op[p].client}]
    /\ op' = [op EXCEPT ![p] = [@ EXCEPT !.pc = "joinBump"]]
    /\ UNCHANGED <<status, rooms, roomVersion>>

JoinUnversioned(p) ==
    /\ op[p].pc = "joinBump"
    /\ op' = [op EXCEPT ![p] = Idle]
    /\ UNCHANGED <<status, rooms, members, clientRooms, roomVersion>>

\* roomVersion is incremented after room.mu is released.
JoinBump(p) ==
    /\ op[p].pc = "joinBump"
    /\ roomVersion' = roomVersion + 1
    /\ op' = [op EXCEPT ![p] = Idle]
    /\ UNCHANGED <<status, rooms, members, clientRooms>>

-----------------------------------------------------------------------------
(* LeaveRoom                                                               *)

\* Lookup under roomsMu; ErrRoomNotFound changes nothing.
LeaveRoom(p, c, n) ==
    /\ MayStart(p)
    /\ rooms[n] # Nil
    /\ op' = [op EXCEPT ![p] = [Idle EXCEPT !.kind = "leave", !.pc = "check",
                                            !.client = c, !.name = n,
                                            !.room = rooms[n]]]
    /\ UNCHANGED <<status, rooms, members, clientRooms, roomVersion>>

\* First membership test under room.mu (read), then BeforeRoomLeave runs with
\* no lock held.  Without membership LeaveRoom returns ErrNotInRoom and the
\* loop over the rooms of a client continues.
CheckMember(p) ==
    /\ op[p].pc = "check"
    /\ op' = [op EXCEPT ![p] = IF op[p].client \in members[op[p].room]
                               THEN [@ EXCEPT !.pc = "remove"]
                               ELSE AfterRoom(p)]
    /\ UNCHANGED <<status, rooms, members, clientRooms, roomVersion>>

\* The re-check under the write lock finds that the client has left.
AlreadyLeft(p) ==
    /\ op[p].pc = "remove"
    /\ op[p].client \notin members[op[p].room]
    /\ op' = [op EXCEPT ![p] = AfterRoom(p)]
    /\ UNCHANGED <<status, rooms, members, clientRooms, roomVersion>>

\* delete(room.clients, client), and what follows it: room cleanup if empty.
RemoveMember(p) ==
    /\ op[p].pc = "remove"
    /\ op[p].client \in members[op[p].room]
    /\ members' = [members EXCEPT ![op[p].room] = @ \ {op[p].client}]

\* LeaveRoom's locked section: client.leaveRoom and the version are inside it.
LeaveRemove(p) ==
    /\ op[p].kind = "leave"
    /\ RemoveMember(p)
    /\ clientRooms' = [clientRooms EXCEPT ![op[p].client] = @ \ {op[p].name}]
    /\ roomVersion' = roomVersion + 1
    /\ op' = [op EXCEPT ![p] = IF members'[op[p].room] = {}
                               THEN [@ EXCEPT !.pc = "delete"] ELSE Idle]
    /\ UNCHANGED <<status, rooms>>

-----------------------------------------------------------------------------
(* removeClientFromAllRoomsWithHooks, for LeaveAllRooms and unregister     *)

\* The client's room names are copied under client.mu; with none it returns.
LeaveAllRooms(p, c) ==
    /\ MayStart(p)
    /\ clientRooms[c] # {}
    /\ op' = [op EXCEPT ![p] = [Idle EXCEPT !.kind = "leaveAll", !.pc = "next",
                                            !.client = c,
                                            !.todo = clientRooms[c]]]
    /\ UNCHANGED <<status, rooms, members, clientRooms, roomVersion>>

\* handleUnregister for a client that is present in h.clients.
Unregister(c) ==
    /\ op[RunLoop] = Idle
    /\ status[c] = "registered"
    /\ op' = [op EXCEPT ![RunLoop] =
                 [Idle EXCEPT !.kind = "unregister", !.client = c,
                              !.pc = IF clientRooms[c] = {}
                                     THEN "deregister" ELSE "next",
                              !.todo = clientRooms[c]]]
    /\ UNCHANGED <<status, rooms, members, clientRooms, roomVersion>>

\* Next room of the loop, looked up under roomsMu; an absent one is skipped.
NextRoom(p) ==
    /\ op[p].pc = "next"
    /\ \E n \in op[p].todo :
          op' = [op EXCEPT ![p] =
                   IF rooms[n] = Nil
                   THEN [op[p] EXCEPT !.todo = op[p].todo \ {n}]
                   ELSE [op[p] EXCEPT !.todo = op[p].todo \ {n}, !.name = n,
                                      !.room = rooms[n], !.pc = "check"]]
    /\ UNCHANGED <<status, rooms, members, clientRooms, roomVersion>>

\* The locked section of the loop: client.rooms is left for later.
LoopRemove(p) ==
    /\ op[p].kind \in {"leaveAll", "unregister"}
    /\ RemoveMember(p)
    /\ LET left == op[p].left \cup {op[p].name}
       IN  op' = [op EXCEPT ![p] =
                    IF members'[op[p].room] = {}
                    THEN [op[p] EXCEPT !.left = left, !.pc = "delete"]
                    ELSE [AfterRoom(p) EXCEPT !.left = left]]
    /\ UNCHANGED <<status, rooms, clientRooms, roomVersion>>

\* After the loop, under client.mu: forget the rooms that were left.
ForgetRooms(p) ==
    /\ op[p].pc = "next"
    /\ op[p].todo = {}
    /\ clientRooms' = [clientRooms EXCEPT ![op[p].client] = @ \ op[p].left]
    /\ op' = [op EXCEPT ![p] = [@ EXCEPT !.pc = "leftBump"]]
    /\ UNCHANGED <<status, rooms, members, roomVersion>>

\* roomVersion.Add(len(leftRooms)), then back to the caller.
LeftBump(p) ==
    /\ op[p].pc = "leftBump"
    /\ roomVersion' = roomVersion + Cardinality(op[p].left)
    /\ op' = [op EXCEPT ![p] = IF op[p].kind = "unregister"
                               THEN [Idle EXCEPT !.kind = "unregister",
                                                 !.client = op[p].client,
                                                 !.pc = "deregister"]
                               ELSE Idle]
    /\ UNCHANGED <<status, rooms, members, clientRooms>>

\* delete(h.clients, client), after the rooms were cleaned up.
Deregister ==
    /\ op[RunLoop].pc = "deregister"
    /\ status' = [status EXCEPT ![op[RunLoop].client] = "gone"]
    /\ op' = [op EXCEPT ![RunLoop] = Idle]
    /\ UNCHANGED <<rooms, members, clientRooms, roomVersion>>

-----------------------------------------------------------------------------
JoinStep(p) ==
    \/ JoinVetoed(p) \/ JoinFind(p) \/ JoinCreate(p)
    \/ JoinRefuse(p) \/ JoinAdd(p) \/ JoinBump(p)

LeaveStep(p) == CheckMember(p) \/ AlreadyLeft(p) \/ LeaveRemove(p)

LoopStep(p) == NextRoom(p) \/ LoopRemove(p) \/ ForgetRooms(p) \/ LeftBump(p)

\* The next step of the call goroutine p is in.
Continue(p) ==
    JoinStep(p) \/ LeaveStep(p) \/ LoopStep(p) \/ DeleteRoomIfEmpty(p)

Call ==
    \/ \E p \in Proc, c \in RoomClient, n \in Name :
          JoinRoom(p, c, n) \/ LeaveRoom(p, c, n)
    \/ \E p \in Proc, c \in RoomClient : LeaveAllRooms(p, c)
    \/ \E c \in RoomClient : Register(c) \/ Unregister(c)

RoomsNext == Call \/ (\E p \in Worker : Continue(p)) \/ Deregister

RoomsSpec == RoomsInit /\ [][RoomsNext]_roomVars

-----------------------------------------------------------------------------
(* Properties                                                              *)

Kinds == {"none", "join", "leave", "leaveAll", "unregister"}
PCs == {"idle", "joinGet", "joinLock", "joinBump", "check", "remove",
        "delete", "next", "leftBump", "deregister"}

Op == [kind : Kinds, pc : PCs, client : RoomClient \cup {Nil},
       name : Name \cup {Nil}, room : RoomObj \cup {Nil},
       created : BOOLEAN, todo : SUBSET Name, left : SUBSET Name]

\* The local variables a call has set by the time it needs them.
OpOK(o) ==
    /\ o \in Op
    /\ o.pc # "idle" => o.client \in RoomClient
    /\ o.pc \in {"joinGet", "joinLock", "check", "remove", "delete"}
          => o.name \in Name
    /\ o.pc \in {"joinLock", "check", "remove", "delete"} => o.room \in RoomObj

\* Every variable has its type, and a goroutine that is about to lock room.mu
\* holds a pointer to a room, never nil.
RoomsTypeOK ==
    /\ status \in [RoomClient -> {"new", "registered", "gone"}]
    /\ rooms \in [Name -> RoomObj \cup {Nil}]
    /\ members \in [RoomObj -> SUBSET RoomClient]
    /\ clientRooms \in [RoomClient -> SUBSET Name]
    /\ roomVersion \in Nat
    /\ op \in [Worker -> Op] /\ \A p \in Worker : OpOK(op[p])

\* MaxClientsPerRoom holds for every room object, a deleted one included, with
\* any number of JoinRoom calls between their lookup and their lock.
RoomLimit ==
    MaxClientsPerRoom > 0 =>
        \A r \in RoomObj : Cardinality(members[r]) <= MaxClientsPerRoom

\* MaxRoomsPerClient holds although concurrent JoinRoom calls of one client
\* hold the locks of different rooms.
ClientLimit ==
    MaxRoomsPerClient > 0 =>
        \A c \in RoomClient : Cardinality(clientRooms[c]) <= MaxRoomsPerClient

\* Both limits, under any interleaving of the joins of one client or to one room.
Limits == RoomLimit /\ ClientLimit

\* Goroutine p will still look at room r and delete it if it is empty.
Custodian(p, r) ==
    /\ op[p].room = r
    /\ op[p].pc = "delete" \/ (op[p].pc = "joinLock" /\ op[p].created)

\* No empty room leaks into h.rooms: while an empty room is registered some
\* call is in flight that will delete it or add a member.
NoEmptyRoomLeak ==
    \A n \in Name :
        (rooms[n] # Nil /\ members[rooms[n]] = {})
            => \E p \in Worker : Custodian(p, rooms[n]) /\ op[p].name = n

\* Goroutine p is in the locked section that takes client c out of room n.
Removing(p, c, n) ==
    op[p].pc = "remove" /\ op[p].client = c /\ op[p].name = n

\* A client that RoomClients(n) lists stays listed until a call that leaves n
\* on behalf of that very client removes it: no cleanup of a room that looked
\* empty, by any goroutine, ever drops somebody else.
OnlyLeaversLeave ==
    [][\A n \in Name : \A c \in Listed(n) \ Listed(n)' :
          \E p \in Worker : Removing(p, c, n)]_roomVars

\* Nobody is working on client c.
Quiet(c) == \A p \in Worker : op[p].client # c

\* A client that JoinRoom has put into room n, and that nobody has touched
\* since, is listed by RoomClients(n) and reached by BroadcastToRoom(n).
JoinedIsListed ==
    \A c \in RoomClient : \A n \in clientRooms[c] : Quiet(c) => c \in Listed(n)

-----------------------------------------------------------------------------
(* Refinement                                                              *)

\* The goroutines that have changed a member set and have not yet added to
\* roomVersion.
Owing == {p \in Worker : op[p].pc = "joinBump" \/ op[p].left # {}}

Counts == INSTANCE RoomCounts WITH
    RoomName <- Name,
    Caller   <- Worker,
    size     <- [n \in Name |-> Cardinality(Listed(n))],
    version  <- roomVersion,
    owing    <- Owing

\* Presence may rely on roomVersion: whenever the number of clients a room lists
\* changes, in a JoinRoom, a LeaveRoom, a cleanup or the deletion of a room
\* object, the version moves with it or a call in flight will move it later.
RoomsImplementCounts == Counts!CountsSpec
=============================================================================
