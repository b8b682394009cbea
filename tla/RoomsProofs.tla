----------------------------- MODULE RoomsProofs -----------------------------
(* Proofs about Rooms for any number of clients, room names and goroutines. *)
EXTENDS Rooms, FiniteSetTheorems, TLAPS

\* A room object is registered under one name at most, and a goroutine that
\* holds a registered object holds its name too.  Pointers to objects that
\* have been deleted from h.rooms are not constrained.
OneName ==
    /\ \A m, n \in Name : rooms[m] # Nil /\ rooms[m] = rooms[n] => m = n
    /\ \A p \in Worker : \A n \in Name :
          op[p].room # Nil /\ rooms[n] = op[p].room => op[p].name = n

-----------------------------------------------------------------------------
\* Replacing the call of one goroutine by a well-formed one.
LEMMA OpUpdate ==
    ASSUME RoomsTypeOK, NEW p \in Worker, NEW o, OpOK(o), op' = [op EXCEPT ![p] = o]
    PROVE  op' \in [Worker -> Op] /\ \A q \in Worker : OpOK(op'[q])
    BY DEF RoomsTypeOK, OpOK

\* A goroutine outside any call is well formed.
LEMMA IdleOK == OpOK(Idle)
    BY DEF OpOK, Op, Idle, Kinds, PCs

\* The continuation after a room is well formed.
LEMMA AfterRoomOK ==
    ASSUME RoomsTypeOK, NEW p \in Worker, op[p].pc # "idle"
    PROVE  OpOK(AfterRoom(p))
<1>1. OpOK(op[p])
    BY DEF RoomsTypeOK
<1>2. OpOK([op[p] EXCEPT !.pc = "next", !.name = Nil, !.room = Nil])
    BY <1>1 DEF OpOK, Op, PCs
<1> QED
    BY <1>2, IdleOK DEF AfterRoom

\* Every step keeps the types: in particular JoinRoom and the loop over the
\* rooms of a client never lock a nil room.
LEMMA TypeStep == RoomsTypeOK /\ [RoomsNext]_roomVars => RoomsTypeOK'
<1> SUFFICES ASSUME RoomsTypeOK, [RoomsNext]_roomVars PROVE RoomsTypeOK'
    OBVIOUS
<1> USE ConstantsAssumption
<1>1. ASSUME NEW p \in Proc, NEW c \in RoomClient, NEW n \in Name, JoinRoom(p, c, n)
     PROVE  RoomsTypeOK'
    BY <1>1 DEF JoinRoom, MayStart, RoomsTypeOK, OpOK, Op, Idle, Kinds, PCs,
       Worker
<1>2. ASSUME NEW p \in Proc, NEW c \in RoomClient, NEW n \in Name, LeaveRoom(p, c, n)
     PROVE  RoomsTypeOK'
    <2> DEFINE o == [Idle EXCEPT !.kind = "leave", !.pc = "check",
                                 !.client = c, !.name = n, !.room = rooms[n]]
    <2>1. rooms[n] \in RoomObj
        BY <1>2 DEF LeaveRoom, RoomsTypeOK
    <2>2. OpOK(o)
        BY <2>1 DEF OpOK, Op, Idle, Kinds, PCs
    <2>3. op' = [op EXCEPT ![p] = o]
        BY <1>2 DEF LeaveRoom
    <2>4. op' \in [Worker -> Op] /\ \A q \in Worker : OpOK(op'[q])
        <3> HIDE DEF o
        <3> QED
            BY <2>2, <2>3, OpUpdate DEF Worker
    <2> QED
        BY <1>2, <2>4 DEF LeaveRoom, RoomsTypeOK
<1>3. ASSUME NEW p \in Proc, NEW c \in RoomClient, LeaveAllRooms(p, c)
     PROVE  RoomsTypeOK'
    BY <1>3 DEF LeaveAllRooms, MayStart, RoomsTypeOK, OpOK, Op, Idle, Kinds,
       PCs, Worker
<1>4. ASSUME NEW c \in RoomClient, Register(c) PROVE RoomsTypeOK'
    BY <1>4 DEF Register, RoomsTypeOK, OpOK, Op, Idle, Kinds, PCs, Worker
<1>5. ASSUME NEW c \in RoomClient, Unregister(c) PROVE RoomsTypeOK'
    <2>1. PICK s \in {"deregister", "next"} :
             op' = [op EXCEPT ![RunLoop] =
                      [Idle EXCEPT !.kind = "unregister", !.client = c,
                                   !.pc = s, !.todo = clientRooms[c]]]
        BY <1>5 DEF Unregister
    <2>2. OpOK([Idle EXCEPT !.kind = "unregister", !.client = c,
                            !.pc = s, !.todo = clientRooms[c]])
        BY DEF RoomsTypeOK, OpOK, Op, Idle, Kinds, PCs
    <2>3. op' \in [Worker -> Op] /\ \A q \in Worker : OpOK(op'[q])
        BY <2>1, <2>2, OpUpdate DEF Worker
    <2> QED
        BY <1>5, <2>3 DEF Unregister, RoomsTypeOK
<1>6. ASSUME NEW p \in Worker, JoinVetoed(p) PROVE RoomsTypeOK'
    BY <1>6 DEF JoinVetoed, RoomsTypeOK, OpOK, Op, Idle, Kinds, PCs, Worker
<1>7. ASSUME NEW p \in Worker, JoinFind(p) PROVE RoomsTypeOK'
    <2>1. OpOK([op[p] EXCEPT !.pc = "joinLock", !.room = rooms[op[p].name]])
        <3>1. /\ OpOK(op[p]) /\ op[p].name \in Name /\ op[p].client \in RoomClient
              /\ rooms[op[p].name] \in RoomObj
            BY <1>7 DEF JoinFind, RoomsTypeOK, OpOK
        <3> QED
            BY <3>1 DEF OpOK, Op, PCs
    <2>2. op' = [op EXCEPT ![p] = [op[p] EXCEPT !.pc = "joinLock",
                                                !.room = rooms[op[p].name]]]
        BY <1>7 DEF JoinFind
    <2>3. op' \in [Worker -> Op] /\ \A q \in Worker : OpOK(op'[q])
        BY <2>1, <2>2, OpUpdate
    <2> QED
        BY <1>7, <2>3 DEF JoinFind, RoomsTypeOK
<1>8. ASSUME NEW p \in Worker, JoinCreate(p) PROVE RoomsTypeOK'
    <2>1. PICK r \in RoomObj \ Referenced :
             /\ rooms' = [rooms EXCEPT ![op[p].name] = r]
             /\ members' = [members EXCEPT ![r] = {}]
             /\ op' = [op EXCEPT ![p] = [@ EXCEPT !.pc = "joinLock", !.room = r,
                                                  !.created = TRUE]]
        BY <1>8 DEF JoinCreate
    <2>2. OpOK([op[p] EXCEPT !.pc = "joinLock", !.room = r, !.created = TRUE])
        <3>1. OpOK(op[p]) /\ op[p].name \in Name /\ op[p].client \in RoomClient
            BY <1>8 DEF JoinCreate, RoomsTypeOK, OpOK
        <3> QED
            BY <3>1 DEF OpOK, Op, PCs
    <2>3. op' \in [Worker -> Op] /\ \A q \in Worker : OpOK(op'[q])
        BY <2>1, <2>2, OpUpdate
    <2> QED
        BY <1>8, <2>1, <2>3 DEF JoinCreate, RoomsTypeOK
<1>9. ASSUME NEW p \in Worker, JoinRefuse(p) PROVE RoomsTypeOK'
    <2>1. OpOK([op[p] EXCEPT !.pc = "delete"])
        BY <1>9 DEF JoinRefuse, RoomsTypeOK, OpOK, Op, PCs
    <2>2. OpOK(Idle)
        BY IdleOK
    <2>3. op' \in [Worker -> Op] /\ \A q \in Worker : OpOK(op'[q])
        <3>1. CASE op[p].created /\ members[op[p].room] = {}
            BY <1>9, <2>1, <3>1, OpUpdate DEF JoinRefuse
        <3>2. CASE ~(op[p].created /\ members[op[p].room] = {})
            BY <1>9, <2>2, <3>2, OpUpdate DEF JoinRefuse
        <3> QED
            BY <3>1, <3>2
    <2> QED
        BY <1>9, <2>3 DEF JoinRefuse, RoomsTypeOK
<1>10. ASSUME NEW p \in Worker, JoinAdd(p) PROVE RoomsTypeOK'
    BY <1>10 DEF JoinAdd, RoomsTypeOK, OpOK, Op, Idle, Kinds, PCs, Worker
<1>11. ASSUME NEW p \in Worker, JoinBump(p) PROVE RoomsTypeOK'
    BY <1>11 DEF JoinBump, RoomsTypeOK, OpOK, Op, Idle, Kinds, PCs, Worker
<1>12. ASSUME NEW p \in Worker, CheckMember(p) PROVE RoomsTypeOK'
    <2>1. OpOK([op[p] EXCEPT !.pc = "remove"])
        BY <1>12 DEF CheckMember, RoomsTypeOK, OpOK, Op, PCs
    <2>2. OpOK(AfterRoom(p))
        BY <1>12, AfterRoomOK DEF CheckMember
    <2>3. op' \in [Worker -> Op] /\ \A q \in Worker : OpOK(op'[q])
        <3>1. CASE op[p].client \in members[op[p].room]
            BY <1>12, <2>1, <3>1, OpUpdate DEF CheckMember
        <3>2. CASE ~(op[p].client \in members[op[p].room])
            BY <1>12, <2>2, <3>2, OpUpdate DEF CheckMember
        <3> QED
            BY <3>1, <3>2
    <2> QED
        BY <1>12, <2>3 DEF CheckMember, RoomsTypeOK
<1>13. ASSUME NEW p \in Worker, AlreadyLeft(p) PROVE RoomsTypeOK'
    <2>1. op' \in [Worker -> Op] /\ \A q \in Worker : OpOK(op'[q])
        BY <1>13, AfterRoomOK, OpUpdate DEF AlreadyLeft
    <2> QED
        BY <1>13, <2>1 DEF AlreadyLeft, RoomsTypeOK
<1>14. ASSUME NEW p \in Worker, LeaveRemove(p) PROVE RoomsTypeOK'
    BY <1>14 DEF LeaveRemove, RemoveMember, RoomsTypeOK, OpOK, Op, Idle, Kinds,
       PCs, Worker
<1>15. ASSUME NEW p \in Worker, NextRoom(p) PROVE RoomsTypeOK'
    <2>1. PICK n \in op[p].todo :
             op' = [op EXCEPT ![p] =
                      IF rooms[n] = Nil
                      THEN [op[p] EXCEPT !.todo = op[p].todo \ {n}]
                      ELSE [op[p] EXCEPT !.todo = op[p].todo \ {n}, !.name = n,
                                         !.room = rooms[n], !.pc = "check"]]
        BY <1>15 DEF NextRoom
    <2>2. OpOK([op[p] EXCEPT !.todo = op[p].todo \ {n}])
        BY DEF RoomsTypeOK, OpOK, Op
    <2>3. n \in Name
        BY DEF RoomsTypeOK, OpOK, Op
    <2>4. rooms[n] # Nil =>
             OpOK([op[p] EXCEPT !.todo = op[p].todo \ {n}, !.name = n,
                                !.room = rooms[n], !.pc = "check"])
        <3>1. op[p] \in Op /\ op[p].client \in RoomClient
            BY <1>15 DEF NextRoom, RoomsTypeOK, OpOK
        <3>2. rooms[n] # Nil => rooms[n] \in RoomObj
            BY <2>3 DEF RoomsTypeOK
        <3> QED
            BY <2>3, <3>1, <3>2 DEF OpOK, Op, PCs
    <2>5. op' \in [Worker -> Op] /\ \A q \in Worker : OpOK(op'[q])
        <3>1. CASE rooms[n] = Nil
            <4>1. op' = [op EXCEPT ![p] = [op[p] EXCEPT !.todo = op[p].todo \ {n}]]
                BY <2>1, <3>1
            <4> QED
                BY <2>2, <4>1, OpUpdate
        <3>2. CASE rooms[n] # Nil
            <4>1. op' = [op EXCEPT ![p] =
                           [op[p] EXCEPT !.todo = op[p].todo \ {n}, !.name = n,
                                         !.room = rooms[n], !.pc = "check"]]
                BY <2>1, <3>2
            <4> QED
                BY <2>4, <3>2, <4>1, OpUpdate
        <3> QED
            BY <3>1, <3>2
    <2> QED
        BY <1>15, <2>5 DEF NextRoom, RoomsTypeOK
<1>16. ASSUME NEW p \in Worker, LoopRemove(p) PROVE RoomsTypeOK'
    <2>1. OpOK([op[p] EXCEPT !.left = op[p].left \cup {op[p].name}, !.pc = "delete"])
        <3>1. /\ OpOK(op[p]) /\ op[p].name \in Name /\ op[p].client \in RoomClient
              /\ op[p].room \in RoomObj
            BY <1>16 DEF LoopRemove, RemoveMember, RoomsTypeOK, OpOK
        <3>2. op[p].left \cup {op[p].name} \in SUBSET Name
            BY <3>1 DEF OpOK, Op
        <3> QED
            BY <3>1, <3>2 DEF OpOK, Op, PCs
    <2>2. OpOK([AfterRoom(p) EXCEPT !.left = op[p].left \cup {op[p].name}])
        <3>1. OpOK(AfterRoom(p))
            BY <1>16, AfterRoomOK DEF LoopRemove, RemoveMember
        <3>2. op[p].left \cup {op[p].name} \in SUBSET Name
            BY <1>16 DEF LoopRemove, RemoveMember, RoomsTypeOK, OpOK, Op
        <3> QED
            BY <3>1, <3>2 DEF OpOK, Op
    <2>3. op' \in [Worker -> Op] /\ \A q \in Worker : OpOK(op'[q])
        <3>1. CASE members'[op[p].room] = {}
            <4>1. op' = [op EXCEPT ![p] = [op[p] EXCEPT
                            !.left = op[p].left \cup {op[p].name}, !.pc = "delete"]]
                BY <1>16, <3>1 DEF LoopRemove
            <4> QED
                BY <2>1, <4>1, OpUpdate
        <3>2. CASE ~(members'[op[p].room] = {})
            <4>1. op' = [op EXCEPT ![p] =
                            [AfterRoom(p) EXCEPT !.left = op[p].left \cup {op[p].name}]]
                BY <1>16, <3>2 DEF LoopRemove
            <4> QED
                BY <2>2, <4>1, OpUpdate
        <3> QED
            BY <3>1, <3>2
    <2> QED
        BY <1>16, <2>3 DEF LoopRemove, RoomsTypeOK, RemoveMember
<1>17. ASSUME NEW p \in Worker, ForgetRooms(p) PROVE RoomsTypeOK'
    BY <1>17 DEF ForgetRooms, RoomsTypeOK, OpOK, Op, Idle, Kinds, PCs, Worker
<1>18. ASSUME NEW p \in Worker, LeftBump(p) PROVE RoomsTypeOK'
    <2>1. OpOK([Idle EXCEPT !.kind = "unregister", !.client = op[p].client,
                         !.pc = "deregister"])
        BY <1>18 DEF LeftBump, RoomsTypeOK, OpOK, Op, Idle, Kinds, PCs
    <2>2. OpOK(Idle)
        BY IdleOK
    <2>3. op' \in [Worker -> Op] /\ \A q \in Worker : OpOK(op'[q])
        <3>1. CASE op[p].kind = "unregister"
            BY <1>18, <2>1, <3>1, OpUpdate DEF LeftBump
        <3>2. CASE ~(op[p].kind = "unregister")
            BY <1>18, <2>2, <3>2, OpUpdate DEF LeftBump
        <3> QED
            BY <3>1, <3>2
    <2>4. Cardinality(op[p].left) \in Nat
        BY FS_Subset, FS_CardinalityType DEF RoomsTypeOK, OpOK, Op
    <2> QED
        BY <1>18, <2>3, <2>4 DEF LeftBump, RoomsTypeOK
<1>19. ASSUME NEW p \in Worker, DeleteRoomIfEmpty(p) PROVE RoomsTypeOK'
    <2>1. op' \in [Worker -> Op] /\ \A q \in Worker : OpOK(op'[q])
        BY <1>19, AfterRoomOK, OpUpdate DEF DeleteRoomIfEmpty
    <2>2. rooms' \in [Name -> RoomObj \cup {Nil}]
        BY <1>19 DEF DeleteRoomIfEmpty, RoomsTypeOK
    <2> QED
        BY <1>19, <2>1, <2>2 DEF DeleteRoomIfEmpty, RoomsTypeOK
<1>20. ASSUME Deregister PROVE RoomsTypeOK'
    BY <1>20 DEF Deregister, RoomsTypeOK, OpOK, Op, Idle, Kinds, PCs, Worker
<1>21. ASSUME UNCHANGED roomVars PROVE RoomsTypeOK'
    BY <1>21 DEF roomVars, RoomsTypeOK
<1> QED
    BY <1>1, <1>2, <1>3, <1>4, <1>5, <1>6, <1>7, <1>8, <1>9, <1>10, <1>11,
       <1>12, <1>13, <1>14, <1>15, <1>16, <1>17, <1>18, <1>19, <1>20, <1>21
       DEF RoomsNext, Call, Continue, JoinStep, LeaveStep, LoopStep, Worker

-----------------------------------------------------------------------------
\* Every step keeps the naming: only JoinCreate registers an object, one that
\* nobody refers to.
LEMMA OneNameStep == RoomsTypeOK /\ OneName /\ [RoomsNext]_roomVars => OneName'
<1> SUFFICES ASSUME RoomsTypeOK, OneName, [RoomsNext]_roomVars PROVE OneName'
    OBVIOUS
<1> USE ConstantsAssumption DEF RoomsTypeOK, OpOK, Op, OneName
<1>1. ASSUME NEW p \in Proc, NEW c \in RoomClient, NEW n \in Name, JoinRoom(p, c, n)
     PROVE  OneName'
    BY <1>1 DEF JoinRoom, MayStart, Idle, Worker
<1>2. ASSUME NEW p \in Proc, NEW c \in RoomClient, NEW n \in Name, LeaveRoom(p, c, n)
     PROVE  OneName'
    BY <1>2 DEF LeaveRoom, MayStart, Idle, Worker
<1>3. ASSUME NEW p \in Proc, NEW c \in RoomClient, LeaveAllRooms(p, c)
     PROVE  OneName'
    BY <1>3 DEF LeaveAllRooms, MayStart, Idle, Worker
<1>4. ASSUME NEW c \in RoomClient, Register(c) PROVE OneName'
    BY <1>4 DEF Register, Idle, Worker
<1>5. ASSUME NEW c \in RoomClient, Unregister(c) PROVE OneName'
    BY <1>5 DEF Unregister, Idle, Worker
<1>6. ASSUME NEW p \in Worker, JoinVetoed(p) PROVE OneName'
    BY <1>6 DEF JoinVetoed, Idle, Worker
<1>7. ASSUME NEW p \in Worker, JoinFind(p) PROVE OneName'
    BY <1>7 DEF JoinFind, Idle, Worker
<1>8. ASSUME NEW p \in Worker, JoinCreate(p) PROVE OneName'
    <2>1. PICK r \in RoomObj \ Referenced :
             /\ rooms' = [rooms EXCEPT ![op[p].name] = r]
             /\ members' = [members EXCEPT ![r] = {}]
             /\ op' = [op EXCEPT ![p] = [@ EXCEPT !.pc = "joinLock", !.room = r,
                                                  !.created = TRUE]]
        BY <1>8 DEF JoinCreate
    <2>2. /\ op[p].pc = "joinGet" /\ op[p].name \in Name
          /\ \A m \in Name : rooms[m] # r
          /\ \A q \in Worker : op[q].room # r
        BY <1>8 DEF JoinCreate, Referenced
    <2>3. \A m \in Name : rooms'[m] = IF m = op[p].name THEN r ELSE rooms[m]
        BY <2>1
    <2>4. /\ op'[p].room = r /\ op'[p].name = op[p].name
          /\ op'[p].pc = "joinLock" /\ op'[p].created = TRUE
        BY <2>1
    <2>5. \A q \in Worker : q # p => op'[q] = op[q]
        BY <2>1
    <2>6. \A m, n \in Name : rooms'[m] # Nil /\ rooms'[m] = rooms'[n] => m = n
        BY <2>2, <2>3
    <2>7. ASSUME NEW q \in Worker, NEW n \in Name,
                 op'[q].room # Nil, rooms'[n] = op'[q].room
          PROVE  op'[q].name = n
        <3>1. CASE q = p
            BY <2>2, <2>3, <2>4, <2>7, <3>1
        <3>2. CASE q # p
            BY <2>2, <2>3, <2>5, <2>7, <3>2
        <3> QED
            BY <3>1, <3>2
    <2> QED
        BY <2>6, <2>7
<1>9. ASSUME NEW p \in Worker, JoinRefuse(p) PROVE OneName'
    BY <1>9 DEF JoinRefuse, Idle, Worker
<1>10. ASSUME NEW p \in Worker, JoinAdd(p) PROVE OneName'
    BY <1>10 DEF JoinAdd, Idle, Worker
<1>11. ASSUME NEW p \in Worker, JoinBump(p) PROVE OneName'
    BY <1>11 DEF JoinBump, Idle, Worker
<1>12. ASSUME NEW p \in Worker, CheckMember(p) PROVE OneName'
    BY <1>12 DEF CheckMember, AfterRoom, Idle, Worker
<1>13. ASSUME NEW p \in Worker, AlreadyLeft(p) PROVE OneName'
    BY <1>13 DEF AlreadyLeft, AfterRoom, Idle, Worker
<1>14. ASSUME NEW p \in Worker, LeaveRemove(p) PROVE OneName'
    BY <1>14 DEF LeaveRemove, RemoveMember, Idle, Worker
<1>15. ASSUME NEW p \in Worker, NextRoom(p) PROVE OneName'
    BY <1>15 DEF NextRoom, Idle, Worker
<1>16. ASSUME NEW p \in Worker, LoopRemove(p) PROVE OneName'
    BY <1>16 DEF LoopRemove, RemoveMember, AfterRoom, Idle, Worker
<1>17. ASSUME NEW p \in Worker, ForgetRooms(p) PROVE OneName'
    BY <1>17 DEF ForgetRooms, Idle, Worker
<1>18. ASSUME NEW p \in Worker, LeftBump(p) PROVE OneName'
    BY <1>18 DEF LeftBump, Idle, Worker
<1>19. ASSUME NEW p \in Worker, DeleteRoomIfEmpty(p) PROVE OneName'
    BY <1>19 DEF DeleteRoomIfEmpty, AfterRoom, Idle, Worker
<1>20. ASSUME Deregister PROVE OneName'
    BY <1>20 DEF Deregister, Idle, Worker
<1>21. ASSUME UNCHANGED roomVars PROVE OneName'
    BY <1>21 DEF roomVars
<1> QED
    BY <1>1, <1>2, <1>3, <1>4, <1>5, <1>6, <1>7, <1>8, <1>9, <1>10, <1>11,
       <1>12, <1>13, <1>14, <1>15, <1>16, <1>17, <1>18, <1>19, <1>20, <1>21
       DEF RoomsNext, Call, Continue, JoinStep, LeaveStep, LoopStep, Worker

\* Every step leaves each empty registered room with a custodian: the creator
\* until it has added its client or deleted the room, and whoever removed the
\* last member until it has called deleteRoomIfEmpty.
LEMMA LeakStep ==
    RoomsTypeOK /\ OneName /\ NoEmptyRoomLeak /\ [RoomsNext]_roomVars => NoEmptyRoomLeak'
<1> SUFFICES ASSUME RoomsTypeOK, OneName, NoEmptyRoomLeak, [RoomsNext]_roomVars
             PROVE  NoEmptyRoomLeak'
    OBVIOUS
<1> USE ConstantsAssumption DEF RoomsTypeOK, OpOK, Op, OneName, NoEmptyRoomLeak, Custodian
<1>1. ASSUME NEW p \in Proc, NEW c \in RoomClient, NEW n \in Name, JoinRoom(p, c, n)
     PROVE  NoEmptyRoomLeak'
    BY <1>1 DEF JoinRoom, MayStart, Idle, Worker
<1>2. ASSUME NEW p \in Proc, NEW c \in RoomClient, NEW n \in Name, LeaveRoom(p, c, n)
     PROVE  NoEmptyRoomLeak'
    BY <1>2 DEF LeaveRoom, MayStart, Idle, Worker
<1>3. ASSUME NEW p \in Proc, NEW c \in RoomClient, LeaveAllRooms(p, c)
     PROVE  NoEmptyRoomLeak'
    BY <1>3 DEF LeaveAllRooms, MayStart, Idle, Worker
<1>4. ASSUME NEW c \in RoomClient, Register(c) PROVE NoEmptyRoomLeak'
    BY <1>4 DEF Register, Idle, Worker
<1>5. ASSUME NEW c \in RoomClient, Unregister(c) PROVE NoEmptyRoomLeak'
    BY <1>5 DEF Unregister, Idle, Worker
<1>6. ASSUME NEW p \in Worker, JoinVetoed(p) PROVE NoEmptyRoomLeak'
    BY <1>6 DEF JoinVetoed, Idle, Worker
<1>7. ASSUME NEW p \in Worker, JoinFind(p) PROVE NoEmptyRoomLeak'
    BY <1>7 DEF JoinFind, Idle, Worker
<1>8. ASSUME NEW p \in Worker, JoinCreate(p) PROVE NoEmptyRoomLeak'
    <2>1. PICK r \in RoomObj \ Referenced :
             /\ rooms' = [rooms EXCEPT ![op[p].name] = r]
             /\ members' = [members EXCEPT ![r] = {}]
             /\ op' = [op EXCEPT ![p] = [@ EXCEPT !.pc = "joinLock", !.room = r,
                                                  !.created = TRUE]]
        BY <1>8 DEF JoinCreate
    <2>2. /\ op[p].pc = "joinGet" /\ op[p].name \in Name
          /\ \A m \in Name : rooms[m] # r
          /\ \A q \in Worker : op[q].room # r
        BY <1>8 DEF JoinCreate, Referenced
    <2>3. \A m \in Name : rooms'[m] = IF m = op[p].name THEN r ELSE rooms[m]
        BY <2>1
    <2>4. /\ op'[p].room = r /\ op'[p].name = op[p].name
          /\ op'[p].pc = "joinLock" /\ op'[p].created = TRUE
        BY <2>1
    <2>5. \A q \in Worker : q # p => op'[q] = op[q]
        BY <2>1
    <2>6. ASSUME NEW n \in Name, rooms'[n] # Nil, members'[rooms'[n]] = {}
          PROVE  \E q \in Worker : Custodian(q, rooms[n])' /\ op'[q].name = n
        <3>1. CASE n = op[p].name
            BY <2>3, <2>4, <3>1
        <3>2. CASE n # op[p].name
            <4>1. rooms'[n] = rooms[n] /\ members'[rooms[n]] = members[rooms[n]]
                BY <2>1, <2>2, <2>3, <3>2
            <4>2. PICK q \in Worker : Custodian(q, rooms[n]) /\ op[q].name = n
                BY <2>6, <4>1
            <4>3. q # p
                BY <2>2, <4>2
            <4> QED
                BY <2>5, <4>1, <4>2, <4>3
        <3> QED
            BY <3>1, <3>2
    <2> QED
        BY <2>6
<1>9. ASSUME NEW p \in Worker, JoinRefuse(p) PROVE NoEmptyRoomLeak'
    BY <1>9 DEF JoinRefuse, Idle, Worker
<1>10. ASSUME NEW p \in Worker, JoinAdd(p) PROVE NoEmptyRoomLeak'
    BY <1>10 DEF JoinAdd, Idle, Worker
<1>11. ASSUME NEW p \in Worker, JoinBump(p) PROVE NoEmptyRoomLeak'
    BY <1>11 DEF JoinBump, Idle, Worker
<1>12. ASSUME NEW p \in Worker, CheckMember(p) PROVE NoEmptyRoomLeak'
    BY <1>12 DEF CheckMember, AfterRoom, Idle, Worker
<1>13. ASSUME NEW p \in Worker, AlreadyLeft(p) PROVE NoEmptyRoomLeak'
    BY <1>13 DEF AlreadyLeft, AfterRoom, Idle, Worker
<1>14. ASSUME NEW p \in Worker, LeaveRemove(p) PROVE NoEmptyRoomLeak'
    BY <1>14 DEF LeaveRemove, RemoveMember, Idle, Worker
<1>15. ASSUME NEW p \in Worker, NextRoom(p) PROVE NoEmptyRoomLeak'
    BY <1>15 DEF NextRoom, Idle, Worker
<1>16. ASSUME NEW p \in Worker, LoopRemove(p) PROVE NoEmptyRoomLeak'
    BY <1>16 DEF LoopRemove, RemoveMember, AfterRoom, Idle, Worker
<1>17. ASSUME NEW p \in Worker, ForgetRooms(p) PROVE NoEmptyRoomLeak'
    BY <1>17 DEF ForgetRooms, Idle, Worker
<1>18. ASSUME NEW p \in Worker, LeftBump(p) PROVE NoEmptyRoomLeak'
    BY <1>18 DEF LeftBump, Idle, Worker
<1>19. ASSUME NEW p \in Worker, DeleteRoomIfEmpty(p) PROVE NoEmptyRoomLeak'
    BY <1>19 DEF DeleteRoomIfEmpty, AfterRoom, Idle, Worker
<1>20. ASSUME Deregister PROVE NoEmptyRoomLeak'
    BY <1>20 DEF Deregister, Idle, Worker
<1>21. ASSUME UNCHANGED roomVars PROVE NoEmptyRoomLeak'
    BY <1>21 DEF roomVars
<1> QED
    BY <1>1, <1>2, <1>3, <1>4, <1>5, <1>6, <1>7, <1>8, <1>9, <1>10, <1>11,
       <1>12, <1>13, <1>14, <1>15, <1>16, <1>17, <1>18, <1>19, <1>20, <1>21
       DEF RoomsNext, Call, Continue, JoinStep, LeaveStep, LoopStep, Worker

-----------------------------------------------------------------------------
\* The sets the limits count are finite.
LEMMA Finite ==
    RoomsTypeOK => /\ \A r \in RoomObj : IsFiniteSet(members[r])
                   /\ \A c \in RoomClient : IsFiniteSet(clientRooms[c])
<1> SUFFICES ASSUME RoomsTypeOK PROVE
              /\ \A r \in RoomObj : IsFiniteSet(members[r])
              /\ \A c \in RoomClient : IsFiniteSet(clientRooms[c])
    OBVIOUS
<1>1. \A r \in RoomObj : members[r] \in SUBSET RoomClient
    BY DEF RoomsTypeOK
<1>2. \A c \in RoomClient : clientRooms[c] \in SUBSET Name
    BY DEF RoomsTypeOK
<1> QED
    BY <1>1, <1>2, ConstantsAssumption, FS_Subset

\* A room that only lost members is still within the limit.
LEMMA SmallerRooms ==
    ASSUME RoomsTypeOK, RoomLimit, \A r \in RoomObj : members'[r] \in SUBSET members[r]
    PROVE  RoomLimit'
<1>1. \A r \in RoomObj :
         /\ Cardinality(members'[r]) <= Cardinality(members[r])
         /\ Cardinality(members'[r]) \in Nat /\ Cardinality(members[r]) \in Nat
    BY Finite, FS_Subset, FS_CardinalityType
<1> QED
    BY <1>1, ConstantsAssumption DEF RoomLimit

\* A client that only left rooms is still within the limit.
LEMMA SmallerClients ==
    ASSUME RoomsTypeOK, ClientLimit,
           \A c \in RoomClient : clientRooms'[c] \in SUBSET clientRooms[c]
    PROVE  ClientLimit'
<1>1. \A c \in RoomClient :
         /\ Cardinality(clientRooms'[c]) <= Cardinality(clientRooms[c])
         /\ Cardinality(clientRooms'[c]) \in Nat /\ Cardinality(clientRooms[c]) \in Nat
    BY Finite, FS_Subset, FS_CardinalityType
<1> QED
    BY <1>1, ConstantsAssumption DEF ClientLimit

\* Only JoinAdd makes a room larger, and it has looked at the size under the
\* same room.mu.
LEMMA RoomLimitStep == RoomsTypeOK /\ RoomLimit /\ [RoomsNext]_roomVars => RoomLimit'
<1> SUFFICES ASSUME RoomsTypeOK, RoomLimit, [RoomsNext]_roomVars PROVE RoomLimit'
    OBVIOUS
<1> USE ConstantsAssumption DEF RoomLimit
<1>1. ASSUME NEW p \in Worker, JoinCreate(p) PROVE RoomLimit'
    <2>1. \A r \in RoomObj : members'[r] = members[r] \/ members'[r] = {}
        BY <1>1 DEF JoinCreate, RoomsTypeOK
    <2> QED
        BY <2>1, FS_EmptySet
<1>2. ASSUME NEW p \in Worker, JoinAdd(p) PROVE RoomLimit'
    <2> DEFINE r == op[p].room
               c == op[p].client
    <2>1. r \in RoomObj /\ IsFiniteSet(members[r]) /\ Cardinality(members[r]) \in Nat
        BY <1>2, Finite, FS_CardinalityType DEF JoinAdd, RoomsTypeOK, OpOK
    <2>2. \A x \in RoomObj :
             members'[x] = IF x = r THEN members[r] \cup {c} ELSE members[x]
        BY <1>2 DEF JoinAdd, RoomsTypeOK
    <2>3. c \notin members[r] /\ ~RoomFull(r)
        BY <1>2 DEF JoinAdd, JoinRefused
    <2>4. Cardinality(members[r] \cup {c}) = Cardinality(members[r]) + 1
        BY <2>1, <2>3, FS_AddElement
    <2> HIDE DEF r, c
    <2> QED
        BY <2>1, <2>2, <2>3, <2>4 DEF RoomFull
<1>3. ASSUME NEW p \in Worker, LeaveRemove(p) PROVE RoomLimit'
    <2>1. \A r \in RoomObj : members'[r] \in SUBSET members[r]
        BY <1>3 DEF LeaveRemove, RemoveMember, RoomsTypeOK
    <2> QED
        BY <2>1, SmallerRooms
<1>4. ASSUME NEW p \in Worker, LoopRemove(p) PROVE RoomLimit'
    <2>1. \A r \in RoomObj : members'[r] \in SUBSET members[r]
        BY <1>4 DEF LoopRemove, RemoveMember, RoomsTypeOK
    <2> QED
        BY <2>1, SmallerRooms
<1>5. ASSUME NEW p \in Proc, NEW c \in RoomClient, NEW n \in Name,
          \/ JoinRoom(p, c, n) \/ LeaveRoom(p, c, n)
     PROVE  RoomLimit'
    BY <1>5 DEF JoinRoom, MayStart, LeaveRoom
<1>6. ASSUME NEW p \in Proc, NEW c \in RoomClient, LeaveAllRooms(p, c)
     PROVE  RoomLimit'
    BY <1>6 DEF LeaveAllRooms, MayStart
<1>7. ASSUME NEW c \in RoomClient,
          \/ Register(c) \/ Unregister(c)
     PROVE  RoomLimit'
    BY <1>7 DEF Register, Unregister
<1>8. ASSUME NEW p \in Worker,
          \/ JoinVetoed(p) \/ JoinFind(p) \/ JoinRefuse(p) \/ JoinBump(p)
          \/ CheckMember(p) \/ AlreadyLeft(p) \/ NextRoom(p)
          \/ ForgetRooms(p) \/ LeftBump(p) \/ DeleteRoomIfEmpty(p)
     PROVE  RoomLimit'
    BY <1>8 DEF JoinVetoed, JoinFind, JoinRefuse, JoinBump, CheckMember,
       AfterRoom, AlreadyLeft, NextRoom, ForgetRooms, LeftBump,
       DeleteRoomIfEmpty
<1>9. ASSUME Deregister PROVE RoomLimit'
    BY <1>9 DEF Deregister
<1>10. ASSUME UNCHANGED roomVars PROVE RoomLimit'
    BY <1>10 DEF roomVars
<1> QED
    BY <1>1, <1>2, <1>3, <1>4, <1>5, <1>6, <1>7, <1>8, <1>9, <1>10 DEF
       RoomsNext, Call, Continue, JoinStep, LeaveStep, LoopStep, Worker

\* Only JoinAdd makes client.rooms larger, and it has looked at the size under
\* the same client.mu.
LEMMA ClientLimitStep == RoomsTypeOK /\ ClientLimit /\ [RoomsNext]_roomVars => ClientLimit'
<1> SUFFICES ASSUME RoomsTypeOK, ClientLimit, [RoomsNext]_roomVars PROVE ClientLimit'
    OBVIOUS
<1> USE ConstantsAssumption DEF ClientLimit
<1>1. ASSUME NEW p \in Worker, JoinAdd(p) PROVE ClientLimit'
    <2> DEFINE c == op[p].client
               n == op[p].name
    <2>1. /\ c \in RoomClient /\ IsFiniteSet(clientRooms[c])
          /\ Cardinality(clientRooms[c]) \in Nat
        BY <1>1, Finite, FS_CardinalityType DEF JoinAdd, RoomsTypeOK, OpOK
    <2>2. \A x \in RoomClient :
             clientRooms'[x] = IF x = c THEN clientRooms[c] \cup {n} ELSE clientRooms[x]
        BY <1>1 DEF JoinAdd, RoomsTypeOK
    <2>3. ~ClientFull(c)
        BY <1>1 DEF JoinAdd, JoinRefused
    <2>4. Cardinality(clientRooms[c] \cup {n}) =
             IF n \in clientRooms[c] THEN Cardinality(clientRooms[c])
                                     ELSE Cardinality(clientRooms[c]) + 1
        BY <2>1, FS_AddElement
    <2> HIDE DEF c, n
    <2> QED
        BY <2>1, <2>2, <2>3, <2>4 DEF ClientFull
<1>2. ASSUME NEW p \in Worker, LeaveRemove(p) PROVE ClientLimit'
    <2>1. \A c \in RoomClient : clientRooms'[c] \in SUBSET clientRooms[c]
        BY <1>2 DEF LeaveRemove, RoomsTypeOK
    <2> QED
        BY <2>1, SmallerClients
<1>3. ASSUME NEW p \in Worker, ForgetRooms(p) PROVE ClientLimit'
    <2>1. \A c \in RoomClient : clientRooms'[c] \in SUBSET clientRooms[c]
        BY <1>3 DEF ForgetRooms, RoomsTypeOK
    <2> QED
        BY <2>1, SmallerClients
<1>4. ASSUME NEW p \in Proc, NEW c \in RoomClient, NEW n \in Name,
          \/ JoinRoom(p, c, n) \/ LeaveRoom(p, c, n)
     PROVE  ClientLimit'
    BY <1>4 DEF JoinRoom, MayStart, LeaveRoom
<1>5. ASSUME NEW p \in Proc, NEW c \in RoomClient, LeaveAllRooms(p, c)
     PROVE  ClientLimit'
    BY <1>5 DEF LeaveAllRooms, MayStart
<1>6. ASSUME NEW c \in RoomClient,
          \/ Register(c) \/ Unregister(c)
     PROVE  ClientLimit'
    BY <1>6 DEF Register, Unregister
<1>7. ASSUME NEW p \in Worker,
          \/ JoinVetoed(p) \/ JoinFind(p) \/ JoinCreate(p) \/ JoinRefuse(p)
          \/ JoinBump(p) \/ CheckMember(p) \/ AlreadyLeft(p) \/ NextRoom(p)
          \/ LoopRemove(p) \/ LeftBump(p) \/ DeleteRoomIfEmpty(p)
     PROVE  ClientLimit'
    BY <1>7 DEF JoinVetoed, JoinFind, JoinCreate, JoinRefuse, JoinBump,
       CheckMember, AfterRoom, AlreadyLeft, NextRoom, LoopRemove,
       RemoveMember, LeftBump, DeleteRoomIfEmpty
<1>8. ASSUME Deregister PROVE ClientLimit'
    BY <1>8 DEF Deregister
<1>9. ASSUME UNCHANGED roomVars PROVE ClientLimit'
    BY <1>9 DEF roomVars
<1> QED
    BY <1>1, <1>2, <1>3, <1>4, <1>5, <1>6, <1>7, <1>8, <1>9 DEF RoomsNext, Call,
       Continue, JoinStep, LeaveStep, LoopStep, Worker

-----------------------------------------------------------------------------
\* The inductive invariant.
IInv == RoomsTypeOK /\ OneName /\ NoEmptyRoomLeak /\ RoomLimit /\ ClientLimit

\* The initial state satisfies it.
LEMMA InitIInv == RoomsInit => IInv
<1> SUFFICES ASSUME RoomsInit PROVE IInv
    OBVIOUS
<1>1. RoomsTypeOK
    <2>1. op \in [Worker -> Op] /\ \A p \in Worker : OpOK(op[p])
        BY IdleOK DEF RoomsInit, OpOK
    <2>2. /\ status \in [RoomClient -> {"new", "registered", "gone"}]
          /\ rooms \in [Name -> RoomObj \cup {Nil}]
          /\ members \in [RoomObj -> SUBSET RoomClient]
          /\ clientRooms \in [RoomClient -> SUBSET Name]
          /\ roomVersion \in Nat
        BY DEF RoomsInit
    <2> QED
        BY <2>1, <2>2 DEF RoomsTypeOK
<1>2. OneName /\ NoEmptyRoomLeak
    BY DEF RoomsInit, OneName, NoEmptyRoomLeak, Idle
<1>3. RoomLimit /\ ClientLimit
    BY FS_EmptySet, ConstantsAssumption DEF RoomsInit, RoomLimit, ClientLimit
<1> QED
    BY <1>1, <1>2, <1>3 DEF IInv

\* The conjunction is inductive, so it holds of every reachable state, for any
\* clients, names, limits and goroutines.
THEOREM Invariance == RoomsSpec => []IInv
<1>1. IInv /\ [RoomsNext]_roomVars => IInv'
    BY TypeStep, OneNameStep, LeakStep, RoomLimitStep, ClientLimitStep DEF IInv
<1> QED
    BY <1>1, InitIInv, PTL DEF RoomsSpec

\* Every variable keeps its type, and no call ever locks a nil room.
THEOREM TypeCorrect == RoomsSpec => []RoomsTypeOK
<1>1. IInv => RoomsTypeOK
    BY DEF IInv
<1> QED
    BY <1>1, Invariance, PTL

\* MaxClientsPerRoom and MaxRoomsPerClient hold under any interleaving of the
\* joins to a room and of the joins of a client.
THEOREM LimitsHold == RoomsSpec => []Limits
<1>1. IInv => Limits
    BY DEF IInv, Limits
<1> QED
    BY <1>1, Invariance, PTL

\* Empty rooms never leak into h.rooms.
THEOREM NoLeak == RoomsSpec => []NoEmptyRoomLeak
<1>1. IInv => NoEmptyRoomLeak
    BY DEF IInv
<1> QED
    BY <1>1, Invariance, PTL

-----------------------------------------------------------------------------
\* What a step may do to the members that RoomClients lists.
Kept == \A n \in Name : \A c \in Listed(n) \ Listed(n)' :
            \E p \in Worker : Removing(p, c, n)

\* A step that touches neither h.rooms nor a member set keeps every member.
LEMMA KeptUnchanged == ASSUME rooms' = rooms, members' = members PROVE Kept
    BY DEF Kept, Listed

\* The locked removal drops one member of one room, the leaver's.
LEMMA KeptRemoval ==
    ASSUME RoomsTypeOK, OneName, NEW p \in Worker, RemoveMember(p), rooms' = rooms
    PROVE  Kept
<1>1. op[p].pc = "remove"
    BY DEF RemoveMember
<1>2. op[p].room \in RoomObj /\ op[p].room # Nil
    BY <1>1, ConstantsAssumption DEF RoomsTypeOK, OpOK
<1>3. members' = [members EXCEPT ![op[p].room] = members[op[p].room] \ {op[p].client}]
    BY DEF RemoveMember
<1>4. members \in [RoomObj -> SUBSET RoomClient] /\ rooms \in [Name -> RoomObj \cup {Nil}]
    BY DEF RoomsTypeOK
<1>5. ASSUME NEW n \in Name, NEW c \in Listed(n) \ Listed(n)'
      PROVE  Removing(p, c, n)
    <2>1. rooms[n] \in RoomObj /\ c \in members[rooms[n]] /\ c \notin members'[rooms[n]]
        BY <1>4 DEF Listed
    <2>2. rooms[n] = op[p].room /\ c = op[p].client
        BY <1>2, <1>3, <1>4, <2>1
    <2>3. op[p].name = n
        BY <1>2, <2>2 DEF OneName
    <2> QED
        BY <1>1, <2>2, <2>3 DEF Removing
<1> QED
    BY <1>5 DEF Kept

\* A new room is put where no room was, and its object is nobody else's.
LEMMA KeptCreate ==
    ASSUME RoomsTypeOK, NEW p \in Worker, JoinCreate(p) PROVE Kept
<1>1. PICK r \in RoomObj \ Referenced :
         /\ rooms' = [rooms EXCEPT ![op[p].name] = r]
         /\ members' = [members EXCEPT ![r] = {}]
    BY DEF JoinCreate
<1>2. members \in [RoomObj -> SUBSET RoomClient] /\ rooms \in [Name -> RoomObj \cup {Nil}]
    BY DEF RoomsTypeOK
<1>3. rooms[op[p].name] = Nil
    BY DEF JoinCreate
<1>4. \A m \in Name : rooms[m] # r
    BY DEF Referenced
<1>5. ASSUME NEW n \in Name, rooms[n] # Nil PROVE Listed(n)' = Listed(n)
    <2>1. n # op[p].name /\ rooms[n] \in RoomObj /\ rooms[n] # r
        BY <1>2, <1>3, <1>4, <1>5
    <2>2. rooms'[n] = rooms[n]
        BY <1>1, <1>2, <2>1
    <2>3. members'[rooms[n]] = members[rooms[n]]
        BY <1>1, <1>2, <2>1
    <2> QED
        BY <1>5, <2>2, <2>3 DEF Listed
<1> QED
    BY <1>5 DEF Kept, Listed

\* deleteRoomIfEmpty forgets a room only while it has no member.
LEMMA KeptDelete ==
    ASSUME RoomsTypeOK, NEW p \in Worker, DeleteRoomIfEmpty(p) PROVE Kept
<1>1. /\ members' = members
      /\ rooms' = IF members[op[p].room] = {} /\ rooms[op[p].name] = op[p].room
                  THEN [rooms EXCEPT ![op[p].name] = Nil]
                  ELSE rooms
    BY DEF DeleteRoomIfEmpty
<1>2. rooms \in [Name -> RoomObj \cup {Nil}]
    BY DEF RoomsTypeOK
<1>3. ASSUME NEW n \in Name, Listed(n) # {} PROVE rooms'[n] = rooms[n]
    BY <1>1, <1>2, <1>3 DEF Listed
<1> QED
    BY <1>1, <1>3 DEF Kept, Listed

\* JoinAdd only adds a member.
LEMMA KeptAdd == ASSUME RoomsTypeOK, NEW p \in Worker, JoinAdd(p) PROVE Kept
<1>1. /\ rooms' = rooms
      /\ members' = [members EXCEPT ![op[p].room] = @ \cup {op[p].client}]
    BY DEF JoinAdd
<1>2. members \in [RoomObj -> SUBSET RoomClient] /\ rooms \in [Name -> RoomObj \cup {Nil}]
    BY DEF RoomsTypeOK
<1>3. \A n \in Name : Listed(n) \subseteq Listed(n)'
    BY <1>1, <1>2 DEF Listed
<1> QED
    BY <1>3 DEF Kept

\* Every step keeps the members it has no business to remove.
LEMMA KeptStep == ASSUME RoomsTypeOK, OneName, RoomsNext PROVE Kept
<1>1. ASSUME NEW p \in Proc, NEW c \in RoomClient, NEW n \in Name,
          JoinRoom(p, c, n) \/ LeaveRoom(p, c, n)
      PROVE  Kept
    BY <1>1, KeptUnchanged DEF JoinRoom, LeaveRoom
<1>2. ASSUME NEW p \in Proc, NEW c \in RoomClient, LeaveAllRooms(p, c) PROVE Kept
    BY <1>2, KeptUnchanged DEF LeaveAllRooms
<1>3. ASSUME NEW c \in RoomClient, Register(c) \/ Unregister(c) PROVE Kept
    BY <1>3, KeptUnchanged DEF Register, Unregister
<1>4. ASSUME NEW p \in Worker, JoinStep(p) PROVE Kept
    BY <1>4, KeptUnchanged, KeptCreate, KeptAdd
       DEF JoinStep, JoinVetoed, JoinFind, JoinRefuse, JoinBump
<1>5. ASSUME NEW p \in Worker, LeaveStep(p) PROVE Kept
    BY <1>5, KeptUnchanged, KeptRemoval
       DEF LeaveStep, CheckMember, AlreadyLeft, LeaveRemove
<1>6. ASSUME NEW p \in Worker, LoopStep(p) PROVE Kept
    BY <1>6, KeptUnchanged, KeptRemoval
       DEF LoopStep, NextRoom, LoopRemove, ForgetRooms, LeftBump
<1>7. ASSUME Deregister PROVE Kept
    BY <1>7, KeptUnchanged DEF Deregister
<1>8. Call => Kept
    BY <1>1, <1>2, <1>3 DEF Call
<1>9. ASSUME NEW p \in Worker, Continue(p) PROVE Kept
    BY <1>4, <1>5, <1>6, <1>9, KeptDelete DEF Continue
<1> QED
    BY <1>7, <1>8, <1>9 DEF RoomsNext

\* A listed client disappears from a room only by a call that leaves the room
\* on behalf of that client.
THEOREM NobodyElseRemoves == RoomsSpec => OnlyLeaversLeave
<1>1. IInv /\ [RoomsNext]_roomVars => [Kept]_roomVars
    BY KeptStep DEF IInv
<1> QED
    BY <1>1, Invariance, PTL DEF RoomsSpec, OnlyLeaversLeave, Kept

-----------------------------------------------------------------------------
(* roomVersion                                                              *)

\* Which calls are at which points, and what they have collected by then.
StageOK(o) ==
    /\ o.left # {} => o.kind \in {"leaveAll", "unregister"}
    /\ o.pc \in {"joinGet", "joinLock", "joinBump"} => o.kind = "join"
    /\ o.pc \in {"idle", "deregister"} => o.left = {}
    /\ o.pc \in {"leftBump", "deregister"} => o.todo = {}
    /\ o.pc = "joinBump" => o.name \in Name
    /\ o.pc = "deregister" => o.kind = "unregister"

\* Every call is as far as its point says.
Stages == \A p \in Worker : StageOK(op[p])

\* One call moves on.
LEMMA StagesUpdate ==
    ASSUME RoomsTypeOK, Stages, NEW p \in Worker, NEW o, StageOK(o), op' = [op EXCEPT ![p] = o]
    PROVE  Stages'
BY DEF RoomsTypeOK, Stages

\* No call is in progress.
LEMMA IdleStage == StageOK(Idle)
BY DEF StageOK, Idle

\* The loop goes on with what it has collected, the other calls return.
LEMMA AfterRoomStage ==
    ASSUME RoomsTypeOK, NEW p \in Worker, StageOK(op[p]) PROVE StageOK(AfterRoom(p))
<1>1. op[p] \in Op
    BY DEF RoomsTypeOK
<1>2. CASE op[p].kind \in {"leaveAll", "unregister"}
    BY <1>1, <1>2 DEF AfterRoom, StageOK, Op
<1>3. CASE op[p].kind \notin {"leaveAll", "unregister"}
    BY <1>3, IdleStage DEF AfterRoom
<1> QED
    BY <1>2, <1>3

\* Every step takes a call from one point to the next.
LEMMA StagesStep == RoomsTypeOK /\ Stages /\ [RoomsNext]_roomVars => Stages'
<1> SUFFICES ASSUME RoomsTypeOK, Stages, [RoomsNext]_roomVars PROVE Stages'
    OBVIOUS
<1>1. op \in [Worker -> Op] /\ \A p \in Worker : OpOK(op[p]) /\ op[p] \in Op /\ StageOK(op[p])
    BY DEF RoomsTypeOK, Stages
<1>2. Proc \subseteq Worker /\ RunLoop \in Worker
    BY DEF Worker
<1>3. ASSUME NEW p \in Proc, NEW c \in RoomClient, NEW n \in Name, JoinRoom(p, c, n)
      PROVE  Stages'
    <2>1. StageOK([Idle EXCEPT !.kind = "join", !.pc = "joinGet", !.client = c, !.name = n])
        BY DEF StageOK, Idle
    <2> QED
        BY <1>2, <1>3, <2>1, StagesUpdate DEF JoinRoom
<1>4. ASSUME NEW p \in Proc, NEW c \in RoomClient, NEW n \in Name, LeaveRoom(p, c, n)
      PROVE  Stages'
    <2>1. StageOK([Idle EXCEPT !.kind = "leave", !.pc = "check", !.client = c, !.name = n,
                               !.room = rooms[n]])
        BY DEF StageOK, Idle
    <2> QED
        BY <1>2, <1>4, <2>1, StagesUpdate DEF LeaveRoom
<1>5. ASSUME NEW p \in Proc, NEW c \in RoomClient, LeaveAllRooms(p, c) PROVE Stages'
    <2>1. StageOK([Idle EXCEPT !.kind = "leaveAll", !.pc = "next", !.client = c,
                               !.todo = clientRooms[c]])
        BY DEF StageOK, Idle
    <2> QED
        BY <1>2, <1>5, <2>1, StagesUpdate DEF LeaveAllRooms
<1>6. ASSUME NEW c \in RoomClient, Register(c) PROVE Stages'
    BY <1>6 DEF Register, Stages
<1>7. ASSUME NEW c \in RoomClient, Unregister(c) PROVE Stages'
    <2> DEFINE o == [Idle EXCEPT !.kind = "unregister", !.client = c,
                                 !.pc = IF clientRooms[c] = {} THEN "deregister" ELSE "next",
                                 !.todo = clientRooms[c]]
    <2>1. StageOK(o)
        BY DEF StageOK, Idle
    <2>2. op' = [op EXCEPT ![RunLoop] = o]
        BY <1>7 DEF Unregister
    <2> HIDE DEF o
    <2> QED
        BY <1>2, <2>1, <2>2, StagesUpdate
<1>8. ASSUME NEW p \in Worker, JoinStep(p) PROVE Stages'
    <2>1. CASE JoinCreate(p)
        BY <1>1, <2>1 DEF JoinCreate, Op, Stages, StageOK
    <2>2. CASE JoinVetoed(p) \/ JoinBump(p)
        BY <2>2, IdleStage, StagesUpdate DEF JoinVetoed, JoinBump
    <2>3. CASE JoinFind(p)
        BY <1>1, <2>3 DEF JoinFind, Op, Stages, StageOK
    <2>4. CASE JoinAdd(p)
        BY <1>1, <2>4 DEF JoinAdd, OpOK, Op, Stages, StageOK
    <2>5. CASE JoinRefuse(p)
        <3>1. StageOK([op[p] EXCEPT !.pc = "delete"])
            BY <1>1, <2>5 DEF JoinRefuse, Op, StageOK
        <3> QED
            BY <2>5, <3>1, IdleStage, StagesUpdate DEF JoinRefuse
    <2> QED
        BY <1>8, <2>1, <2>2, <2>3, <2>4, <2>5 DEF JoinStep
<1>9. ASSUME NEW p \in Worker, LeaveStep(p) \/ DeleteRoomIfEmpty(p) PROVE Stages'
    <2>1. StageOK(AfterRoom(p))
        BY <1>1, AfterRoomStage
    <2>2. /\ op[p].pc = "check" => StageOK([op[p] EXCEPT !.pc = "remove"])
          /\ op[p].pc = "remove" => StageOK([op[p] EXCEPT !.pc = "delete"])
        BY <1>1 DEF StageOK, Op
    <2>3. CASE CheckMember(p)
        BY <2>1, <2>2, <2>3, StagesUpdate DEF CheckMember
    <2>4. CASE AlreadyLeft(p) \/ DeleteRoomIfEmpty(p)
        BY <2>1, <2>4, StagesUpdate DEF AlreadyLeft, DeleteRoomIfEmpty
    <2>5. CASE LeaveRemove(p)
        BY <2>2, <2>5, IdleStage, StagesUpdate DEF LeaveRemove, RemoveMember
    <2> QED
        BY <1>9, <2>3, <2>4, <2>5 DEF LeaveStep
<1>10. ASSUME NEW p \in Worker, LoopStep(p) PROVE Stages'
    <2>1. CASE NextRoom(p)
        BY <1>1, <2>1 DEF NextRoom, Op, Stages, StageOK
    <2>2. CASE LoopRemove(p)
        BY <1>1, <2>2 DEF LoopRemove, RemoveMember, AfterRoom, Op, Stages, StageOK
    <2>3. CASE ForgetRooms(p)
        BY <1>1, <2>3 DEF ForgetRooms, Op, Stages, StageOK
    <2>4. CASE LeftBump(p)
        <3>1. StageOK([Idle EXCEPT !.kind = "unregister", !.client = op[p].client,
                                   !.pc = "deregister"])
            BY DEF Idle, StageOK
        <3> QED
            BY <2>4, <3>1, IdleStage, StagesUpdate DEF LeftBump
    <2> QED
        BY <1>10, <2>1, <2>2, <2>3, <2>4 DEF LoopStep
<1>11. CASE Deregister
    BY <1>2, <1>11, IdleStage, StagesUpdate DEF Deregister
<1>12. CASE UNCHANGED roomVars
    BY <1>12 DEF roomVars, Stages
<1> QED
    BY <1>3, <1>4, <1>5, <1>6, <1>7, <1>8, <1>9, <1>10, <1>11, <1>12
       DEF RoomsNext, Call, Continue

\* The sizes Presence publishes.
Sizes == [n \in Name |-> Cardinality(Listed(n))]

\* The sizes stay when the members stay.
LEMMA SizesSame ==
    ASSUME \A n \in Name : Listed(n)' = Listed(n) PROVE Sizes' = Sizes
BY DEF Sizes

\* A room that no name refers to has no size; another one has one name.
LEMMA SizeMoves ==
    ASSUME RoomsTypeOK, OneName, NEW p \in Worker, rooms' = rooms,
           op[p].room \in RoomObj, op[p].client \in RoomClient,
           \/ /\ op[p].client \notin members[op[p].room]
              /\ members' = [members EXCEPT ![op[p].room] = @ \cup {op[p].client}]
           \/ /\ op[p].client \in members[op[p].room]
              /\ members' = [members EXCEPT ![op[p].room] = @ \ {op[p].client}]
    PROVE  Counts!OneMove
<1> DEFINE r == op[p].room
           c == op[p].client
<1>1. rooms \in [Name -> RoomObj \cup {Nil}] /\ members \in [RoomObj -> SUBSET RoomClient]
    BY DEF RoomsTypeOK
<1>2. r \in RoomObj /\ r # Nil
    BY ConstantsAssumption
<1>3. ASSUME NEW n \in Name, rooms[n] # r PROVE Listed(n)' = Listed(n)
    BY <1>1, <1>3 DEF Listed
<1>4. CASE \A n \in Name : rooms[n] # r
    <2>1. Sizes' = Sizes
        BY <1>3, <1>4, SizesSame
    <2> QED
        BY <2>1 DEF Counts!OneMove, Sizes
<1>5. ASSUME NEW n \in Name, rooms[n] = r PROVE Counts!OneMove
    <2>1. \A m \in Name : m # n => Listed(m)' = Listed(m)
        BY <1>2, <1>3, <1>5 DEF OneName
    <2>2. Listed(n) = members[r] /\ Listed(n)' = members'[r]
        BY <1>2, <1>5 DEF Listed
    <2>3. IsFiniteSet(members[r]) /\ Cardinality(members[r]) \in Nat
        BY <1>2, Finite, FS_CardinalityType
    <2>4. /\ Sizes \in [Name -> Nat] /\ DOMAIN Sizes' = Name
          /\ Sizes' = [m \in Name |-> Cardinality(Listed(m)')]
        <3>1. \A m \in Name : IsFiniteSet(Listed(m))
            BY <1>1, Finite, FS_EmptySet DEF Listed
        <3> QED
            BY <3>1, FS_CardinalityType DEF Sizes
    <2>5. CASE c \notin members[r] /\ members' = [members EXCEPT ![r] = @ \cup {c}]
        <3>1. members'[r] = members[r] \cup {c}
            BY <1>1, <1>2, <2>5
        <3>2. Cardinality(members'[r]) = Cardinality(members[r]) + 1
            BY <2>3, <2>5, <3>1, FS_AddElement
        <3>3. Sizes' = [Sizes EXCEPT ![n] = @ + 1]
            BY <2>1, <2>2, <2>4, <3>2 DEF Sizes
        <3> QED
            BY <3>3 DEF Counts!OneMove, Sizes
    <2>6. CASE c \in members[r] /\ members' = [members EXCEPT ![r] = @ \ {c}]
        <3>1. members'[r] = members[r] \ {c}
            BY <1>1, <1>2, <2>6
        <3>2. Cardinality(members'[r]) = Cardinality(members[r]) - 1
            BY <2>3, <2>6, <3>1, FS_RemoveElement
        <3>3. Sizes' = [Sizes EXCEPT ![n] = @ - 1]
            BY <2>1, <2>2, <2>4, <3>2 DEF Sizes
        <3>4. Sizes[n] > 0
            <4>1. members[r] # {}
                BY <2>6
            <4>2. Cardinality(members[r]) # 0
                BY <2>3, <4>1, FS_EmptySet
            <4> QED
                BY <2>2, <2>3, <4>2 DEF Sizes
        <3> QED
            BY <3>3, <3>4 DEF Counts!OneMove, Sizes
    <2> QED
        BY <2>5, <2>6
<1> QED
    BY <1>4, <1>5

\* Whether a goroutine owes is decided by its own call only.
LEMMA OwingUpdate ==
    ASSUME RoomsTypeOK, NEW p \in Worker, NEW o, op' = [op EXCEPT ![p] = o]
    PROVE  Owing' = IF o.pc = "joinBump" \/ o.left # {} THEN Owing \cup {p} ELSE Owing \ {p}
<1>1. op \in [Worker -> Op]
    BY DEF RoomsTypeOK
<1>2. op'[p] = o /\ \A q \in Worker : q # p => op'[q] = op[q]
    BY <1>1
<1> QED
    BY <1>2 DEF Owing

\* The abstract specification counts with the same operator.
LEMMA SameCardinality == Counts!Cardinality(Name) = Cardinality(Name)
BY Zenon DEF Counts!Cardinality, Cardinality

\* A step of the rooms is one of their counts.
CountsStep == Counts!CountsNext \/ UNCHANGED Counts!countVars

\* A step that moves neither a size nor the version, and no debt either.
LEMMA CountsStutter ==
    ASSUME \A n \in Name : Listed(n)' = Listed(n), roomVersion' = roomVersion, Owing' = Owing
    PROVE  CountsStep
BY SizesSame DEF CountsStep, Counts!countVars, Sizes

\* Until a call has changed a member set it owes nothing, and it goes on owing
\* until it pays.
LEMMA CallStutters ==
    ASSUME RoomsTypeOK, Stages, NEW p \in Worker, NEW o, op' = [op EXCEPT ![p] = o],
           o.pc # "joinBump", op[p].pc # "joinBump", o.left = op[p].left,
           \A n \in Name : Listed(n)' = Listed(n), roomVersion' = roomVersion
    PROVE  CountsStep
<1>1. Owing' = Owing
    BY OwingUpdate DEF Owing
<1> QED
    BY <1>1, CountsStutter

\* Nobody moves.
LEMMA ListedSame ==
    ASSUME rooms' = rooms, members' = members PROVE \A n \in Name : Listed(n)' = Listed(n)
BY DEF Listed

\* A new room and a deleted one list nobody.
LEMMA EmptyRoomsUnlisted ==
    ASSUME RoomsTypeOK, NEW p \in Worker, JoinCreate(p) \/ DeleteRoomIfEmpty(p)
    PROVE  \A n \in Name : Listed(n)' = Listed(n)
<1>1. rooms \in [Name -> RoomObj \cup {Nil}] /\ members \in [RoomObj -> SUBSET RoomClient]
    BY DEF RoomsTypeOK
<1>2. CASE JoinCreate(p)
    <2>1. PICK r \in RoomObj \ Referenced :
             /\ rooms' = [rooms EXCEPT ![op[p].name] = r]
             /\ members' = [members EXCEPT ![r] = {}]
        BY <1>2 DEF JoinCreate
    <2>2. /\ rooms[op[p].name] = Nil /\ op[p].name \in Name
          /\ \A m \in Name : rooms[m] # r
          /\ r # Nil
        BY <1>2, ConstantsAssumption DEF JoinCreate, Referenced, RoomsTypeOK, OpOK
    <2>3. ASSUME NEW n \in Name PROVE Listed(n)' = Listed(n)
        <3>1. CASE n = op[p].name
            BY <1>1, <2>1, <2>2, <3>1 DEF Listed
        <3>2. CASE n # op[p].name
            <4>1. rooms'[n] = rooms[n]
                BY <1>1, <2>1, <3>2
            <4>2. rooms[n] # Nil => members'[rooms[n]] = members[rooms[n]]
                BY <1>1, <2>1, <2>2
            <4> QED
                BY <4>1, <4>2 DEF Listed
        <3> QED
            BY <3>1, <3>2
    <2> QED
        BY <2>3
<1>3. CASE DeleteRoomIfEmpty(p)
    <2>1. /\ members' = members
          /\ rooms' = IF members[op[p].room] = {} /\ rooms[op[p].name] = op[p].room
                      THEN [rooms EXCEPT ![op[p].name] = Nil]
                      ELSE rooms
        BY <1>3 DEF DeleteRoomIfEmpty
    <2>2. ASSUME NEW n \in Name PROVE Listed(n)' = Listed(n)
        BY <1>1, <2>1 DEF Listed
    <2> QED
        BY <2>2
<1> QED
    BY <1>2, <1>3

\* JoinRoom: nothing is owed before the member is added, one increment after.
LEMMA JoinCounts ==
    ASSUME RoomsTypeOK, OneName, Stages, NEW p \in Worker, JoinStep(p) PROVE CountsStep
<1>1. op \in [Worker -> Op] /\ OpOK(op[p]) /\ StageOK(op[p])
    BY DEF RoomsTypeOK, Stages
<1>2. op[p].kind = "join" /\ op[p].left = {} /\ Idle.left = {} /\ Idle.pc = "idle"
    BY <1>1 DEF JoinStep, JoinVetoed, JoinFind, JoinCreate, JoinRefuse, JoinAdd, JoinBump,
       StageOK, Idle
<1>3. CASE JoinVetoed(p)
    BY <1>2, <1>3, CallStutters, ListedSame DEF JoinVetoed
<1>4. CASE JoinFind(p)
    <2> DEFINE o == [op[p] EXCEPT !.pc = "joinLock", !.room = rooms[op[p].name]]
    <2>1. op' = [op EXCEPT ![p] = o] /\ o.pc = "joinLock" /\ o.left = op[p].left
        BY <1>1, <1>4 DEF JoinFind, Op
    <2> HIDE DEF o
    <2> QED
        BY <1>4, <2>1, CallStutters, ListedSame DEF JoinFind
<1>5. CASE JoinCreate(p)
    <2>1. PICK r \in RoomObj \ Referenced :
             op' = [op EXCEPT ![p] = [@ EXCEPT !.pc = "joinLock", !.room = r, !.created = TRUE]]
        BY <1>5 DEF JoinCreate
    <2> DEFINE o == [op[p] EXCEPT !.pc = "joinLock", !.room = r, !.created = TRUE]
    <2>2. op' = [op EXCEPT ![p] = o] /\ o.pc = "joinLock" /\ o.left = op[p].left
        BY <1>1, <2>1 DEF Op
    <2>3. roomVersion' = roomVersion /\ op[p].pc = "joinGet"
        BY <1>5 DEF JoinCreate
    <2> HIDE DEF o
    <2> QED
        BY <1>5, <2>2, <2>3, CallStutters, EmptyRoomsUnlisted
<1>6. CASE JoinRefuse(p)
    <2>1. PICK o : op' = [op EXCEPT ![p] = o] /\ o.pc # "joinBump" /\ o.left = op[p].left
        <3>1. CASE op[p].created /\ members[op[p].room] = {}
            <4> WITNESS [op[p] EXCEPT !.pc = "delete"]
            <4> QED
                BY <1>1, <1>6, <3>1 DEF JoinRefuse, Op
        <3>2. CASE ~(op[p].created /\ members[op[p].room] = {})
            <4> WITNESS Idle
            <4> QED
                BY <1>2, <1>6, <3>2 DEF JoinRefuse
        <3> QED
            BY <3>1, <3>2
    <2> QED
        BY <1>6, <2>1, CallStutters, ListedSame DEF JoinRefuse
<1>7. CASE JoinAdd(p)
    <2>1. Counts!OneMove
        BY <1>1, <1>7, SizeMoves DEF JoinAdd, JoinRefused, OpOK
    <2>2. Owing' = Owing \cup {p}
        <3> DEFINE o == [op[p] EXCEPT !.pc = "joinBump"]
        <3>1. op' = [op EXCEPT ![p] = o] /\ o.pc = "joinBump"
            BY <1>1, <1>7 DEF JoinAdd, Op
        <3> HIDE DEF o
        <3> QED
            BY <3>1, OwingUpdate
    <2>3. roomVersion' = roomVersion
        BY <1>7 DEF JoinAdd
    <2> QED
        BY <2>1, <2>2, <2>3 DEF CountsStep, Counts!CountsNext, Counts!Touch
<1>8. CASE JoinBump(p)
    <2>1. Owing' = Owing \ {p} /\ p \in Owing
        BY <1>2, <1>8, OwingUpdate DEF JoinBump, Owing
    <2>2. Sizes' = Sizes /\ roomVersion' = roomVersion + 1
        BY <1>8, ListedSame, SizesSame DEF JoinBump
    <2>3. 1 \in 1..Cardinality(Name)
        <3>1. op[p].name \in Name
            BY <1>1, <1>8 DEF JoinBump, StageOK
        <3> QED
            BY <3>1, FS_EmptySet, FS_CardinalityType, ConstantsAssumption
    <2>4. \E k \in 1..Cardinality(Name) : roomVersion' = roomVersion + k
        BY <2>2, <2>3
    <2> QED
        BY <2>1, <2>2, <2>4, SameCardinality
           DEF CountsStep, Counts!CountsNext, Counts!Bump, Sizes
<1> QED
    BY <1>3, <1>4, <1>5, <1>6, <1>7, <1>8 DEF JoinStep

\* LeaveRoom adds to the version in the locked section, so it owes nothing; a
\* round of the loop owes until the end.
LEMMA LeaveCounts ==
    ASSUME RoomsTypeOK, OneName, Stages, NEW p \in Worker,
           LeaveStep(p) \/ DeleteRoomIfEmpty(p) \/ LoopStep(p)
    PROVE  CountsStep
<1>1. op \in [Worker -> Op] /\ op[p] \in Op /\ OpOK(op[p]) /\ StageOK(op[p])
    BY DEF RoomsTypeOK, Stages
<1>2. /\ Idle.left = {} /\ Idle.pc = "idle"
      /\ AfterRoom(p).left = op[p].left /\ AfterRoom(p).pc # "joinBump"
    BY <1>1 DEF AfterRoom, StageOK, Idle, Op
<1>3. CASE CheckMember(p)
    <2>1. PICK o : op' = [op EXCEPT ![p] = o] /\ o.pc # "joinBump" /\ o.left = op[p].left
        <3>1. CASE op[p].client \in members[op[p].room]
            <4> WITNESS [op[p] EXCEPT !.pc = "remove"]
            <4> QED
                BY <1>1, <1>3, <3>1 DEF CheckMember, Op
        <3>2. CASE op[p].client \notin members[op[p].room]
            <4> WITNESS AfterRoom(p)
            <4> QED
                BY <1>2, <1>3, <3>2 DEF CheckMember
        <3> QED
            BY <3>1, <3>2
    <2> QED
        BY <1>3, <2>1, CallStutters, ListedSame DEF CheckMember
<1>4. CASE AlreadyLeft(p)
    BY <1>2, <1>4, CallStutters, ListedSame DEF AlreadyLeft
<1>5. CASE DeleteRoomIfEmpty(p)
    BY <1>2, <1>5, CallStutters, EmptyRoomsUnlisted DEF DeleteRoomIfEmpty
<1>6. ASSUME RemoveMember(p), rooms' = rooms PROVE Counts!OneMove
    BY <1>1, <1>6, SizeMoves DEF RemoveMember, OpOK
<1>7. CASE LeaveRemove(p)
    <2>1. op[p].left = {} /\ op[p].pc = "remove" /\ p \notin Owing
        BY <1>1, <1>7 DEF LeaveRemove, RemoveMember, StageOK, Owing
    <2>2. PICK o : op' = [op EXCEPT ![p] = o] /\ o.pc # "joinBump" /\ o.left = {}
        <3>1. CASE members'[op[p].room] = {}
            <4> WITNESS [op[p] EXCEPT !.pc = "delete"]
            <4> QED
                BY <1>1, <1>7, <2>1, <3>1 DEF LeaveRemove, Op
        <3>2. CASE members'[op[p].room] # {}
            <4> WITNESS Idle
            <4> QED
                BY <1>2, <1>7, <3>2 DEF LeaveRemove
        <3> QED
            BY <3>1, <3>2
    <2>3. Owing' = Owing
        BY <2>1, <2>2, OwingUpdate
    <2>4. Counts!OneMove /\ roomVersion' = roomVersion + 1
        BY <1>6, <1>7 DEF LeaveRemove
    <2> QED
        BY <2>1, <2>3, <2>4 DEF CountsStep, Counts!CountsNext, Counts!TouchAndBump
<1>8. CASE NextRoom(p)
    <2>1. PICK o : op' = [op EXCEPT ![p] = o] /\ o.pc # "joinBump" /\ o.left = op[p].left
        <3>1. PICK n \in op[p].todo :
                 op' = [op EXCEPT ![p] =
                          IF rooms[n] = Nil
                          THEN [op[p] EXCEPT !.todo = op[p].todo \ {n}]
                          ELSE [op[p] EXCEPT !.todo = op[p].todo \ {n}, !.name = n,
                                             !.room = rooms[n], !.pc = "check"]]
            BY <1>8 DEF NextRoom
        <3>2. op[p].pc = "next"
            BY <1>8 DEF NextRoom
        <3>3. CASE rooms[n] = Nil
            <4> WITNESS [op[p] EXCEPT !.todo = op[p].todo \ {n}]
            <4> QED
                BY <1>1, <3>1, <3>2, <3>3 DEF Op
        <3>4. CASE rooms[n] # Nil
            <4> WITNESS [op[p] EXCEPT !.todo = op[p].todo \ {n}, !.name = n,
                                      !.room = rooms[n], !.pc = "check"]
            <4> QED
                BY <1>1, <3>1, <3>4 DEF Op
        <3> QED
            BY <3>3, <3>4
    <2> QED
        BY <1>8, <2>1, CallStutters, ListedSame DEF NextRoom
<1>9. CASE LoopRemove(p)
    <2> DEFINE left == op[p].left \cup {op[p].name}
    <2>1. PICK o : op' = [op EXCEPT ![p] = o] /\ o.left = left
        <3>1. CASE members'[op[p].room] = {}
            <4> WITNESS [op[p] EXCEPT !.left = left, !.pc = "delete"]
            <4> QED
                BY <1>1, <1>9, <3>1 DEF LoopRemove, Op
        <3>2. CASE members'[op[p].room] # {}
            <4> WITNESS [AfterRoom(p) EXCEPT !.left = left]
            <4> QED
                BY <1>1, <1>9, <3>2 DEF LoopRemove, AfterRoom, Op
        <3> QED
            BY <3>1, <3>2
    <2>2. Owing' = Owing \cup {p}
        BY <2>1, OwingUpdate
    <2>3. Counts!OneMove /\ roomVersion' = roomVersion
        BY <1>6, <1>9 DEF LoopRemove
    <2> QED
        BY <2>2, <2>3 DEF CountsStep, Counts!CountsNext, Counts!Touch
<1>10. CASE ForgetRooms(p)
    <2> DEFINE o == [op[p] EXCEPT !.pc = "leftBump"]
    <2>1. op' = [op EXCEPT ![p] = o] /\ o.pc = "leftBump" /\ o.left = op[p].left
        BY <1>1, <1>10 DEF ForgetRooms, Op
    <2> HIDE DEF o
    <2> QED
        BY <1>10, <2>1, CallStutters, ListedSame DEF ForgetRooms
<1>11. CASE LeftBump(p)
    <2>1. PICK o : op' = [op EXCEPT ![p] = o] /\ o.pc # "joinBump" /\ o.left = {}
        <3>1. CASE op[p].kind = "unregister"
            <4> WITNESS [Idle EXCEPT !.kind = "unregister", !.client = op[p].client,
                                     !.pc = "deregister"]
            <4> QED
                BY <1>11, <3>1 DEF LeftBump, Idle
        <3>2. CASE op[p].kind # "unregister"
            <4> WITNESS Idle
            <4> QED
                BY <1>2, <1>11, <3>2 DEF LeftBump
        <3> QED
            BY <3>1, <3>2
    <2>2. Owing' = Owing \ {p} /\ (p \in Owing <=> op[p].left # {})
        BY <1>11, <2>1, OwingUpdate DEF LeftBump, Owing
    <2>3. /\ \A n \in Name : Listed(n)' = Listed(n)
          /\ roomVersion' = roomVersion + Cardinality(op[p].left)
        BY <1>11, ListedSame DEF LeftBump
    <2>4. /\ Cardinality(op[p].left) \in Nat /\ Cardinality(Name) \in Nat
          /\ Cardinality(op[p].left) <= Cardinality(Name)
          /\ Cardinality(op[p].left) = 0 <=> op[p].left = {}
        <3>1. op[p].left \in SUBSET Name
            BY <1>1 DEF Op
        <3> QED
            BY <3>1, FS_Subset, FS_CardinalityType, FS_EmptySet, ConstantsAssumption
    <2>5. CASE op[p].left = {}
        <3>1. Owing' = Owing
            BY <2>2, <2>5
        <3>2. roomVersion' = roomVersion
            BY <2>3, <2>4, <2>5 DEF RoomsTypeOK
        <3> QED
            BY <2>3, <3>1, <3>2, CountsStutter
    <2>6. CASE op[p].left # {}
        <3>1. Cardinality(op[p].left) \in 1..Cardinality(Name)
            BY <2>4, <2>6
        <3>2. \E k \in 1..Cardinality(Name) : roomVersion' = roomVersion + k
            BY <2>3, <3>1
        <3>3. Sizes' = Sizes
            BY <2>3, SizesSame
        <3> QED
            BY <2>2, <2>6, <3>2, <3>3, SameCardinality
               DEF CountsStep, Counts!CountsNext, Counts!Bump, Sizes
    <2> QED
        BY <2>5, <2>6
<1> QED
    BY <1>3, <1>4, <1>5, <1>7, <1>8, <1>9, <1>10, <1>11 DEF LeaveStep, LoopStep

\* The first step of a call, and the two that only touch h.clients.
LEMMA CallCounts == ASSUME RoomsTypeOK, Stages, Call \/ Deregister PROVE CountsStep
<1>1. /\ op \in [Worker -> Op] /\ Proc \subseteq Worker /\ RunLoop \in Worker
      /\ \A p \in Worker : StageOK(op[p])
    BY DEF RoomsTypeOK, Stages, Worker
<1>2. Idle.left = {} /\ Idle.pc = "idle"
    BY DEF Idle
<1>3. ASSUME NEW p \in Worker, NEW o, op[p].left = {}, op[p].pc # "joinBump",
             op' = [op EXCEPT ![p] = o], o.left = {}, o.pc # "joinBump",
             rooms' = rooms, members' = members, roomVersion' = roomVersion
      PROVE  CountsStep
    BY <1>3, CallStutters, ListedSame
<1>4. ASSUME NEW p \in Proc, NEW c \in RoomClient, NEW n \in Name, JoinRoom(p, c, n)
      PROVE  CountsStep
    <2> DEFINE o == [Idle EXCEPT !.kind = "join", !.pc = "joinGet", !.client = c, !.name = n]
    <2>1. o.left = {} /\ o.pc # "joinBump"
        BY DEF Idle
    <2>2. op' = [op EXCEPT ![p] = o] /\ op[p] = Idle
        BY <1>4 DEF JoinRoom, MayStart
    <2> HIDE DEF o
    <2> QED
        BY <1>1, <1>2, <1>3, <1>4, <2>1, <2>2 DEF JoinRoom
<1>5. ASSUME NEW p \in Proc, NEW c \in RoomClient, NEW n \in Name, LeaveRoom(p, c, n)
      PROVE  CountsStep
    <2> DEFINE o == [Idle EXCEPT !.kind = "leave", !.pc = "check", !.client = c, !.name = n,
                                 !.room = rooms[n]]
    <2>1. o.left = {} /\ o.pc # "joinBump"
        BY DEF Idle
    <2>2. op' = [op EXCEPT ![p] = o] /\ op[p] = Idle
        BY <1>5 DEF LeaveRoom, MayStart
    <2> HIDE DEF o
    <2> QED
        BY <1>1, <1>2, <1>3, <1>5, <2>1, <2>2 DEF LeaveRoom
<1>6. ASSUME NEW p \in Proc, NEW c \in RoomClient, LeaveAllRooms(p, c) PROVE CountsStep
    <2> DEFINE o == [Idle EXCEPT !.kind = "leaveAll", !.pc = "next", !.client = c,
                                 !.todo = clientRooms[c]]
    <2>1. o.left = {} /\ o.pc # "joinBump"
        BY DEF Idle
    <2>2. op' = [op EXCEPT ![p] = o] /\ op[p] = Idle
        BY <1>6 DEF LeaveAllRooms, MayStart
    <2> HIDE DEF o
    <2> QED
        BY <1>1, <1>2, <1>3, <1>6, <2>1, <2>2 DEF LeaveAllRooms
<1>7. ASSUME NEW c \in RoomClient, Register(c) PROVE CountsStep
    BY <1>7, ListedSame, CountsStutter DEF Register, Owing
<1>8. ASSUME NEW c \in RoomClient, Unregister(c) PROVE CountsStep
    <2> DEFINE o == [Idle EXCEPT !.kind = "unregister", !.client = c,
                                 !.pc = IF clientRooms[c] = {} THEN "deregister" ELSE "next",
                                 !.todo = clientRooms[c]]
    <2>1. o.left = {} /\ o.pc # "joinBump"
        BY DEF Idle
    <2>2. op' = [op EXCEPT ![RunLoop] = o] /\ op[RunLoop] = Idle
        BY <1>8 DEF Unregister
    <2> HIDE DEF o
    <2> QED
        BY <1>1, <1>2, <1>3, <1>8, <2>1, <2>2 DEF Unregister
<1>9. ASSUME Deregister PROVE CountsStep
    <2>1. op[RunLoop].left = {} /\ op[RunLoop].pc # "joinBump"
        BY <1>1, <1>9 DEF Deregister, StageOK
    <2> QED
        BY <1>1, <1>2, <1>3, <1>9, <2>1 DEF Deregister
<1> QED
    BY <1>4, <1>5, <1>6, <1>7, <1>8, <1>9 DEF Call

\* The rooms keep the promise presence.go relies on: for any clients, names and
\* goroutines, the size of a room never changes without the version changing in
\* the same step or an increment being owed.
THEOREM RoomsKeepCounts == RoomsSpec => RoomsImplementCounts
<1>1. RoomsInit => Counts!CountsInit /\ Stages
    BY FS_EmptySet DEF RoomsInit, Counts!CountsInit, Listed, Owing, Idle, Stages, StageOK
<1>2. IInv /\ Stages /\ [RoomsNext]_roomVars => Stages'
    BY StagesStep DEF IInv
<1>3. IInv /\ Stages /\ [RoomsNext]_roomVars => [Counts!CountsNext]_(Counts!countVars)
    <2>1. IInv /\ Stages /\ RoomsNext => CountsStep
        BY JoinCounts, LeaveCounts, CallCounts DEF IInv, RoomsNext, Continue
    <2>2. UNCHANGED roomVars => UNCHANGED Counts!countVars
        BY DEF roomVars, Counts!countVars, Listed, Owing
    <2> QED
        BY <2>1, <2>2 DEF CountsStep
<1> QED
    BY <1>1, <1>2, <1>3, Invariance, PTL DEF RoomsSpec, RoomsImplementCounts, Counts!CountsSpec
=============================================================================
