----------------------------- MODULE UserIndex -----------------------------
(***************************************************************************)
(* The index from user IDs to clients: addToUserIndex in handleRegister,   *)
(* removeFromUserIndex in handleUnregister, and setClientUserID, which     *)
(* application goroutines call at any time, for a client they were given   *)
(* once and that may be gone by now.                                       *)
(*                                                                         *)
(* userIndexMu guards the index, client.mu the user ID, h.mu the set of    *)
(* clients.  setClientUserID holds the first two together; handleRegister  *)
(* and handleUnregister take one after the other, so each of their         *)
(* critical sections is a step.                                            *)
(***************************************************************************)
EXTENDS Naturals, FiniteSets

CONSTANTS
    IndexedClient,  \* *Client objects
    User,           \* non-empty user IDs
    NoUser,         \* the empty user ID
    Nobody,         \* Run is not in a handler
    MaxPerUser      \* limits.MaxConnectionsPerUser, 0 is no limit

ASSUME UserIndexAssumption ==
    /\ IsFiniteSet(IndexedClient) /\ NoUser \notin User
    /\ Nobody \notin IndexedClient
    /\ MaxPerUser \in Nat

VARIABLES
    userID,     \* client.userID
    userIndex,  \* h.userIndex, {} where the user has no entry
    inHub,      \* "new", "registered" (in h.clients), "refused" or "gone"
    handler     \* what Run is doing: step, client, and the ID it has read

userVars == <<userID, userIndex, inHub, handler>>

Idling == [step |-> "none", client |-> Nobody, user |-> NoUser]

\* WithUserID sets the ID of a client that nobody else knows yet.
UserInit ==
    /\ userID \in [IndexedClient -> User \cup {NoUser}]
    /\ userIndex = [u \in User |-> {}]
    /\ inHub = [c \in IndexedClient |-> "new"]
    /\ handler = Idling

\* What GetClientsByUserID and SendToUser find.
ClientsByUserID(u) == userIndex[u]

UserFull(u) == MaxPerUser > 0 /\ Cardinality(userIndex[u]) >= MaxPerUser

-----------------------------------------------------------------------------
(* handleRegister                                                          *)

\* addToUserIndex: limit check and insertion under userIndexMu.
AddToUserIndex(c) ==
    /\ handler = Idling
    /\ inHub[c] = "new"
    /\ userID[c] \in User => ~UserFull(userID[c])
    /\ handler' = [step |-> "insert", client |-> c, user |-> userID[c]]
    /\ userIndex' = [u \in User |-> IF u = userID[c] THEN userIndex[u] \cup {c}
                                    ELSE userIndex[u]]
    /\ UNCHANGED <<userID, inHub>>

\* ErrMaxUserConnectionsReached
RefuseUser(c) ==
    /\ handler = Idling
    /\ inHub[c] = "new"
    /\ userID[c] \in User /\ UserFull(userID[c])
    /\ inHub' = [inHub EXCEPT ![c] = "refused"]
    /\ UNCHANGED <<userID, userIndex, handler>>

\* h.clients[client] = struct{}{}, and the callbacks get the client.
InsertClient ==
    /\ handler.step = "insert"
    /\ inHub' = [inHub EXCEPT ![handler.client] = "registered"]
    /\ handler' = Idling
    /\ UNCHANGED <<userID, userIndex>>

-----------------------------------------------------------------------------
(* handleUnregister                                                        *)

\* The client is present; removeFromUserIndex reads its ID under client.mu.
ReadUserID(c) ==
    /\ handler = Idling
    /\ inHub[c] = "registered"
    /\ handler' = [step |-> IF userID[c] = NoUser THEN "delete" ELSE "unindex",
                   client |-> c, user |-> userID[c]]
    /\ UNCHANGED <<userID, userIndex, inHub>>

\* Then it takes userIndexMu and deletes the client from that user's entry.
RemoveFromUserIndex ==
    /\ handler.step = "unindex"
    /\ userIndex' = [userIndex EXCEPT ![handler.user] = @ \ {handler.client}]
    /\ handler' = [handler EXCEPT !.step = "delete"]
    /\ UNCHANGED <<userID, inHub>>

\* The rooms are left, and delete(h.clients, client) follows.
DeleteClient ==
    /\ handler.step = "delete"
    /\ inHub' = [inHub EXCEPT ![handler.client] = "gone"]
    /\ handler' = Idling
    /\ UNCHANGED <<userID, userIndex>>

-----------------------------------------------------------------------------
(* SetUserID                                                               *)

\* The application has the client from a callback, or from a lookup by user ID,
\* which finds it before it is in h.clients.
Known(c) ==
    \/ inHub[c] \in {"registered", "gone"}
    \/ \E u \in User : c \in ClientsByUserID(u)

SetUnchecked(c, u) ==
    /\ Known(c)
    /\ u # userID[c]
    /\ userID' = [userID EXCEPT ![c] = u]
    /\ userIndex' = [v \in User |->
                       IF v = u THEN userIndex[v] \cup {c}
                       ELSE IF v = userID[c] THEN userIndex[v] \ {c}
                       ELSE userIndex[v]]
    /\ UNCHANGED <<inHub, handler>>

SetKeepsOld(c, u) ==
    /\ Known(c)
    /\ u # userID[c]
    /\ u \in User => ~UserFull(u)
    /\ userID' = [userID EXCEPT ![c] = u]
    /\ userIndex' = [v \in User |->
                       IF v = u THEN userIndex[v] \cup {c} ELSE userIndex[v]]
    /\ UNCHANGED <<inHub, handler>>

\* setClientUserID: limit check, user ID and index in one critical section.  The
\* same ID again, and a full user, change nothing.  It does not look at h.clients.
SetClientUserID(c, u) ==
    /\ Known(c)
    /\ u # userID[c]
    /\ u \in User => ~UserFull(u)
    /\ userID' = [userID EXCEPT ![c] = u]
    /\ userIndex' = [v \in User |->
                       IF v = u THEN userIndex[v] \cup {c}
                       ELSE IF v = userID[c] THEN userIndex[v] \ {c}
                       ELSE userIndex[v]]
    /\ UNCHANGED <<inHub, handler>>

-----------------------------------------------------------------------------
UserNext ==
    \/ \E c \in IndexedClient :
          \/ AddToUserIndex(c) \/ RefuseUser(c) \/ ReadUserID(c)
          \/ \E u \in User \cup {NoUser} : SetClientUserID(c, u)
    \/ InsertClient \/ RemoveFromUserIndex \/ DeleteClient

UserSpec == UserInit /\ [][UserNext]_userVars

-----------------------------------------------------------------------------
(* Properties                                                              *)

\* MaxConnectionsPerUser holds with SetUserID calls racing registrations and
\* each other, and for dead clients that are still indexed too.
UserLimit ==
    MaxPerUser > 0 => \A u \in User : Cardinality(userIndex[u]) <= MaxPerUser

\* SendToUser(u) reaches every connection of u and no connection of anybody else:
\* whatever SetUserID calls race with Run, a registered client that Run is not
\* removing is indexed under its own ID, nobody is indexed under an ID that is not
\* his, and a client whose registration was refused is not indexed at all.
IndexTracksUsers ==
    \A c \in IndexedClient :
        LET listed == {u \in User : c \in ClientsByUserID(u)}
        IN  /\ listed \subseteq {userID[c]}
            /\ (inHub[c] = "registered" /\ handler.client # c)
                  => listed = {userID[c]} \ {NoUser}
            /\ inHub[c] = "refused" => listed = {}
=============================================================================
