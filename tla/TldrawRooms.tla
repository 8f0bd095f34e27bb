----------------------------- MODULE TldrawRooms -----------------------------
(***************************************************************************)
(* The life of a whiteboard room in the API process: TLDrawSyncService     *)
(* keeps one TLSocketRoom per room id in roomsMap, loads it from Mongo     *)
(* under a per-room lock, lets tldraw close it with its last session and   *)
(* writes changed rooms back on an interval.                               *)
(*                                                                         *)
(* A step is one turn of the event loop: the code between two awaits (and  *)
(* the microtasks it settles) runs without interruption.  A document is    *)
(* the set of edits it contains.                                           *)
(***************************************************************************)
EXTENDS Naturals, FiniteSets

CONSTANTS
  Rooms,       \* room ids
  Clients,     \* websocket connections, each served by one handleConnection
  Instances,   \* names for the TLSocketRoom objects alive at a time (a bound)
  Edits,       \* document changes that may be made (a bound)
  MaxCrashes,  \* bound on the restarts of the API process
  None         \* the undefined of Map.get

ASSUME ConstantsAssumption ==
  /\ None \notin Instances
  /\ None \notin Rooms
  /\ None \notin [room: Instances, needsPersist: BOOLEAN]
  /\ MaxCrashes \in Nat

VARIABLES
  roomsMap,    \* roomsMap: room id -> its entry, or None
  roomLocks,   \* keys of roomLocks
  socketRooms, \* the TLSocketRoom objects
  clients,     \* handleConnection of each client, and its session
  mongo,       \* roomData stored for each room id
  saves,       \* findOneAndUpdate calls under way
  sent,        \* saves handed to Mongo so far, of each room id (history)
  stored,      \* the number of the save Mongo holds for it, 0 at first (history)
  made,        \* edits made so far (history)
  crashes      \* restarts so far

vars == <<roomsMap, roomLocks, socketRooms, clients, mongo, saves, sent, stored, made, crashes>>

-----------------------------------------------------------------------------
(* Types *)

RoomState == [room: Instances, needsPersist: BOOLEAN]

\* History: 'issued' is the content last read from or handed to Mongo, 'loaded'
\* the document the room was created from, 'opened' the saves sent until then.
SocketRoom == [status: {"open", "closed"}, content: SUBSET Edits, issued: SUBSET Edits,
               loaded: SUBSET Edits, opened: Nat]

\* idle: no connection; waiting: awaiting another loader's lock; reading:
\* findOne sent; read: Mongo has answered with 'snapshot'; connected: a session.
ClientState == [pc: {"idle", "waiting", "reading", "read", "connected"},
                roomId: Rooms \cup {None},
                room: Instances \cup {None},
                snapshot: SUBSET Edits]

\* A client past its first await has a room id; a connected one has a room.
ClientPlaced(client) ==
  /\ client.pc # "idle" => client.roomId \in Rooms
  /\ client.pc = "connected" => client.room \in Instances

\* The saves of a room id are numbered in the order they are sent (history).
Save == [roomId: Rooms, room: Instances, snapshot: SUBSET Edits, number: Nat]

TypeOK ==
  /\ roomsMap \in [Rooms -> RoomState \cup {None}]
  /\ roomLocks \in SUBSET Rooms
  /\ socketRooms \in [Instances -> SocketRoom]
  /\ clients \in [Clients -> ClientState]
  /\ mongo \in [Rooms -> SUBSET Edits]
  /\ saves \in SUBSET Save
  /\ sent \in [Rooms -> Nat]
  /\ stored \in [Rooms -> Nat]
  /\ made \in SUBSET Edits
  /\ crashes \in 0..MaxCrashes
  /\ \A c \in Clients : ClientPlaced(clients[c])

-----------------------------------------------------------------------------
(* Helpers *)

IdleClient == [pc |-> "idle", roomId |-> None, room |-> None, snapshot |-> {}]

WaitingFor(r) == [pc |-> "waiting", roomId |-> r, room |-> None, snapshot |-> {}]

Reading(r) == [pc |-> "reading", roomId |-> r, room |-> None, snapshot |-> {}]

HasRead(r, found) == [pc |-> "read", roomId |-> r, room |-> None, snapshot |-> found]

\* Faulty variant: the room makeOrLoadRoom found is not returned.
ConnectedToNothing(r, i) == [pc |-> "connected", roomId |-> r, room |-> None, snapshot |-> {}]

ConnectedTo(r, i) == [pc |-> "connected", roomId |-> r, room |-> i, snapshot |-> {}]

NewSocketRoom(found, savesSent) ==
  [status |-> "open", content |-> found, issued |-> found, loaded |-> found, opened |-> savesSent]

NoSocketRoom == [status |-> "closed", content |-> {}, issued |-> {}, loaded |-> {}, opened |-> 0]

HasOpenRoom(r) == roomsMap[r] # None /\ socketRooms[roomsMap[r].room].status = "open"

Loaders(r) == {c \in Clients : clients[c].roomId = r /\ clients[c].pc \in {"reading", "read"}}

\* An object nobody refers to any more: its name can stand for a new one.
Free(i) ==
  /\ socketRooms[i].status = "closed"
  /\ \A r \in Rooms : roomsMap[r] # None => roomsMap[r].room # i
  /\ \A s \in saves : s.room # i

\* Faulty variant: a closed room is no longer saved.
DueForSaveIfOpen(r) == HasOpenRoom(r) /\ roomsMap[r].needsPersist

DueForSave(r) == roomsMap[r] # None /\ roomsMap[r].needsPersist

\* The save of the mapped room: its snapshot, under the room id.
SaveOf(r) == [roomId |-> r, room |-> roomsMap[r].room,
              snapshot |-> socketRooms[roomsMap[r].room].content, number |-> sent[r] + 1]

\* Faulty variant: closed rooms are never removed.
MappedIsClosedNever(r) == FALSE

MappedIsClosed(r) == roomsMap[r] # None /\ socketRooms[roomsMap[r].room].status = "closed"

\* Faulty variant: the change reaches an entry that is no longer in the map.
OnDataChangeMissed(r) == roomsMap

\* The map after onDataChange of the room id: whatever entry it has now is marked.
OnDataChange(r) ==
  IF roomsMap[r] = None THEN roomsMap ELSE [roomsMap EXCEPT ![r].needsPersist = TRUE]

Sessions(i) == {c \in Clients : clients[c].pc = "connected" /\ clients[c].room = i}

-----------------------------------------------------------------------------
Init ==
  /\ roomsMap = [r \in Rooms |-> None]
  /\ roomLocks = {}
  /\ socketRooms = [i \in Instances |-> NoSocketRoom]
  /\ clients = [c \in Clients |-> IdleClient]
  /\ mongo = [r \in Rooms |-> {}]
  /\ saves = {}
  /\ sent = [r \in Rooms |-> 0]
  /\ stored = [r \in Rooms |-> 0]
  /\ made = {}
  /\ crashes = 0

\* Faulty variant: the room is not looked up again once the lock is held.
MakeOrLoadRoomUnchecked(c, r) ==
  /\ r \notin roomLocks
  /\ roomLocks' = roomLocks \cup {r}
  /\ clients' = [clients EXCEPT ![c] = Reading(r)]

\* The part of makeOrLoadRoom that runs without an await: an open room is
\* joined; otherwise the lock is taken, or awaited when another loader has it.
\* A room found after the lock was taken is returned and the lock released,
\* all in this turn.
MakeOrLoadRoom(c, r) ==
  \/ /\ HasOpenRoom(r)
     /\ clients' = [clients EXCEPT ![c] = ConnectedTo(r, roomsMap[r].room)]
     /\ UNCHANGED roomLocks
  \/ /\ ~HasOpenRoom(r)
     /\ r \notin roomLocks
     /\ roomLocks' = roomLocks \cup {r}
     /\ clients' = [clients EXCEPT ![c] = Reading(r)]

\* handleConnection up to its first unfinished await.
HandleConnection(c, r) ==
  /\ clients[c].pc = "idle"
  /\ \/ MakeOrLoadRoom(c, r)
     \/ /\ ~HasOpenRoom(r)
        /\ r \in roomLocks
        /\ clients' = [clients EXCEPT ![c] = WaitingFor(r)]
        /\ UNCHANGED roomLocks
  /\ UNCHANGED <<roomsMap, socketRooms, mongo, saves, sent, stored, made, crashes>>

\* The awaited lock was released: the while loop ends and the room is looked
\* up again inside the critical section.
LockReleased(c) ==
  /\ clients[c].pc = "waiting"
  /\ clients[c].roomId \notin roomLocks
  /\ MakeOrLoadRoom(c, clients[c].roomId)
  /\ UNCHANGED <<roomsMap, socketRooms, mongo, saves, sent, stored, made, crashes>>

\* Mongo serves the findOne of the loader.
FindRoom(c) ==
  /\ clients[c].pc = "reading"
  /\ clients' = [clients EXCEPT ![c] = HasRead(clients[c].roomId, mongo[clients[c].roomId])]
  /\ UNCHANGED <<roomsMap, roomLocks, socketRooms, mongo, saves, sent, stored, made, crashes>>

\* Faulty variant: the lock survives a failed load.
FindRoomFailsLocked(c) ==
  /\ clients[c].pc = "reading"
  /\ clients' = [clients EXCEPT ![c] = IdleClient]
  /\ UNCHANGED <<roomsMap, roomLocks, socketRooms, mongo, saves, sent, stored, made, crashes>>

\* findOne rejects: the lock is released and the client closed.
FindRoomFails(c) ==
  /\ clients[c].pc = "reading"
  /\ roomLocks' = roomLocks \ {clients[c].roomId}
  /\ clients' = [clients EXCEPT ![c] = IdleClient]
  /\ UNCHANGED <<roomsMap, socketRooms, mongo, saves, sent, stored, made, crashes>>

\* The answer of findOne arrives: the room is created and entered in the map,
\* the lock released, and the client connected unless handleSocketConnect throws.
RoomLoaded(c) ==
  LET r == clients[c].roomId IN
  /\ clients[c].pc = "read"
  /\ \E i \in Instances :
       /\ Free(i)
       /\ socketRooms' = [socketRooms EXCEPT ![i] = NewSocketRoom(clients[c].snapshot, sent[r])]
       /\ roomsMap' = [roomsMap EXCEPT ![r] = [room |-> i, needsPersist |-> FALSE]]
       /\ \E connected \in {ConnectedTo(r, i), IdleClient} :
            clients' = [clients EXCEPT ![c] = connected]
  /\ roomLocks' = roomLocks \ {r}
  /\ UNCHANGED <<mongo, saves, sent, stored, made, crashes>>

\* A session changes the document; onDataChange marks the entry the map has
\* for the room id at that moment.
Edit(c) ==
  LET i == clients[c].room IN
  /\ clients[c].pc = "connected"
  /\ \E e \in Edits \ made :
       /\ made' = made \cup {e}
       /\ socketRooms' = [socketRooms EXCEPT ![i].content = @ \cup {e}]
  /\ roomsMap' = OnDataChange(clients[c].roomId)
  /\ UNCHANGED <<roomLocks, clients, mongo, saves, sent, stored, crashes>>

\* tldraw removes a session (closed or timed out); onSessionRemoved closes the
\* room when none remains.
SessionRemoved(c) ==
  LET i == clients[c].room IN
  /\ clients[c].pc = "connected"
  /\ clients' = [clients EXCEPT ![c] = IdleClient]
  /\ socketRooms' = IF Sessions(i) = {c} THEN [socketRooms EXCEPT ![i].status = "closed"]
                    ELSE socketRooms
  /\ UNCHANGED <<roomsMap, roomLocks, mongo, saves, sent, stored, made, crashes>>

\* One pass of the interval over the map: a marked room is unmarked and its
\* snapshot sent to Mongo without being awaited; a closed room leaves the map.
HandleRoomPersistence ==
  LET due == {r \in Rooms : DueForSave(r)}
      saved == {roomsMap[r].room : r \in due} IN
  /\ saves' = saves \cup {SaveOf(r) : r \in due}
  /\ sent' = [r \in Rooms |-> IF r \in due THEN sent[r] + 1 ELSE sent[r]]
  /\ roomsMap' = [r \in Rooms |->
       IF roomsMap[r] = None \/ MappedIsClosed(r) THEN None
       ELSE [roomsMap[r] EXCEPT !.needsPersist = FALSE]]
  /\ socketRooms' = [i \in Instances |->
       IF i \in saved THEN [socketRooms[i] EXCEPT !.issued = socketRooms[i].content]
       ELSE socketRooms[i]]
  /\ UNCHANGED <<roomLocks, clients, mongo, stored, made, crashes>>

\* Mongo applies a findOneAndUpdate; two that overlap may be applied in
\* either order, since each uses a connection of the pool.
SaveApplied(s) ==
  /\ s \in saves
  /\ mongo' = [mongo EXCEPT ![s.roomId] = s.snapshot]
  /\ stored' = [stored EXCEPT ![s.roomId] = s.number]
  /\ saves' = saves \ {s}
  /\ UNCHANGED <<roomsMap, roomLocks, socketRooms, clients, sent, made, crashes>>

\* A rejected save is not retried: the mark was already cleared.
SaveFails(s) ==
  /\ s \in saves
  /\ saves' = saves \ {s}
  /\ UNCHANGED <<roomsMap, roomLocks, socketRooms, clients, mongo, sent, stored, made, crashes>>

\* The process dies and restarts with empty maps; calls that reached Mongo
\* may still be applied.
Crash ==
  /\ crashes < MaxCrashes
  /\ crashes' = crashes + 1
  /\ roomsMap' = [r \in Rooms |-> None]
  /\ roomLocks' = {}
  /\ clients' = [c \in Clients |-> IdleClient]
  /\ socketRooms' = [i \in Instances |->
       IF socketRooms[i].status = "open" THEN [socketRooms[i] EXCEPT !.status = "closed"]
       ELSE socketRooms[i]]
  /\ UNCHANGED <<mongo, saves, sent, stored, made>>

Next ==
  \/ \E c \in Clients, r \in Rooms : HandleConnection(c, r)
  \/ \E c \in Clients :
       \/ LockReleased(c)
       \/ FindRoom(c)
       \/ FindRoomFails(c)
       \/ RoomLoaded(c)
       \/ Edit(c)
       \/ SessionRemoved(c)
  \/ HandleRoomPersistence
  \/ \E s \in saves : SaveApplied(s) \/ SaveFails(s)
  \/ Crash

Spec == Init /\ [][Next]_vars

\* The interval timer ticks, Mongo answers, and a released lock wakes its
\* waiters before any newcomer runs, first come first served.
Fairness ==
  /\ WF_vars(HandleRoomPersistence)
  /\ \A c \in Clients :
       /\ WF_vars(FindRoom(c) \/ FindRoomFails(c))
       /\ WF_vars(RoomLoaded(c))
       /\ SF_vars(LockReleased(c))
  /\ WF_vars(\E s \in saves : SaveApplied(s) \/ SaveFails(s))

FairSpec == Spec /\ Fairness
-----------------------------------------------------------------------------
(* Properties *)

\* The room lock excludes: at most one client loads a room, and the lock is
\* held exactly while one does (withGlobalRoomLock with its finally).
SingleLoader ==
  \A r \in Rooms :
    /\ \A c, d \in Loaders(r) : c = d
    /\ r \in roomLocks <=> Loaders(r) # {}

\* No split brain: everybody connected to a room id edits the one open room
\* that roomsMap holds for it (makeOrLoadRoom, createRoom, removal on the interval).
OneSharedRoom ==
  \A c \in Clients : clients[c].pc = "connected" =>
    /\ HasOpenRoom(clients[c].roomId)
    /\ roomsMap[clients[c].roomId].room = clients[c].room

\* A room in the map whose content has not been handed to Mongo is marked for
\* the next pass of handleRoomPersistence.
ChangesMarked ==
  \A r \in Rooms : roomsMap[r] # None =>
    LET room == socketRooms[roomsMap[r].room] IN
    room.content # room.issued => roomsMap[r].needsPersist

\* A room id leaves the map only after the final content of its room was
\* handed to Mongo, restarts excepted.
DroppedOnlyWhenIssued ==
  [][\A r \in Rooms :
       (roomsMap[r] # None /\ roomsMap'[r] = None /\ crashes' = crashes)
         => LET room == socketRooms'[roomsMap[r].room] IN room.issued = room.content]_vars

\* What is stored, on its way to Mongo, or due to be sent by the next pass.
Kept(r) ==
  mongo[r] \cup (UNION {s.snapshot : s \in {t \in saves : t.roomId = r}})
           \cup (IF roomsMap[r] # None /\ roomsMap[r].needsPersist
                      THEN socketRooms[roomsMap[r].room].content ELSE {})

\* The five ways an edit can vanish.
\* 1. The process restarts.
Restarts == crashes' # crashes

\* 2. A save is rejected, and not retried.
Fails(s) == stored'[s.roomId] # s.number

\* 3. A save is applied after a newer one of its room id was.
IsOvertaken(s) == s.number < stored[s.roomId]

\* 4. The room was read from Mongo before the last save of an earlier room of the id was
\*    applied: that save's edits are missing from all it saves itself.
ReadTooEarly(s) ==
  LET room == socketRooms[s.room] IN
  stored[s.roomId] <= room.opened /\ mongo[s.roomId] # room.loaded

\* 5. A marked closed room is opened again before the interval has saved it.
ReopenedUnsaved(r) ==
  /\ roomsMap[r] # None /\ roomsMap'[r] # None
  /\ roomsMap'[r].room # roomsMap[r].room
  /\ roomsMap[r].needsPersist

LossWindow(r) ==
  \/ Restarts
  \/ \E s \in saves \ saves' : s.roomId = r /\ (Fails(s) \/ IsOvertaken(s) \/ ReadTooEarly(s))
  \/ ReopenedUnsaved(r)

\* No edit of a room vanishes from what is stored, sent or due to be sent in any turn but
\* these: above all, a save that is applied in its turn, by a room that had read what
\* earlier rooms saved, overwrites nothing it does not contain (saveToMongo, makeOrLoadRoom,
\* handleRoomPersistence).
EditsVanishOnlyInWindows ==
  [][\A r \in Rooms : ~(Kept(r) \subseteq Kept(r)') => LossWindow(r)]_vars

\* Nobody waits for ever for a room another connection is loading, whether
\* that load succeeds or fails.
WaitersServed == \A c \in Clients : clients[c].pc = "waiting" ~> clients[c].pc # "waiting"

\* A closed room does not stay in the map: it is removed or replaced.
ClosedRoomsLeave ==
  \A r \in Rooms : (roomsMap[r] # None /\ socketRooms[roomsMap[r].room].status = "closed")
                     ~> (roomsMap[r] = None \/ HasOpenRoom(r))

-----------------------------------------------------------------------------
(* What the service promises, on the service's own state *)

MembersOf(r) == {c \in Clients : clients[c].pc = "connected" /\ clients[c].roomId = r}

DocumentOf(r) == IF roomsMap[r] = None THEN {} ELSE {socketRooms[roomsMap[r].room].content}

\* Stored, on its way to Mongo, or read by a connection that is loading the room.
VersionsOf(r) ==
  {mongo[r]} \cup {s.snapshot : s \in {t \in saves : t.roomId = r}}
             \cup {clients[c].snapshot : c \in {d \in Loaders(r) : clients[d].pc = "read"}}

Whiteboard == INSTANCE SharedWhiteboard WITH
  members  <- [r \in Rooms |-> MembersOf(r)],
  live     <- {r \in Rooms : HasOpenRoom(r)},
  document <- [r \in Rooms |-> DocumentOf(r)],
  versions <- [r \in Rooms |-> VersionsOf(r)]

\* A room id is one document for all who are connected to it: nobody draws on another,
\* it changes only by what they draw, it lives until the last one leaves, and it comes
\* back as a version of its own (makeOrLoadRoom, createRoom, handleRoomPersistence,
\* saveToMongo).
RoomIsOneDocument == Whiteboard!WhiteboardSpec
=============================================================================
