-------------------------- MODULE TldrawRoomsProofs --------------------------
(***************************************************************************)
(* Proofs about TldrawRooms, for any sets of rooms, clients, TLSocketRoom  *)
(* objects and edits: its invariants, what its steps never do, and that it *)
(* implements SharedWhiteboard.                                            *)
(***************************************************************************)
EXTENDS TldrawRooms, TLAPS

-----------------------------------------------------------------------------
(* Types of the values the actions store *)

LEMMA ClientTypes ==
  /\ IdleClient \in ClientState
  /\ \A r \in Rooms : WaitingFor(r) \in ClientState /\ Reading(r) \in ClientState
  /\ \A r \in Rooms, found \in SUBSET Edits : HasRead(r, found) \in ClientState
  /\ \A r \in Rooms, i \in Instances : ConnectedTo(r, i) \in ClientState
BY DEF ClientState, IdleClient, WaitingFor, Reading, HasRead, ConnectedTo

LEMMA SocketRoomTypes ==
  /\ NoSocketRoom \in SocketRoom
  /\ \A found \in SUBSET Edits, n \in Nat : NewSocketRoom(found, n) \in SocketRoom
  /\ \A room \in SocketRoom :
       /\ [room EXCEPT !.status = "closed"] \in SocketRoom
       /\ [room EXCEPT !.issued = room.content] \in SocketRoom
       /\ \A e \in Edits : [room EXCEPT !.content = @ \cup {e}] \in SocketRoom
BY DEF SocketRoom, NoSocketRoom, NewSocketRoom

LEMMA EntryTypes ==
  /\ \A i \in Instances, b \in BOOLEAN : [room |-> i, needsPersist |-> b] \in RoomState
  /\ \A entry \in RoomState, b \in BOOLEAN : [entry EXCEPT !.needsPersist = b] \in RoomState
BY DEF RoomState

LEMMA NoneNoEntry == None \notin RoomState
BY ConstantsAssumption DEF RoomState

\* No entry of the map is the None that stands for undefined.
LEMMA EntryIsRecord == \A entry \in RoomState \cup {None} : entry # None => entry \in RoomState
OBVIOUS

LEMMA ClientsPlacedTypes ==
  /\ ClientPlaced(IdleClient)
  /\ \A r \in Rooms : ClientPlaced(WaitingFor(r)) /\ ClientPlaced(Reading(r))
  /\ \A r \in Rooms, found \in SUBSET Edits : ClientPlaced(HasRead(r, found))
  /\ \A r \in Rooms, i \in Instances : ClientPlaced(ConnectedTo(r, i))
BY DEF ClientPlaced, IdleClient, WaitingFor, Reading, HasRead, ConnectedTo

LEMMA TypeInit == Init => TypeOK
BY ConstantsAssumption, ClientTypes, ClientsPlacedTypes, SocketRoomTypes DEF Init, TypeOK

LEMMA TypeStep == TypeOK /\ [Next]_vars => TypeOK'
<1> SUFFICES ASSUME TypeOK, [Next]_vars PROVE TypeOK'
  OBVIOUS
<1> USE DEF TypeOK
<1>1. ASSUME NEW c \in Clients, NEW r \in Rooms, HandleConnection(c, r) PROVE TypeOK'
  <2>1. roomsMap[r] # None => roomsMap[r].room \in Instances
    BY EntryIsRecord DEF RoomState
  <2>2. \E value \in ClientState : clients' = [clients EXCEPT ![c] = value] /\ ClientPlaced(value)
    BY <1>1, <2>1, ClientTypes, ClientsPlacedTypes DEF HandleConnection, MakeOrLoadRoom, HasOpenRoom
  <2>3. roomLocks' \in SUBSET Rooms
    BY <1>1 DEF HandleConnection, MakeOrLoadRoom
  <2>4. QED
    BY <1>1, <2>2, <2>3 DEF HandleConnection
<1>2. ASSUME NEW c \in Clients, LockReleased(c) PROVE TypeOK'
  <2> DEFINE r == clients[c].roomId
  <2>0. r \in Rooms
    BY <1>2 DEF LockReleased, ClientPlaced
  <2>1. roomsMap[r] # None => roomsMap[r].room \in Instances
    BY <2>0, EntryIsRecord DEF RoomState
  <2>2. \E value \in ClientState : clients' = [clients EXCEPT ![c] = value] /\ ClientPlaced(value)
    BY <1>2, <2>0, <2>1, ClientTypes, ClientsPlacedTypes DEF LockReleased, MakeOrLoadRoom, HasOpenRoom
  <2>3. roomLocks' \in SUBSET Rooms
    BY <1>2, <2>0 DEF LockReleased, MakeOrLoadRoom
  <2>4. QED
    BY <1>2, <2>2, <2>3 DEF LockReleased
<1>3. ASSUME NEW c \in Clients, FindRoom(c) PROVE TypeOK'
  <2>1. clients[c].roomId \in Rooms
    BY <1>3 DEF FindRoom, ClientPlaced
  <2>2. QED
    BY <1>3, <2>1, ClientTypes, ClientsPlacedTypes DEF FindRoom
<1>4. ASSUME NEW c \in Clients, FindRoomFails(c) PROVE TypeOK'
  BY <1>4, ClientTypes, ClientsPlacedTypes DEF FindRoomFails
<1>5. ASSUME NEW c \in Clients, RoomLoaded(c) PROVE TypeOK'
  <2> DEFINE r == clients[c].roomId
  <2>0. r \in Rooms /\ clients[c].snapshot \in SUBSET Edits /\ sent[r] \in Nat
    BY <1>5 DEF RoomLoaded, ClientPlaced, ClientState
  <2>1. PICK i \in Instances :
          /\ socketRooms' = [socketRooms EXCEPT ![i] = NewSocketRoom(clients[c].snapshot, sent[r])]
          /\ roomsMap' = [roomsMap EXCEPT ![r] = [room |-> i, needsPersist |-> FALSE]]
          /\ \E connected \in {ConnectedTo(r, i), IdleClient} :
               clients' = [clients EXCEPT ![c] = connected]
    BY <1>5 DEF RoomLoaded
  <2>2. socketRooms' \in [Instances -> SocketRoom]
    BY <2>0, <2>1, SocketRoomTypes
  <2>3. roomsMap' \in [Rooms -> RoomState \cup {None}]
    BY <2>0, <2>1, EntryTypes
  <2>4. clients' \in [Clients -> ClientState] /\ \A d \in Clients : ClientPlaced(clients'[d])
    BY <2>0, <2>1, ClientTypes, ClientsPlacedTypes
  <2>5. QED
    BY <1>5, <2>2, <2>3, <2>4 DEF RoomLoaded
<1>6. ASSUME NEW c \in Clients, Edit(c) PROVE TypeOK'
  <2> DEFINE r == clients[c].roomId
             i == clients[c].room
  <2>0. r \in Rooms /\ i \in Instances
    BY <1>6 DEF Edit, OnDataChange, ClientPlaced
  <2>1. PICK e \in Edits \ made :
          /\ made' = made \cup {e}
          /\ socketRooms' = [socketRooms EXCEPT ![i].content = @ \cup {e}]
    BY <1>6 DEF Edit, OnDataChange
  <2>2. socketRooms' \in [Instances -> SocketRoom]
    BY <2>0, <2>1, SocketRoomTypes
  <2>3. roomsMap' \in [Rooms -> RoomState \cup {None}]
    BY <1>6, <2>0, EntryTypes, EntryIsRecord DEF Edit, OnDataChange
  <2>4. QED
    BY <1>6, <2>1, <2>2, <2>3 DEF Edit, OnDataChange
<1>7. ASSUME NEW c \in Clients, SessionRemoved(c) PROVE TypeOK'
  <2>1. clients[c].room \in Instances
    BY <1>7 DEF SessionRemoved, ClientPlaced
  <2>2. QED
    BY <1>7, <2>1, ClientTypes, ClientsPlacedTypes, SocketRoomTypes DEF SessionRemoved
<1>8. CASE HandleRoomPersistence
  <2>1. \A r \in Rooms : roomsMap[r] # None => roomsMap[r] \in RoomState /\ roomsMap[r].room \in Instances
    BY EntryIsRecord DEF RoomState
  <2>2. roomsMap' \in [Rooms -> RoomState \cup {None}]
    BY <1>8, <2>1, EntryTypes DEF HandleRoomPersistence
  <2>3. socketRooms' \in [Instances -> SocketRoom]
    BY <1>8, SocketRoomTypes DEF HandleRoomPersistence
  <2>4. saves' \in SUBSET Save
    <3>1. \A i \in Instances : socketRooms[i].content \in SUBSET Edits
      BY DEF SocketRoom
    <3>2. ASSUME NEW r \in Rooms, roomsMap[r] # None
          PROVE SaveOf(r) \in Save
      BY <2>1, <3>1, <3>2 DEF Save, SaveOf
    <3>3. QED
      BY <1>8, <3>2 DEF HandleRoomPersistence, DueForSave
  <2>5. sent' \in [Rooms -> Nat]
    BY <1>8 DEF HandleRoomPersistence
  <2>6. QED
    BY <1>8, <2>2, <2>3, <2>4, <2>5 DEF HandleRoomPersistence
<1>9. ASSUME NEW s \in saves, SaveApplied(s) \/ SaveFails(s) PROVE TypeOK'
  <2>1. s.roomId \in Rooms /\ s.snapshot \in SUBSET Edits /\ s.number \in Nat
    BY DEF Save
  <2>2. mongo' \in [Rooms -> SUBSET Edits] /\ saves' \in SUBSET Save /\ stored' \in [Rooms -> Nat]
    BY <1>9, <2>1 DEF SaveApplied, SaveFails
  <2>3. QED
    BY <1>9, <2>2 DEF SaveApplied, SaveFails
<1>10. CASE Crash
  <2>1. crashes' \in 0..MaxCrashes
    BY <1>10, ConstantsAssumption DEF Crash
  <2>2. socketRooms' \in [Instances -> SocketRoom]
    BY <1>10, SocketRoomTypes DEF Crash
  <2>3. clients' \in [Clients -> ClientState] /\ \A c \in Clients : ClientPlaced(clients'[c])
    BY <1>10, ClientTypes, ClientsPlacedTypes DEF Crash
  <2>4. roomsMap' \in [Rooms -> RoomState \cup {None}] /\ roomLocks' \in SUBSET Rooms
    BY <1>10 DEF Crash
  <2>5. QED
    BY <1>10, <2>1, <2>2, <2>3, <2>4 DEF Crash
<1>11. CASE UNCHANGED vars
  BY <1>11 DEF vars
<1>12. QED
  BY <1>1, <1>2, <1>3, <1>4, <1>5, <1>6, <1>7, <1>8, <1>9, <1>10, <1>11 DEF Next

\* Every variable keeps its type: the entries of roomsMap, the TLSocketRoom
\* objects, the state of each handleConnection and the calls to Mongo.
THEOREM TypeCorrect == Spec => []TypeOK
  BY TypeInit, TypeStep, PTL DEF Spec

-----------------------------------------------------------------------------
(* Mutual exclusion of loaders, and one shared room per id *)

\* A locked room id has no open room: the holder is about to create one.
LockedNotOpen == \A r \in roomLocks : ~HasOpenRoom(r)

RoomInv == TypeOK /\ SingleLoader /\ OneSharedRoom /\ LockedNotOpen

\* Who loads and who is connected after a step that changes one client.
LEMMA OneClientChanges ==
  ASSUME TypeOK, NEW c \in Clients, NEW value \in ClientState,
         clients' = [clients EXCEPT ![c] = value]
  PROVE  /\ clients'[c] = value
         /\ \A d \in Clients : d # c => clients'[d] = clients[d]
BY DEF TypeOK

LEMMA ClientPcs ==
  /\ IdleClient.pc = "idle"
  /\ \A r \in Rooms : WaitingFor(r).pc = "waiting"
  /\ \A r \in Rooms : Reading(r).pc = "reading" /\ Reading(r).roomId = r
  /\ \A r \in Rooms, found \in SUBSET Edits :
       HasRead(r, found).pc = "read" /\ HasRead(r, found).roomId = r
  /\ \A r \in Rooms, i \in Instances :
       /\ ConnectedTo(r, i).pc = "connected"
       /\ ConnectedTo(r, i).roomId = r /\ ConnectedTo(r, i).room = i
BY DEF IdleClient, WaitingFor, Reading, HasRead, ConnectedTo

\* A client that joins through makeOrLoadRoom, from "idle" or "waiting".
LEMMA JoinKeepsRoomInv ==
  ASSUME RoomInv, TypeOK', NEW c \in Clients, NEW r \in Rooms,
         clients[c].pc \in {"idle", "waiting"},
         \/ MakeOrLoadRoom(c, r)
         \/ clients' = [clients EXCEPT ![c] = WaitingFor(r)] /\ UNCHANGED roomLocks,
         UNCHANGED <<roomsMap, socketRooms>>
  PROVE  RoomInv'
<1> USE DEF RoomInv
<1>0. /\ \A q \in Rooms : HasOpenRoom(q)' <=> HasOpenRoom(q)
      /\ HasOpenRoom(r) => roomsMap[r].room \in Instances
      /\ roomLocks \subseteq Rooms /\ roomLocks' \subseteq Rooms
      /\ \A d \in Clients : clients[d].pc = "connected" => clients[d].roomId \in Rooms
  BY EntryIsRecord DEF HasOpenRoom, TypeOK, RoomState, ClientPlaced
<1>1. CASE HasOpenRoom(r) /\ clients' = [clients EXCEPT ![c] = ConnectedTo(r, roomsMap[r].room)] /\ UNCHANGED roomLocks
  <2>1. /\ clients'[c] = ConnectedTo(r, roomsMap[r].room)
        /\ \A d \in Clients : d # c => clients'[d] = clients[d]
    BY <1>0, <1>1, ClientTypes, OneClientChanges
  <2>2. \A q \in Rooms : Loaders(q)' = Loaders(q)
    BY <1>0, <1>1, <2>1, ClientPcs DEF Loaders
  <2>3. SingleLoader' /\ LockedNotOpen'
    BY <1>0, <1>1, <2>2 DEF SingleLoader, LockedNotOpen
  <2>4. OneSharedRoom'
    BY <1>0, <1>1, <2>1, ClientPcs DEF OneSharedRoom
  <2>5. QED
    BY <2>3, <2>4
<1>2. CASE ~HasOpenRoom(r) /\ r \notin roomLocks /\ roomLocks' = roomLocks \cup {r}
           /\ clients' = [clients EXCEPT ![c] = Reading(r)]
  <2>1. clients'[c] = Reading(r) /\ \A d \in Clients : d # c => clients'[d] = clients[d]
    BY <1>2, ClientTypes, OneClientChanges
  <2>2. Loaders(r)' = {c} /\ \A q \in Rooms : q # r => Loaders(q)' = Loaders(q)
    BY <1>2, <2>1, ClientPcs DEF Loaders, SingleLoader
  <2>3. SingleLoader' /\ LockedNotOpen'
    BY <1>0, <1>2, <2>2 DEF SingleLoader, LockedNotOpen
  <2>4. OneSharedRoom'
    BY <1>0, <2>1, ClientPcs DEF OneSharedRoom
  <2>5. QED
    BY <2>3, <2>4
<1>3. CASE clients' = [clients EXCEPT ![c] = WaitingFor(r)] /\ UNCHANGED roomLocks
  <2>1. clients'[c] = WaitingFor(r) /\ \A d \in Clients : d # c => clients'[d] = clients[d]
    BY <1>3, ClientTypes, OneClientChanges
  <2>2. \A q \in Rooms : Loaders(q)' = Loaders(q)
    BY <2>1, ClientPcs DEF Loaders
  <2>3. SingleLoader' /\ LockedNotOpen'
    BY <1>0, <1>3, <2>2 DEF SingleLoader, LockedNotOpen
  <2>4. OneSharedRoom'
    BY <1>0, <2>1, ClientPcs DEF OneSharedRoom
  <2>5. QED
    BY <2>3, <2>4
<1>4. QED
  BY <1>1, <1>2, <1>3 DEF MakeOrLoadRoom

\* A client that stops loading, with or without having entered a room.
LEMMA LoaderLeaves ==
  ASSUME RoomInv, TypeOK', NEW c \in Clients, NEW r \in Rooms,
         clients[c].pc \in {"reading", "read"}, clients[c].roomId = r,
         roomLocks' = roomLocks \ {r},
         \/ clients' = [clients EXCEPT ![c] = IdleClient]
         \/ \E i \in Instances : clients' = [clients EXCEPT ![c] = ConnectedTo(r, i)]
  PROVE  SingleLoader'
<1>1. \E value \in ClientState :
        /\ value.pc \notin {"reading", "read"}
        /\ clients' = [clients EXCEPT ![c] = value]
  BY ClientTypes, ClientPcs
<1>2. /\ clients'[c].pc \notin {"reading", "read"}
      /\ \A d \in Clients : d # c => clients'[d] = clients[d]
  BY <1>1, OneClientChanges DEF RoomInv
<1>3. Loaders(r) = {c}
  BY DEF RoomInv, SingleLoader, Loaders
<1>4. Loaders(r)' = {} /\ \A q \in Rooms : q # r => Loaders(q)' = Loaders(q)
  BY <1>2, <1>3 DEF Loaders
<1>5. QED
  BY <1>4 DEF RoomInv, SingleLoader

LEMMA RoomInvStep == RoomInv /\ [Next]_vars => RoomInv'
<1> SUFFICES ASSUME RoomInv, [Next]_vars PROVE RoomInv'
  OBVIOUS
<1> USE DEF RoomInv
<1>0. TypeOK'
  BY TypeStep
<1>a. /\ roomLocks \subseteq Rooms /\ roomLocks' \subseteq Rooms
      /\ \A d \in Clients : ClientPlaced(clients[d]) /\ ClientPlaced(clients'[d])
  BY <1>0 DEF TypeOK
<1>1. ASSUME NEW c \in Clients, NEW r \in Rooms, HandleConnection(c, r) PROVE RoomInv'
  BY <1>0, <1>1, JoinKeepsRoomInv DEF HandleConnection
<1>2. ASSUME NEW c \in Clients, LockReleased(c) PROVE RoomInv'
  <2>1. clients[c].roomId \in Rooms
    BY <1>2, <1>a DEF LockReleased, ClientPlaced
  <2>2. QED
    BY <1>0, <1>2, <2>1, JoinKeepsRoomInv DEF LockReleased
<1>3. ASSUME NEW c \in Clients, FindRoom(c) PROVE RoomInv'
  <2> DEFINE r == clients[c].roomId
  <2>1. r \in Rooms /\ mongo[r] \in SUBSET Edits
    BY <1>3, <1>a DEF FindRoom, ClientPlaced, TypeOK
  <2>2. /\ clients'[c] = HasRead(r, mongo[r])
        /\ \A d \in Clients : d # c => clients'[d] = clients[d]
    BY <1>3, <2>1, ClientTypes, OneClientChanges DEF FindRoom
  <2>3. \A q \in Rooms : Loaders(q)' = Loaders(q)
    BY <1>3, <2>1, <2>2, ClientPcs DEF Loaders, FindRoom
  <2>4. SingleLoader'
    BY <1>3, <2>3 DEF SingleLoader, FindRoom
  <2>5. OneSharedRoom'
    <3>1. roomsMap' = roomsMap /\ \A q \in Rooms : HasOpenRoom(q)' = HasOpenRoom(q)
      BY <1>3 DEF FindRoom, HasOpenRoom
    <3>2. clients'[c].pc # "connected"
      BY <2>2 DEF HasRead
    <3>3. \A d \in Clients : clients'[d].pc = "connected" => clients'[d] = clients[d]
      BY <2>2, <3>2
    <3>4. \A d \in Clients : clients[d].pc = "connected" => clients[d].roomId \in Rooms
      BY <1>a DEF ClientPlaced
    <3> QED BY <3>1, <3>3, <3>4 DEF OneSharedRoom, RoomInv
  <2>6. LockedNotOpen'
    BY <1>3 DEF LockedNotOpen, HasOpenRoom, FindRoom
  <2>7. QED
    BY <1>0, <2>4, <2>5, <2>6
<1>4. ASSUME NEW c \in Clients, FindRoomFails(c) PROVE RoomInv'
  <2>1. clients[c].roomId \in Rooms
    BY <1>4, <1>a DEF FindRoomFails, ClientPlaced
  <2>2. SingleLoader'
    BY <1>0, <1>4, <2>1, LoaderLeaves DEF FindRoomFails
  <2>3. clients'[c] = IdleClient /\ \A d \in Clients : d # c => clients'[d] = clients[d]
    BY <1>4, ClientTypes, OneClientChanges DEF FindRoomFails
  <2>4. OneSharedRoom'
    BY <1>4, <2>3, ClientPcs DEF OneSharedRoom, HasOpenRoom, FindRoomFails
  <2>5. LockedNotOpen'
    BY <1>4 DEF LockedNotOpen, HasOpenRoom, FindRoomFails
  <2>6. QED
    BY <1>0, <2>2, <2>4, <2>5
<1>5. ASSUME NEW c \in Clients, RoomLoaded(c) PROVE RoomInv'
  <2>0. PICK r \in Rooms : r = clients[c].roomId /\ r \in roomLocks /\ ~HasOpenRoom(r)
    BY <1>5, <1>a DEF RoomLoaded, ClientPlaced, SingleLoader, LockedNotOpen, Loaders
  <2>1. PICK i \in Instances :
          /\ Free(i)
          /\ socketRooms' = [socketRooms EXCEPT ![i] = NewSocketRoom(clients[c].snapshot, sent[r])]
          /\ roomsMap' = [roomsMap EXCEPT ![r] = [room |-> i, needsPersist |-> FALSE]]
          /\ \/ clients' = [clients EXCEPT ![c] = ConnectedTo(r, i)]
             \/ clients' = [clients EXCEPT ![c] = IdleClient]
          /\ roomLocks' = roomLocks \ {r}
    BY <1>5, <2>0 DEF RoomLoaded
  <2>2. SingleLoader'
    <3>1. clients[c].pc \in {"reading", "read"}
      BY <1>5 DEF RoomLoaded
    <3>2. QED
      BY <1>0, <2>0, <2>1, <3>1, LoaderLeaves
  <2>3. /\ roomsMap'[r] = [room |-> i, needsPersist |-> FALSE] /\ roomsMap'[r] # None
        /\ socketRooms'[i].status = "open"
        /\ \A q \in Rooms : q # r => roomsMap'[q] = roomsMap[q]
        /\ \A j \in Instances : j # i => socketRooms'[j] = socketRooms[j]
    <3>1. [room |-> i, needsPersist |-> FALSE] \in RoomState
      BY EntryTypes
    <3>2. roomsMap'[r] # None
      BY <2>0, <2>1, <3>1, NoneNoEntry DEF TypeOK
    <3>3. /\ roomsMap'[r] = [room |-> i, needsPersist |-> FALSE]
          /\ \A q \in Rooms : q # r => roomsMap'[q] = roomsMap[q]
      BY <2>0, <2>1 DEF TypeOK
    <3>4. /\ socketRooms'[i] = NewSocketRoom(clients[c].snapshot, sent[r])
          /\ \A j \in Instances : j # i => socketRooms'[j] = socketRooms[j]
      BY <2>1 DEF TypeOK
    <3>5. QED
      BY <3>2, <3>3, <3>4 DEF NewSocketRoom
  <2>4. \A q \in Rooms : roomsMap[q] # None => roomsMap[q].room \in Instances /\ roomsMap[q].room # i
    BY <2>1, EntryIsRecord DEF TypeOK, RoomState, Free
  <2>5. HasOpenRoom(r)' /\ \A q \in Rooms : q # r => (HasOpenRoom(q)' <=> HasOpenRoom(q))
    <3>1. roomsMap'[r].room = i
      BY <2>3
    <3>2. HasOpenRoom(r)'
      BY <2>3, <3>1 DEF HasOpenRoom
    <3>3. \A q \in Rooms : q # r => (HasOpenRoom(q)' <=> HasOpenRoom(q))
      BY <2>3, <2>4 DEF HasOpenRoom
    <3>4. QED
      BY <3>2, <3>3
  <2>6. LockedNotOpen'
    BY <1>a, <2>1, <2>5 DEF LockedNotOpen
  <2>7. OneSharedRoom'
    <3>1. \A d \in Clients : d # c => clients'[d] = clients[d]
      BY <2>0, <2>1 DEF TypeOK
    <3>2. clients'[c].pc = "connected" => clients'[c].roomId = r /\ clients'[c].room = i
      BY <2>0, <2>1, ClientPcs DEF TypeOK
    <3>3. ASSUME NEW d \in Clients, d # c, clients[d].pc = "connected"
          PROVE clients[d].roomId \in Rooms /\ clients[d].roomId # r
      BY <1>a, <2>0, <3>3 DEF OneSharedRoom, ClientPlaced
    <3>4. QED
      BY <2>3, <2>5, <3>1, <3>2, <3>3 DEF OneSharedRoom
  <2>8. QED
    BY <1>0, <2>2, <2>6, <2>7
<1>6. ASSUME NEW c \in Clients, Edit(c) PROVE RoomInv'
  <2> DEFINE r == clients[c].roomId
             i == clients[c].room
  <2>1. r \in Rooms /\ i \in Instances /\ roomsMap[r] # None
    BY <1>6, <1>a DEF Edit, OnDataChange, ClientPlaced, OneSharedRoom, HasOpenRoom
  <2>2. \A j \in Instances : socketRooms'[j].status = socketRooms[j].status
    BY <1>6, <2>1 DEF Edit, OnDataChange, TypeOK, SocketRoom
  <2>3. /\ \A q \in Rooms : roomsMap[q] # None => roomsMap[q] \in RoomState
        /\ \A q \in Rooms : roomsMap'[q] # None => roomsMap'[q] \in RoomState
    BY <1>0, EntryIsRecord DEF TypeOK
  <2>4. roomsMap' = [roomsMap EXCEPT ![r].needsPersist = TRUE]
    BY <1>6, <2>1 DEF Edit, OnDataChange
  <2>5. roomsMap[r] \in RoomState /\ [roomsMap[r] EXCEPT !.needsPersist = TRUE] \in RoomState
    BY <2>1, <2>3, EntryTypes
  <2>6. roomsMap'[r] = [roomsMap[r] EXCEPT !.needsPersist = TRUE]
        /\ \A q \in Rooms : q # r => roomsMap'[q] = roomsMap[q]
    BY <2>1, <2>4 DEF TypeOK
  <2>7. \A q \in Rooms : /\ roomsMap'[q] # None <=> roomsMap[q] # None
                         /\ roomsMap[q] # None => /\ roomsMap'[q].room = roomsMap[q].room
                                                  /\ roomsMap[q].room \in Instances
    BY <2>1, <2>3, <2>5, <2>6, NoneNoEntry DEF RoomState
  <2>8. \A q \in Rooms : HasOpenRoom(q)' <=> HasOpenRoom(q)
    BY <2>2, <2>7 DEF HasOpenRoom
  <2>9. SingleLoader' /\ LockedNotOpen'
    BY <1>6, <1>a, <2>2, <2>7, <2>8 DEF Edit, OnDataChange, SingleLoader, Loaders, LockedNotOpen
  <2>10. OneSharedRoom'
    BY <1>6, <1>a, <2>7, <2>8 DEF Edit, OnDataChange, OneSharedRoom, HasOpenRoom, ClientPlaced
  <2>11. QED
    BY <1>0, <2>9, <2>10
<1>7. ASSUME NEW c \in Clients, SessionRemoved(c) PROVE RoomInv'
  <2> DEFINE i == clients[c].room
  <2>1. /\ clients'[c] = IdleClient
        /\ \A d \in Clients : d # c => clients'[d] = clients[d]
        /\ i \in Instances
    BY <1>7, <1>a, ClientTypes, OneClientChanges DEF SessionRemoved, ClientPlaced
  <2>2. \A j \in Instances : /\ socketRooms'[j].status # socketRooms[j].status => j = i /\ Sessions(i) = {c}
                             /\ socketRooms'[j].status \in {socketRooms[j].status, "closed"}
    BY <1>7, <2>1 DEF SessionRemoved, TypeOK, SocketRoom
  <2>3. \A q \in Rooms : roomsMap[q] # None => roomsMap[q].room \in Instances
    BY EntryIsRecord DEF TypeOK, RoomState
  <2>4. \A q \in Rooms : Loaders(q)' = Loaders(q)
    BY <1>7, <2>1, ClientPcs DEF SessionRemoved, Loaders
  <2>5. SingleLoader'
    BY <1>7, <2>4 DEF SingleLoader, SessionRemoved
  <2>6. LockedNotOpen'
    BY <1>7, <1>a, <2>2, <2>3 DEF SessionRemoved, LockedNotOpen, HasOpenRoom
  <2>7. OneSharedRoom'
    <3>1. ASSUME NEW d \in Clients, clients'[d].pc = "connected"
          PROVE d # c /\ clients[d] = clients'[d] /\ HasOpenRoom(clients[d].roomId)
                /\ roomsMap[clients[d].roomId].room = clients[d].room
      BY <2>1, <3>1, ClientPcs DEF OneSharedRoom
    <3>2. ASSUME NEW d \in Clients, clients'[d].pc = "connected"
          PROVE socketRooms'[clients[d].room].status = socketRooms[clients[d].room].status
      BY <1>a, <2>2, <3>1, <3>2 DEF Sessions, ClientPlaced
    <3>3. QED
      BY <1>7, <3>1, <3>2 DEF OneSharedRoom, HasOpenRoom, SessionRemoved
  <2>8. QED
    BY <1>0, <2>5, <2>6, <2>7
<1>8. CASE HandleRoomPersistence
  <2>1. \A j \in Instances : socketRooms'[j].status = socketRooms[j].status
    BY <1>8 DEF HandleRoomPersistence, TypeOK, SocketRoom
  <2>2. \A q \in Rooms : roomsMap[q] # None => roomsMap[q] \in RoomState /\ roomsMap[q].room \in Instances
    BY EntryIsRecord DEF TypeOK, RoomState
  <2>3. ASSUME NEW q \in Rooms
        PROVE  /\ HasOpenRoom(q) => /\ roomsMap'[q] # None
                                    /\ roomsMap'[q].room = roomsMap[q].room
               /\ ~HasOpenRoom(q) => roomsMap'[q] = None
    <3>1. CASE HasOpenRoom(q)
      <4>1. roomsMap'[q] = [roomsMap[q] EXCEPT !.needsPersist = FALSE]
        BY <1>8, <3>1 DEF HandleRoomPersistence, HasOpenRoom, MappedIsClosed
      <4>2. roomsMap'[q] \in RoomState /\ roomsMap[q] \in RoomState
        BY <2>2, <3>1, <4>1, EntryTypes DEF HasOpenRoom
      <4>3. QED
        BY <3>1, <4>1, <4>2, NoneNoEntry DEF RoomState
    <3>2. CASE ~HasOpenRoom(q)
      BY <1>8, <2>2, <3>2 DEF HandleRoomPersistence, HasOpenRoom, MappedIsClosed, TypeOK, SocketRoom
    <3>3. QED
      BY <3>1, <3>2
  <2>4. \A q \in Rooms : HasOpenRoom(q)' <=> HasOpenRoom(q)
    BY <2>1, <2>2, <2>3 DEF HasOpenRoom
  <2>5. SingleLoader' /\ LockedNotOpen'
    BY <1>8, <1>a, <2>4 DEF HandleRoomPersistence, SingleLoader, Loaders, LockedNotOpen
  <2>7. OneSharedRoom'
    BY <1>8, <1>a, <2>3, <2>4 DEF HandleRoomPersistence, OneSharedRoom, ClientPlaced
  <2>8. QED
    BY <1>0, <2>5, <2>7
<1>9. ASSUME NEW s \in saves, SaveApplied(s) \/ SaveFails(s) PROVE RoomInv'
  <2>1. UNCHANGED <<roomsMap, roomLocks, socketRooms, clients>>
    BY <1>9 DEF SaveApplied, SaveFails
  <2>2. SingleLoader' /\ OneSharedRoom' /\ LockedNotOpen'
    BY <2>1 DEF SingleLoader, Loaders, OneSharedRoom, LockedNotOpen, HasOpenRoom
  <2>3. QED
    BY <1>0, <2>2
<1>10. CASE Crash
  <2>1. \A c \in Clients : clients'[c].pc = "idle"
    BY <1>10, ClientPcs DEF Crash
  <2>2. \A r \in Rooms : Loaders(r)' = {}
    BY <2>1 DEF Loaders
  <2>3. SingleLoader' /\ OneSharedRoom' /\ LockedNotOpen'
    BY <1>10, <2>1, <2>2 DEF Crash, SingleLoader, OneSharedRoom, LockedNotOpen
  <2>4. QED
    BY <1>0, <2>3
<1>11. CASE UNCHANGED vars
  <2>1. SingleLoader' /\ OneSharedRoom' /\ LockedNotOpen'
    BY <1>11 DEF vars, SingleLoader, Loaders, OneSharedRoom, LockedNotOpen, HasOpenRoom
  <2>2. QED
    BY <1>0, <2>1
<1>12. QED
  BY <1>1, <1>2, <1>3, <1>4, <1>5, <1>6, <1>7, <1>8, <1>9, <1>10, <1>11 DEF Next

LEMMA RoomInvInit == Init => RoomInv
<1> SUFFICES ASSUME Init PROVE RoomInv
  OBVIOUS
<1>1. TypeOK
  BY TypeInit
<1>2. \A c \in Clients : clients[c].pc = "idle"
  BY ClientPcs DEF Init
<1>3. SingleLoader /\ OneSharedRoom /\ LockedNotOpen
  BY <1>2 DEF Init, SingleLoader, Loaders, OneSharedRoom, LockedNotOpen
<1>4. QED
  BY <1>1, <1>3 DEF RoomInv

LEMMA RoomInvHolds == Spec => []RoomInv
BY RoomInvInit, RoomInvStep, PTL DEF Spec

\* withGlobalRoomLock excludes: no two connections load the same room at once.
THEOREM LoadersExclude == Spec => []SingleLoader
BY RoomInvHolds, PTL DEF RoomInv

\* Everybody connected to a room id edits the one open room the map holds.
THEOREM RoomsAreShared == Spec => []OneSharedRoom
BY RoomInvHolds, PTL DEF RoomInv

-----------------------------------------------------------------------------
(* What has not been handed to Mongo is marked *)

\* Two room ids never share a TLSocketRoom, so a change marks the right entry.
MappedDistinct ==
  \A q, r \in Rooms : (roomsMap[q] # None /\ roomsMap[r] # None /\ q # r)
                        => roomsMap[q].room # roomsMap[r].room

StoreInv == RoomInv /\ MappedDistinct /\ ChangesMarked

\* ChangesMarked in terms of one room id.
Marked(r) ==
  roomsMap[r] # None =>
    (socketRooms[roomsMap[r].room].content # socketRooms[roomsMap[r].room].issued
       => roomsMap[r].needsPersist)

\* What a pass of the interval does to one room id and to one room.
LEMMA PersistencePass ==
  ASSUME TypeOK, HandleRoomPersistence, NEW r \in Rooms, roomsMap[r] # None
  PROVE  /\ roomsMap[r] \in RoomState /\ roomsMap[r].room \in Instances
         /\ roomsMap'[r] # None => roomsMap'[r].room = roomsMap[r].room
         /\ \A i \in Instances : socketRooms'[i].content = socketRooms[i].content
         /\ \A i \in Instances : \/ socketRooms'[i].issued = socketRooms[i].issued
                                 \/ socketRooms'[i].issued = socketRooms'[i].content
         /\ roomsMap[r].needsPersist =>
              socketRooms'[roomsMap[r].room].issued = socketRooms'[roomsMap[r].room].content
<1>1. roomsMap[r] \in RoomState /\ roomsMap[r].room \in Instances
  BY EntryIsRecord DEF TypeOK, RoomState
<1>2. roomsMap'[r] # None => roomsMap'[r].room = roomsMap[r].room
  BY <1>1 DEF HandleRoomPersistence, RoomState
<1>3. \A i \in Instances : /\ socketRooms'[i].content = socketRooms[i].content
                           /\ \/ socketRooms'[i].issued = socketRooms[i].issued
                              \/ socketRooms'[i].issued = socketRooms'[i].content
  BY DEF HandleRoomPersistence, TypeOK, SocketRoom
<1>4. ASSUME roomsMap[r].needsPersist
      PROVE socketRooms'[roomsMap[r].room] =
              [socketRooms[roomsMap[r].room] EXCEPT !.issued = socketRooms[roomsMap[r].room].content]
  BY <1>1, <1>4 DEF HandleRoomPersistence, DueForSave
<1>5. ASSUME roomsMap[r].needsPersist
      PROVE socketRooms'[roomsMap[r].room].issued = socketRooms'[roomsMap[r].room].content
  BY <1>1, <1>4, <1>5 DEF TypeOK, SocketRoom
<1>6. QED
  BY <1>1, <1>2, <1>3, <1>5

LEMMA StoreStep == StoreInv /\ [Next]_vars => StoreInv'
<1> SUFFICES ASSUME StoreInv, [Next]_vars PROVE StoreInv'
  OBVIOUS
<1> USE DEF StoreInv
<1>0. RoomInv' /\ TypeOK /\ TypeOK'
  BY RoomInvStep DEF RoomInv
<1>a. \A r \in Rooms : roomsMap[r] # None => roomsMap[r] \in RoomState /\ roomsMap[r].room \in Instances
  BY <1>0, EntryIsRecord DEF TypeOK, RoomState
<1>b. \A c \in Clients : ClientPlaced(clients[c])
  BY <1>0 DEF TypeOK
<1>c. ASSUME UNCHANGED roomsMap,
             \A i \in Instances : /\ socketRooms'[i].content = socketRooms[i].content
                                  /\ socketRooms'[i].issued = socketRooms[i].issued
      PROVE  StoreInv'
  BY <1>0, <1>a, <1>c DEF MappedDistinct, ChangesMarked
<1>1. ASSUME NEW c \in Clients, NEW r \in Rooms, HandleConnection(c, r) PROVE StoreInv'
  BY <1>1, <1>c DEF HandleConnection
<1>2. ASSUME NEW c \in Clients, LockReleased(c) PROVE StoreInv'
  BY <1>2, <1>c DEF LockReleased
<1>3. ASSUME NEW c \in Clients, FindRoom(c) \/ FindRoomFails(c) PROVE StoreInv'
  BY <1>3, <1>c DEF FindRoom, FindRoomFails
<1>4. ASSUME NEW c \in Clients, RoomLoaded(c) PROVE StoreInv'
  <2>0. PICK r \in Rooms : r = clients[c].roomId
    BY <1>4, <1>b DEF RoomLoaded, ClientPlaced
  <2>1. PICK i \in Instances :
          /\ Free(i)
          /\ socketRooms' = [socketRooms EXCEPT ![i] = NewSocketRoom(clients[c].snapshot, sent[r])]
          /\ roomsMap' = [roomsMap EXCEPT ![r] = [room |-> i, needsPersist |-> FALSE]]
    BY <1>4, <2>0 DEF RoomLoaded
  <2>2. \A q \in Rooms : roomsMap[q] # None => roomsMap[q].room # i
    BY <2>1 DEF Free
  <2>3. /\ roomsMap'[r].room = i
        /\ \A q \in Rooms : q # r => roomsMap'[q] = roomsMap[q]
        /\ socketRooms'[i] = NewSocketRoom(clients[c].snapshot, sent[r])
        /\ \A j \in Instances : j # i => socketRooms'[j] = socketRooms[j]
    BY <1>0, <2>0, <2>1 DEF TypeOK
  <2>4. MappedDistinct'
    BY <2>2, <2>3 DEF MappedDistinct
  <2>5. ASSUME NEW q \in Rooms PROVE Marked(q)'
    <3>1. CASE q = r
      BY <2>3, <3>1 DEF Marked, NewSocketRoom
    <3>2. CASE q # r
      BY <1>a, <2>2, <2>3, <3>2 DEF Marked, ChangesMarked
    <3>3. QED
      BY <3>1, <3>2
  <2>6. ChangesMarked'
    BY <2>5 DEF ChangesMarked, Marked
  <2>7. QED
    BY <1>0, <2>4, <2>6
<1>5. ASSUME NEW c \in Clients, Edit(c) PROVE StoreInv'
  <2>0. PICK r \in Rooms, i \in Instances :
          /\ r = clients[c].roomId /\ i = clients[c].room
          /\ roomsMap[r] # None /\ roomsMap[r].room = i
    BY <1>5, <1>b DEF Edit, ClientPlaced, RoomInv, OneSharedRoom, HasOpenRoom
  <2>1. PICK e \in Edits : socketRooms' = [socketRooms EXCEPT ![i].content = @ \cup {e}]
    BY <1>5, <2>0 DEF Edit
  <2>2. \A j \in Instances : j # i => socketRooms'[j] = socketRooms[j]
    BY <1>0, <2>1 DEF TypeOK
  <2>3. roomsMap' = [roomsMap EXCEPT ![r] = [roomsMap[r] EXCEPT !.needsPersist = TRUE]]
    BY <1>5, <2>0 DEF Edit, OnDataChange
  <2>4. /\ roomsMap'[r] = [roomsMap[r] EXCEPT !.needsPersist = TRUE]
        /\ \A q \in Rooms : q # r => roomsMap'[q] = roomsMap[q]
    BY <1>0, <2>3 DEF TypeOK
  <2>5. roomsMap'[r].room = i /\ roomsMap'[r].needsPersist = TRUE
    BY <1>a, <2>0, <2>4 DEF RoomState
  <2>6. MappedDistinct'
    <3>1. \A q \in Rooms : /\ roomsMap'[q] # None => roomsMap[q] # None
                           /\ roomsMap[q] # None => roomsMap'[q].room = roomsMap[q].room
      BY <2>0, <2>4, <2>5
    <3>2. QED
      BY <3>1 DEF MappedDistinct
  <2>7. ASSUME NEW q \in Rooms PROVE Marked(q)'
    <3>1. CASE q = r
      BY <2>5, <3>1 DEF Marked
    <3>2. CASE q # r /\ roomsMap[q] # None
      <4>1. roomsMap[q].room \in Instances /\ roomsMap[q].room # i
        BY <1>a, <2>0, <3>2 DEF MappedDistinct
      <4>2. QED
        BY <2>2, <2>4, <3>2, <4>1 DEF Marked, ChangesMarked
    <3>3. CASE q # r /\ roomsMap[q] = None
      BY <2>4, <3>3 DEF Marked
    <3>4. QED
      BY <3>1, <3>2, <3>3
  <2>8. ChangesMarked'
    BY <2>7 DEF ChangesMarked, Marked
  <2>9. QED
    BY <1>0, <2>6, <2>8
<1>6. ASSUME NEW c \in Clients, SessionRemoved(c) PROVE StoreInv'
  <2>1. clients[c].room \in Instances
    BY <1>6, <1>b DEF SessionRemoved, ClientPlaced
  <2>2. \A i \in Instances : /\ socketRooms'[i].content = socketRooms[i].content
                             /\ socketRooms'[i].issued = socketRooms[i].issued
    BY <1>0, <1>6, <2>1 DEF SessionRemoved, TypeOK, SocketRoom
  <2>3. QED
    BY <1>6, <1>c, <2>2 DEF SessionRemoved
<1>7. CASE HandleRoomPersistence
  <2>1. \A r \in Rooms : roomsMap[r] = None => roomsMap'[r] = None
    BY <1>7 DEF HandleRoomPersistence
  <2>2. MappedDistinct'
    BY <1>0, <1>7, <2>1, PersistencePass DEF MappedDistinct
  <2>3. ASSUME NEW r \in Rooms, roomsMap'[r] # None
        PROVE  socketRooms'[roomsMap'[r].room].content = socketRooms'[roomsMap'[r].room].issued
    <3>1. /\ roomsMap[r] # None /\ roomsMap[r].room \in Instances
          /\ roomsMap'[r].room = roomsMap[r].room
      BY <1>0, <1>7, <2>1, <2>3, PersistencePass
    <3>2. CASE roomsMap[r].needsPersist
      BY <1>0, <1>7, <3>1, <3>2, PersistencePass
    <3>3. CASE ~roomsMap[r].needsPersist
      <4>1. socketRooms[roomsMap[r].room].content = socketRooms[roomsMap[r].room].issued
        BY <3>1, <3>3 DEF ChangesMarked
      <4>2. QED
        BY <1>0, <1>7, <3>1, <4>1, PersistencePass
    <3>4. QED
      BY <3>2, <3>3
  <2>4. ChangesMarked'
    BY <2>3 DEF ChangesMarked
  <2>5. QED
    BY <1>0, <2>2, <2>4
<1>8. ASSUME NEW s \in saves, SaveApplied(s) \/ SaveFails(s) PROVE StoreInv'
  BY <1>8, <1>c DEF SaveApplied, SaveFails
<1>9. CASE Crash
  BY <1>0, <1>9 DEF Crash, MappedDistinct, ChangesMarked
<1>10. CASE UNCHANGED vars
  BY <1>10, <1>c DEF vars
<1>11. QED
  BY <1>1, <1>2, <1>3, <1>4, <1>5, <1>6, <1>7, <1>8, <1>9, <1>10 DEF Next

LEMMA StoreInvHolds == Spec => []StoreInv
<1>1. Init => StoreInv
  BY RoomInvInit DEF Init, StoreInv, MappedDistinct, ChangesMarked
<1>2. QED
  BY <1>1, StoreStep, PTL DEF Spec

\* A mapped room whose content was not handed to Mongo is due for the next pass.
THEOREM ChangesAreMarked == Spec => []ChangesMarked
BY StoreInvHolds, PTL DEF StoreInv

\* The interval removes a room only together with or after its last save.
THEOREM DropsAreIssued == Spec => DroppedOnlyWhenIssued
<1> DEFINE Issued ==
      \A r \in Rooms : (roomsMap[r] # None /\ roomsMap'[r] = None /\ crashes' = crashes)
        => LET room == socketRooms'[roomsMap[r].room] IN room.issued = room.content
<1>1. StoreInv /\ [Next]_vars => [Issued]_vars
  <2> SUFFICES ASSUME StoreInv, Next, NEW r \in Rooms,
                      roomsMap[r] # None, roomsMap'[r] = None, crashes' = crashes
               PROVE socketRooms'[roomsMap[r].room].issued = socketRooms'[roomsMap[r].room].content
    OBVIOUS
  <2>0. TypeOK /\ TypeOK' /\ r \in DOMAIN roomsMap /\ crashes \in Nat
    BY TypeStep, ConstantsAssumption DEF StoreInv, RoomInv, TypeOK
  <2>1. HandleRoomPersistence
    <3>1. ~Crash
      BY <2>0 DEF Crash
    <3>2. ASSUME NEW c \in Clients PROVE ~RoomLoaded(c) /\ ~Edit(c)
      <4>1. ASSUME NEW q \in DOMAIN roomsMap, NEW entry \in RoomState,
                   roomsMap' = [roomsMap EXCEPT ![q] = entry]
            PROVE  FALSE
        BY <2>0, <4>1, NoneNoEntry
      <4>2. ~RoomLoaded(c)
        BY <2>0, <4>1, EntryTypes DEF RoomLoaded, TypeOK, ClientPlaced
      <4>3. ~Edit(c)
        <5>1. SUFFICES ASSUME Edit(c) PROVE FALSE
          OBVIOUS
        <5> DEFINE q == clients[c].roomId
        <5>2. q \in Rooms
          BY <2>0, <5>1 DEF Edit, TypeOK, ClientPlaced
        <5>3. CASE roomsMap[q] = None
          BY <5>1, <5>3 DEF Edit, OnDataChange
        <5>4. CASE roomsMap[q] # None
          <6>1. roomsMap[q] \in RoomState
            BY <2>0, <5>2, <5>4, EntryIsRecord DEF TypeOK
          <6>2. roomsMap' = [roomsMap EXCEPT ![q] = [roomsMap[q] EXCEPT !.needsPersist = TRUE]]
            BY <5>1, <5>4 DEF Edit, OnDataChange
          <6>3. QED
            BY <2>0, <4>1, <5>2, <6>1, <6>2, EntryTypes DEF TypeOK
        <5>5. QED
          BY <5>3, <5>4
      <4>4. QED
        BY <4>2, <4>3
    <3>3. QED
      BY <3>1, <3>2 DEF Next, HandleConnection, LockReleased, FindRoom, FindRoomFails,
                        SessionRemoved, SaveApplied, SaveFails
  <2>2. CASE roomsMap[r].needsPersist
    BY <2>0, <2>1, <2>2, PersistencePass
  <2>3. CASE ~roomsMap[r].needsPersist
    <3>1. socketRooms[roomsMap[r].room].content = socketRooms[roomsMap[r].room].issued
      BY <2>3 DEF StoreInv, ChangesMarked
    <3>2. QED
      BY <2>0, <2>1, <3>1, PersistencePass
  <2>4. QED
    BY <2>2, <2>3
<1>2. QED
  BY <1>1, StoreInvHolds, PTL DEF Spec, DroppedOnlyWhenIssued

-----------------------------------------------------------------------------
(* What the saves of a room id contain, in the order of their numbers *)

\* A save under way contains what its room was loaded with, and every save its room has
\* sent before, the one Mongo holds among them.
SavesInOrder(r) ==
  \A s \in saves : s.roomId = r =>
    LET room == socketRooms[s.room] IN
    /\ room.opened < s.number /\ s.number <= sent[r] /\ s.number # stored[r]
    /\ room.loaded \subseteq s.snapshot
    /\ (room.opened < stored[r] /\ stored[r] < s.number) => mongo[r] \subseteq s.snapshot
    /\ \A t \in saves : t.roomId = r =>
         /\ t.number = s.number => t = s
         /\ (room.opened < t.number /\ t.number < s.number) => t.snapshot \subseteq s.snapshot

\* The mapped room contains what it was loaded with, and every save it has sent.
RoomInOrder(r) ==
  /\ stored[r] <= sent[r]
  /\ roomsMap[r] # None =>
       LET room == socketRooms[roomsMap[r].room] IN
       /\ room.opened <= sent[r]
       /\ room.loaded \subseteq room.content
       /\ room.opened < stored[r] => mongo[r] \subseteq room.content
       /\ \A s \in saves :
            (s.roomId = r /\ room.opened < s.number) => s.snapshot \subseteq room.content

HistoryInv == TypeOK /\ \A r \in Rooms : SavesInOrder(r) /\ RoomInOrder(r)

\* A step that leaves Mongo, the saves and their rooms' history alone, and only adds to
\* the content of mapped rooms.
LEMMA HistoryUndisturbed ==
  ASSUME HistoryInv, TypeOK', UNCHANGED <<mongo, saves, sent, stored>>,
         \A i \in Instances : /\ socketRooms'[i].opened = socketRooms[i].opened
                              /\ socketRooms'[i].loaded = socketRooms[i].loaded
                              /\ socketRooms[i].content \subseteq socketRooms'[i].content,
         \A r \in Rooms : roomsMap'[r] # None =>
                              roomsMap[r] # None /\ roomsMap'[r].room = roomsMap[r].room
  PROVE  HistoryInv'
<1>1. \A s \in saves : s.room \in Instances
  BY DEF HistoryInv, TypeOK, Save
<1>2. \A r \in Rooms : roomsMap[r] # None => roomsMap[r].room \in Instances
  BY EntryIsRecord DEF HistoryInv, TypeOK, RoomState
<1>3. ASSUME NEW r \in Rooms PROVE SavesInOrder(r)'
  BY <1>1 DEF HistoryInv, SavesInOrder
<1>4. ASSUME NEW r \in Rooms PROVE RoomInOrder(r)'
  BY <1>2 DEF HistoryInv, RoomInOrder
<1> QED BY <1>3, <1>4 DEF HistoryInv

LEMMA HistoryStep == HistoryInv /\ [Next]_vars => HistoryInv'
<1> SUFFICES ASSUME HistoryInv, [Next]_vars PROVE HistoryInv'
  OBVIOUS
<1>0. TypeOK /\ TypeOK'
  BY TypeStep DEF HistoryInv
<1>a. \A r \in Rooms : roomsMap[r] # None => roomsMap[r] \in RoomState /\ roomsMap[r].room \in Instances
  BY <1>0, EntryIsRecord DEF TypeOK, RoomState
<1>b. \A s \in saves : s \in Save /\ s.room \in Instances /\ s.roomId \in Rooms /\ s.number \in Nat
  BY <1>0 DEF TypeOK, Save
<1>c. \A c \in Clients : ClientPlaced(clients[c])
  BY <1>0 DEF TypeOK
<1>1. CASE \/ \E c \in Clients, r \in Rooms : HandleConnection(c, r)
           \/ \E c \in Clients : LockReleased(c) \/ FindRoom(c) \/ FindRoomFails(c)
           \/ UNCHANGED vars
  <2>1. UNCHANGED <<roomsMap, socketRooms, mongo, saves, sent, stored>>
    BY <1>1 DEF HandleConnection, LockReleased, FindRoom, FindRoomFails, vars
  <2> QED BY <1>0, <2>1, HistoryUndisturbed
<1>2. ASSUME NEW c \in Clients, RoomLoaded(c) PROVE HistoryInv'
  <2>0. PICK r \in Rooms : r = clients[c].roomId
    BY <1>2, <1>c DEF RoomLoaded, ClientPlaced
  <2>1. PICK i \in Instances :
          /\ Free(i)
          /\ socketRooms' = [socketRooms EXCEPT ![i] = NewSocketRoom(clients[c].snapshot, sent[r])]
          /\ roomsMap' = [roomsMap EXCEPT ![r] = [room |-> i, needsPersist |-> FALSE]]
          /\ UNCHANGED <<mongo, saves, sent, stored>>
    BY <1>2, <2>0 DEF RoomLoaded
  <2>2. /\ \A q \in Rooms : roomsMap[q] # None => roomsMap[q].room # i
        /\ \A s \in saves : s.room # i
    BY <2>1 DEF Free
  <2>3. /\ roomsMap'[r].room = i
        /\ \A q \in Rooms : q # r => roomsMap'[q] = roomsMap[q]
        /\ socketRooms'[i].opened = sent[r]
        /\ socketRooms'[i].loaded = socketRooms'[i].content
        /\ \A j \in Instances : j # i => socketRooms'[j] = socketRooms[j]
    BY <1>0, <2>0, <2>1 DEF TypeOK, NewSocketRoom
  <2>4. ASSUME NEW q \in Rooms PROVE SavesInOrder(q)'
    BY <1>b, <2>1, <2>2, <2>3 DEF HistoryInv, SavesInOrder
  <2>5. ASSUME NEW q \in Rooms, q # r PROVE RoomInOrder(q)'
    BY <1>a, <2>1, <2>2, <2>3, <2>5 DEF HistoryInv, RoomInOrder
  <2>6. RoomInOrder(r)'
    <3>1. stored[r] \in Nat /\ sent[r] \in Nat /\ stored[r] <= sent[r]
      BY <1>0 DEF HistoryInv, RoomInOrder, TypeOK
    <3>2. \A s \in saves : s.roomId = r => s.number \in Nat /\ s.number <= sent[r]
      BY <1>b DEF HistoryInv, SavesInOrder
    <3> QED BY <2>1, <2>3, <3>1, <3>2 DEF RoomInOrder
  <2> QED BY <1>0, <2>4, <2>5, <2>6 DEF HistoryInv
<1>3. ASSUME NEW c \in Clients, Edit(c) PROVE HistoryInv'
  <2>1. clients[c].roomId \in Rooms /\ clients[c].room \in Instances
    BY <1>3, <1>c DEF Edit, ClientPlaced
  <2>2. \A i \in Instances : /\ socketRooms'[i].opened = socketRooms[i].opened
                             /\ socketRooms'[i].loaded = socketRooms[i].loaded
                             /\ socketRooms[i].content \subseteq socketRooms'[i].content
    BY <1>0, <1>3, <2>1 DEF Edit, TypeOK, SocketRoom
  <2>3. ASSUME NEW r \in Rooms, roomsMap'[r] # None
        PROVE  roomsMap[r] # None /\ roomsMap'[r].room = roomsMap[r].room
    <3> DEFINE q == clients[c].roomId
    <3>1. roomsMap' = IF roomsMap[q] = None THEN roomsMap
                      ELSE [roomsMap EXCEPT ![q] = [roomsMap[q] EXCEPT !.needsPersist = TRUE]]
      BY <1>3 DEF Edit, OnDataChange
    <3>2. CASE roomsMap[q] = None \/ q # r
      BY <1>0, <2>1, <2>3, <3>1, <3>2 DEF TypeOK
    <3>3. CASE roomsMap[q] # None /\ q = r
      <4>1. roomsMap'[r] = [roomsMap[r] EXCEPT !.needsPersist = TRUE]
        BY <1>0, <2>1, <3>1, <3>3 DEF TypeOK
      <4> QED BY <1>a, <3>3, <4>1 DEF RoomState
    <3> QED BY <3>2, <3>3
  <2>4. UNCHANGED <<mongo, saves, sent, stored>>
    BY <1>3 DEF Edit
  <2> QED BY <1>0, <2>2, <2>3, <2>4, HistoryUndisturbed
<1>4. ASSUME NEW c \in Clients, SessionRemoved(c) PROVE HistoryInv'
  <2>1. \A i \in Instances : /\ socketRooms'[i].opened = socketRooms[i].opened
                             /\ socketRooms'[i].loaded = socketRooms[i].loaded
                             /\ socketRooms'[i].content = socketRooms[i].content
    BY <1>0, <1>4 DEF SessionRemoved, TypeOK, SocketRoom
  <2>2. UNCHANGED <<roomsMap, mongo, saves, sent, stored>>
    BY <1>4 DEF SessionRemoved
  <2> QED BY <1>0, <2>1, <2>2, HistoryUndisturbed
<1>5. CASE HandleRoomPersistence
  <2>1. /\ \A i \in Instances : /\ socketRooms'[i].opened = socketRooms[i].opened
                                /\ socketRooms'[i].loaded = socketRooms[i].loaded
                                /\ socketRooms'[i].content = socketRooms[i].content
    BY <1>0, <1>5 DEF HandleRoomPersistence, TypeOK, SocketRoom
  <2>2. ASSUME NEW r \in Rooms, roomsMap'[r] # None
        PROVE  roomsMap[r] # None /\ roomsMap'[r].room = roomsMap[r].room
    <3>1. roomsMap[r] # None
      BY <1>5, <2>2 DEF HandleRoomPersistence
    <3> QED BY <1>0, <1>5, <2>2, <3>1, PersistencePass
  <2>3. ASSUME NEW s \in saves' PROVE s \in saves \/ (DueForSave(s.roomId) /\ s = SaveOf(s.roomId) /\ s.roomId \in Rooms)
    BY <1>5, <2>3 DEF HandleRoomPersistence, SaveOf
  <2>4. UNCHANGED <<mongo, stored>>
    BY <1>5 DEF HandleRoomPersistence
  <2>5. ASSUME NEW r \in Rooms PROVE SavesInOrder(r)' /\ RoomInOrder(r)'
    <3>1. /\ sent[r] \in Nat /\ stored[r] \in Nat /\ stored[r] <= sent[r]
          /\ sent'[r] = IF DueForSave(r) THEN sent[r] + 1 ELSE sent[r]
      BY <1>0, <1>5, <2>5 DEF HandleRoomPersistence, HistoryInv, RoomInOrder, TypeOK
    <3>2. ASSUME DueForSave(r)
          PROVE  /\ roomsMap[r] # None /\ roomsMap[r].room \in Instances
                 /\ SaveOf(r).roomId = r /\ SaveOf(r).room = roomsMap[r].room
                 /\ SaveOf(r).snapshot = socketRooms[roomsMap[r].room].content
                 /\ SaveOf(r).number = sent[r] + 1
      BY <1>a, <3>2 DEF DueForSave, SaveOf
    <3>3. \A i \in Instances : socketRooms[i].opened \in Nat
      BY <1>0 DEF TypeOK, SocketRoom
    <3>4. \A s \in saves' : s.roomId = r => s \in saves \/ (DueForSave(r) /\ s = SaveOf(r))
      BY <2>3
    <3>5. SavesInOrder(r) /\ RoomInOrder(r)
      BY DEF HistoryInv
    <3>6. SavesInOrder(r)'
      <4> SUFFICES ASSUME NEW s \in saves', s.roomId = r
                   PROVE  /\ socketRooms'[s.room].opened < s.number /\ s.number <= sent'[r]
                          /\ s.number # stored'[r]
                          /\ socketRooms'[s.room].loaded \subseteq s.snapshot
                          /\ (socketRooms'[s.room].opened < stored'[r] /\ stored'[r] < s.number)
                               => mongo'[r] \subseteq s.snapshot
                          /\ \A t \in saves' : t.roomId = r =>
                               /\ t.number = s.number => t = s
                               /\ (socketRooms'[s.room].opened < t.number /\ t.number < s.number)
                                    => t.snapshot \subseteq s.snapshot
        BY DEF SavesInOrder
      <4>1. CASE s \in saves
        BY <1>b, <2>1, <2>4, <3>1, <3>2, <3>3, <3>4, <3>5, <4>1 DEF SavesInOrder
      <4>2. CASE DueForSave(r) /\ s = SaveOf(r)
        BY <1>b, <2>1, <2>4, <3>1, <3>2, <3>3, <3>4, <3>5, <4>2 DEF SavesInOrder, RoomInOrder
      <4> QED BY <3>4, <4>1, <4>2
    <3>7. RoomInOrder(r)'
      BY <1>a, <1>b, <2>1, <2>2, <2>4, <3>1, <3>2, <3>3, <3>4, <3>5 DEF RoomInOrder
    <3> QED BY <3>6, <3>7
  <2> QED BY <1>0, <2>5 DEF HistoryInv
<1>6. ASSUME NEW s \in saves, SaveApplied(s) \/ SaveFails(s) PROVE HistoryInv'
  <2>1. UNCHANGED <<roomsMap, socketRooms, sent>> /\ saves' = saves \ {s}
    BY <1>6 DEF SaveApplied, SaveFails
  <2>2. ASSUME NEW r \in Rooms
        PROVE  \/ mongo'[r] = mongo[r] /\ stored'[r] = stored[r]
               \/ s.roomId = r /\ mongo'[r] = s.snapshot /\ stored'[r] = s.number
    BY <1>0, <1>6 DEF SaveApplied, SaveFails, TypeOK
  <2>3. ASSUME NEW r \in Rooms PROVE SavesInOrder(r)' /\ RoomInOrder(r)'
    <3>1. SavesInOrder(r) /\ RoomInOrder(r)
      BY DEF HistoryInv
    <3>2. SavesInOrder(r)'
      BY <2>1, <2>2, <3>1 DEF SavesInOrder
    <3>3. RoomInOrder(r)'
      BY <2>1, <2>2, <3>1 DEF SavesInOrder, RoomInOrder
    <3> QED BY <3>2, <3>3
  <2> QED BY <1>0, <2>3 DEF HistoryInv
<1>7. CASE Crash
  <2>1. \A i \in Instances : /\ socketRooms'[i].opened = socketRooms[i].opened
                             /\ socketRooms'[i].loaded = socketRooms[i].loaded
                             /\ socketRooms'[i].content = socketRooms[i].content
    BY <1>0, <1>7 DEF Crash, TypeOK, SocketRoom
  <2>2. \A r \in Rooms : roomsMap'[r] = None
    BY <1>7 DEF Crash
  <2>3. UNCHANGED <<mongo, saves, sent, stored>>
    BY <1>7 DEF Crash
  <2> QED BY <1>0, <2>1, <2>2, <2>3, HistoryUndisturbed
<1> QED BY <1>1, <1>2, <1>3, <1>4, <1>5, <1>6, <1>7 DEF Next

LEMMA HistoryInit == Init => HistoryInv
BY TypeInit DEF Init, HistoryInv, SavesInOrder, RoomInOrder

-----------------------------------------------------------------------------
(* Lost edits *)

\* Where an edit is kept: stored, on its way, or in a room that is due.
LEMMA KeptMember ==
  ASSUME NEW r \in Rooms, NEW e
  PROVE  e \in Kept(r) <=>
           \/ e \in mongo[r]
           \/ \E s \in saves : s.roomId = r /\ e \in s.snapshot
           \/ DueForSave(r) /\ e \in socketRooms[roomsMap[r].room].content
<1> DEFINE underWay == UNION {s.snapshot : s \in {t \in saves : t.roomId = r}}
           due == IF DueForSave(r) THEN socketRooms[roomsMap[r].room].content ELSE {}
<1>1. e \in underWay <=> \E s \in saves : s.roomId = r /\ e \in s.snapshot
  BY Zenon
<1>2. e \in due <=> DueForSave(r) /\ e \in socketRooms[roomsMap[r].room].content
  OBVIOUS
<1>3. Kept(r) = mongo[r] \cup underWay \cup due
  BY DEF Kept, DueForSave
<1> HIDE DEF underWay, due
<1> QED BY <1>1, <1>2, <1>3

\* A room that is due stays mapped and keeps its edits in steps of its sessions.
LEMMA DueStays ==
  ASSUME TypeOK, NEW r \in Rooms, DueForSave(r), NEW e \in socketRooms[roomsMap[r].room].content,
         roomsMap'[r] # None, roomsMap'[r].room = roomsMap[r].room, roomsMap'[r].needsPersist,
         e \in socketRooms'[roomsMap[r].room].content
  PROVE  e \in Kept(r)'
<1>1. DueForSave(r)' /\ e \in socketRooms'[roomsMap'[r].room].content
  BY DEF DueForSave
<1> DEFINE underWay == UNION {s.snapshot : s \in {t \in saves : t.roomId = r}}
           due == IF DueForSave(r) THEN socketRooms[roomsMap[r].room].content ELSE {}
<1>2. e \in due'
  BY <1>1
<1>3. Kept(r)' = mongo'[r] \cup underWay' \cup due'
  BY DEF Kept, DueForSave
<1> HIDE DEF underWay, due
<1> QED BY <1>2, <1>3

\* Marking the entry of a room id leaves the rooms in the map, and marks, alone.
LEMMA MarkingKeeps ==
  ASSUME TypeOK, NEW q \in Rooms, NEW r \in Rooms, DueForSave(r), roomsMap' = OnDataChange(q)
  PROVE  roomsMap'[r] # None /\ roomsMap'[r].room = roomsMap[r].room /\ roomsMap'[r].needsPersist
<1>1. roomsMap[r] # None /\ roomsMap[r].needsPersist /\ roomsMap[r] \in RoomState
  BY DEF DueForSave, TypeOK
<1>2. CASE roomsMap[q] = None
  BY <1>1, <1>2 DEF OnDataChange
<1>3. CASE roomsMap[q] # None
  <2>1. roomsMap' = [roomsMap EXCEPT ![q] = [roomsMap[q] EXCEPT !.needsPersist = TRUE]]
    BY <1>3 DEF OnDataChange
  <2>2. CASE q = r
    <3>1. roomsMap'[r] = [roomsMap[r] EXCEPT !.needsPersist = TRUE]
      BY <2>1, <2>2 DEF TypeOK
    <3>2. roomsMap'[r] \in RoomState
      BY <1>1, <3>1, EntryTypes
    <3> QED BY <1>1, <3>1, <3>2, NoneNoEntry DEF RoomState
  <2>3. CASE q # r
    BY <1>1, <2>1, <2>3 DEF TypeOK
  <2> QED BY <2>2, <2>3
<1> QED BY <1>2, <1>3

\* One step loses an edit only in a window.
LEMMA EditKept ==
  ASSUME HistoryInv, [Next]_vars, NEW r \in Rooms, NEW e \in Kept(r), ~LossWindow(r)
  PROVE  e \in Kept(r)'
<1>a. TypeOK
  BY DEF HistoryInv
<1> USE <1>a
<1>0. \/ e \in mongo[r]
      \/ \E s \in saves : s.roomId = r /\ e \in s.snapshot
      \/ DueForSave(r) /\ e \in socketRooms[roomsMap[r].room].content
  BY KeptMember
<1>1. CASE UNCHANGED <<roomsMap, socketRooms, mongo, saves>>
  BY <1>1 DEF Kept
<1>2. CASE HandleRoomPersistence
  <2>1. saves' = saves \cup {SaveOf(q) : q \in {p \in Rooms : DueForSave(p)}}
    BY <1>2 DEF HandleRoomPersistence
  <2>2. mongo' = mongo
    BY <1>2 DEF HandleRoomPersistence
  <2>3. CASE e \in mongo[r]
    BY <2>2, <2>3 DEF Kept
  <2>4. CASE \E s \in saves : s.roomId = r /\ e \in s.snapshot
    BY <2>1, <2>4 DEF Kept
  <2>5. CASE DueForSave(r) /\ e \in socketRooms[roomsMap[r].room].content
    <3>1. SaveOf(r) \in saves'
      BY <2>1, <2>5
    <3>2. \E s \in saves' : s.roomId = r /\ e \in s.snapshot
      BY <2>5, <3>1 DEF SaveOf
    <3> QED BY <3>2 DEF Kept
  <2> QED BY <1>0, <2>3, <2>4, <2>5
<1>3. CASE \E t \in saves : SaveApplied(t) \/ SaveFails(t)
  <2>1. PICK t \in saves : SaveApplied(t) \/ SaveFails(t)
    BY <1>3
  <2>2. saves' = saves \ {t} /\ UNCHANGED <<roomsMap, socketRooms>>
    BY <2>1 DEF SaveApplied, SaveFails
  <2>3. t \in Save /\ t.roomId \in Rooms /\ t.number \in Nat
    BY DEF TypeOK, Save
  <2>4. CASE t.roomId # r
    <3>1. mongo'[r] = mongo[r]
      BY <2>1, <2>3, <2>4 DEF SaveApplied, SaveFails, TypeOK
    <3> QED BY <1>0, <2>2, <2>4, <3>1 DEF Kept, DueForSave
  <2>5. CASE t.roomId = r
    <3>1. ~Fails(t) /\ ~IsOvertaken(t) /\ ~ReadTooEarly(t)
      BY <2>2, <2>5 DEF LossWindow
    <3>2. SaveApplied(t)
      BY <2>1, <2>3, <2>5, <3>1 DEF SaveFails, Fails, HistoryInv, SavesInOrder
    <3>3. mongo'[r] = t.snapshot
      BY <2>5, <3>2 DEF SaveApplied, TypeOK
    <3>4. mongo[r] \subseteq t.snapshot
      BY <2>5, <3>1 DEF IsOvertaken, ReadTooEarly, HistoryInv, SavesInOrder, TypeOK, SocketRoom, Save
    <3> QED BY <1>0, <2>2, <2>5, <3>3, <3>4 DEF Kept, DueForSave
  <2> QED BY <2>4, <2>5
<1>4. CASE \E c \in Clients : RoomLoaded(c)
  <2>1. PICK c \in Clients : RoomLoaded(c)
    BY <1>4
  <2>2. PICK i \in Instances :
          /\ Free(i)
          /\ socketRooms' = [socketRooms EXCEPT ![i] = NewSocketRoom(clients[c].snapshot, sent[clients[c].roomId])]
          /\ roomsMap' = [roomsMap EXCEPT ![clients[c].roomId] = [room |-> i, needsPersist |-> FALSE]]
    BY <2>1 DEF RoomLoaded
  <2>3. UNCHANGED <<mongo, saves>> /\ clients[c].roomId \in Rooms
    BY <2>1 DEF RoomLoaded, TypeOK, ClientPlaced
  <2>4. CASE DueForSave(r) /\ e \in socketRooms[roomsMap[r].room].content
    <3>1. roomsMap[r] # None /\ roomsMap[r].needsPersist /\ roomsMap[r].room # i
      BY <2>2, <2>4 DEF DueForSave, Free
    <3>2. clients[c].roomId # r
      <4> SUFFICES ASSUME clients[c].roomId = r PROVE FALSE
        OBVIOUS
      <4>1. roomsMap'[r] = [room |-> i, needsPersist |-> FALSE]
        BY <2>2, <2>3 DEF TypeOK
      <4>2. roomsMap'[r] # None /\ roomsMap'[r].room = i
        <5>1. [room |-> i, needsPersist |-> FALSE] \in RoomState
          BY EntryTypes
        <5>2. roomsMap'[r] \in RoomState
          BY <4>1, <5>1, Zenon
        <5>3. roomsMap'[r].room = i
          BY <4>1
        <5> QED BY <5>2, <5>3, NoneNoEntry
      <4> QED BY <3>1, <4>2 DEF LossWindow, ReopenedUnsaved
    <3>3. roomsMap'[r] = roomsMap[r]
      BY <2>2, <2>3, <3>2 DEF TypeOK
    <3>4. roomsMap[r].room \in Instances
      BY <3>1 DEF TypeOK, RoomState
    <3>5. socketRooms'[roomsMap[r].room] = socketRooms[roomsMap[r].room]
      BY <2>2, <3>1, <3>4 DEF TypeOK
    <3> QED BY <2>4, <3>1, <3>3, <3>5, DueStays
  <2> QED BY <1>0, <2>3, <2>4 DEF Kept
<1>5. CASE \E c \in Clients : Edit(c)
  <2>1. PICK c \in Clients : Edit(c)
    BY <1>5
  <2>2. clients[c].roomId \in Rooms /\ clients[c].room \in Instances
    BY <2>1 DEF Edit, TypeOK, ClientPlaced
  <2>3. UNCHANGED <<mongo, saves>> /\ roomsMap' = OnDataChange(clients[c].roomId)
    BY <2>1 DEF Edit
  <2>4. CASE DueForSave(r) /\ e \in socketRooms[roomsMap[r].room].content
    <3>1. roomsMap[r].room \in Instances
      BY <2>4 DEF DueForSave, TypeOK, RoomState
    <3>2. \A j \in Instances : socketRooms[j].content \subseteq socketRooms'[j].content
      BY <2>1, <2>2 DEF Edit, TypeOK, SocketRoom
    <3> QED BY <2>2, <2>3, <2>4, <3>1, <3>2, MarkingKeeps, DueStays
  <2> QED BY <1>0, <2>3, <2>4 DEF Kept
<1>6. CASE \E c \in Clients : SessionRemoved(c)
  <2>1. PICK c \in Clients : SessionRemoved(c)
    BY <1>6
  <2>2. UNCHANGED <<roomsMap, mongo, saves>>
    BY <2>1 DEF SessionRemoved
  <2>3. \A j \in Instances : socketRooms'[j].content = socketRooms[j].content
    BY <2>1 DEF SessionRemoved, TypeOK, SocketRoom, ClientPlaced
  <2>4. CASE DueForSave(r) /\ e \in socketRooms[roomsMap[r].room].content
    <3>1. roomsMap[r].room \in Instances
      BY <2>4 DEF DueForSave, TypeOK, RoomState
    <3> QED BY <2>2, <2>3, <2>4, <3>1, DueStays DEF DueForSave
  <2> QED BY <1>0, <2>2, <2>4 DEF Kept
<1>7. CASE Crash
  <2>1. crashes' # crashes
    BY <1>7, ConstantsAssumption DEF Crash, TypeOK
  <2> QED BY <2>1 DEF LossWindow, Restarts
<1>8. CASE \/ \E c \in Clients, q \in Rooms : HandleConnection(c, q)
           \/ \E c \in Clients : LockReleased(c) \/ FindRoom(c) \/ FindRoomFails(c)
           \/ UNCHANGED vars
  <2>1. UNCHANGED <<roomsMap, socketRooms, mongo, saves>>
    BY <1>8 DEF HandleConnection, LockReleased, FindRoom, FindRoomFails, vars
  <2> QED BY <1>1, <2>1
<1> QED BY <1>2, <1>3, <1>4, <1>5, <1>6, <1>7, <1>8 DEF Next

\* An edit is lost only by a restart, a save that fails, a save that comes after a newer
\* one, a room that was read before the last save of an earlier one was applied, or a
\* closed room that is reopened before it was saved (handleRoomPersistence, saveToMongo,
\* makeOrLoadRoom).
THEOREM EditsVanishInWindows == Spec => EditsVanishOnlyInWindows
<1>1. HistoryInv /\ [Next]_vars => [\A r \in Rooms : ~(Kept(r) \subseteq Kept(r)') => LossWindow(r)]_vars
  BY EditKept
<1> QED BY <1>1, HistoryInit, HistoryStep, PTL DEF Spec, EditsVanishOnlyInWindows

-----------------------------------------------------------------------------
(***************************************************************************)
(* A room id is one document: TldrawRooms implements SharedWhiteboard.     *)
(* Each abstract step is first stated room by room; then every turn of the *)
(* service is shown to be one of them, or to change nothing.               *)
(***************************************************************************)

\* What a room id is to those who draw, before and after a step.
SameMembers(r) == MembersOf(r)' = MembersOf(r)
SameLive(r) == HasOpenRoom(r)' <=> HasOpenRoom(r)
SameDocument(r) == DocumentOf(r)' = DocumentOf(r)
SameVersions(r) == VersionsOf(r)' = VersionsOf(r)
SameRoom(r) == SameMembers(r) /\ SameLive(r) /\ SameDocument(r) /\ SameVersions(r)

LEMMA NothingSeen ==
  ASSUME \A r \in Rooms : SameRoom(r), made' = made
  PROVE  UNCHANGED Whiteboard!whiteboardVars
<1>1. [r \in Rooms |-> MembersOf(r)]' = [r \in Rooms |-> MembersOf(r)]
  BY DEF SameRoom, SameMembers
<1>2. {r \in Rooms : HasOpenRoom(r)}' = {r \in Rooms : HasOpenRoom(r)}
  BY DEF SameRoom, SameLive
<1>3. [r \in Rooms |-> DocumentOf(r)]' = [r \in Rooms |-> DocumentOf(r)]
  BY DEF SameRoom, SameDocument
<1>4. [r \in Rooms |-> VersionsOf(r)]' = [r \in Rooms |-> VersionsOf(r)]
  BY DEF SameRoom, SameVersions
<1> QED BY <1>1, <1>2, <1>3, <1>4 DEF Whiteboard!whiteboardVars

LEMMA JoinSeen ==
  ASSUME NEW c \in Clients, NEW r \in Rooms, HasOpenRoom(r),
         \A q \in Rooms : c \notin MembersOf(q),
         MembersOf(r)' = MembersOf(r) \cup {c},
         \A q \in Rooms : q # r => SameMembers(q),
         \A q \in Rooms : SameLive(q) /\ SameDocument(q) /\ SameVersions(q),
         made' = made
  PROVE  Whiteboard!Join(c, r)
<1>1. [q \in Rooms |-> MembersOf(q)]' = [[q \in Rooms |-> MembersOf(q)] EXCEPT ![r] = @ \cup {c}]
  BY DEF SameMembers
<1>2. {q \in Rooms : HasOpenRoom(q)}' = {q \in Rooms : HasOpenRoom(q)}
  BY DEF SameLive
<1>3. [q \in Rooms |-> DocumentOf(q)]' = [q \in Rooms |-> DocumentOf(q)]
  BY DEF SameDocument
<1>4. [q \in Rooms |-> VersionsOf(q)]' = [q \in Rooms |-> VersionsOf(q)]
  BY DEF SameVersions
<1>5. Whiteboard!Absent(c) /\ r \in {q \in Rooms : HasOpenRoom(q)}
  BY DEF Whiteboard!Absent
<1> QED BY <1>1, <1>2, <1>3, <1>4, <1>5 DEF Whiteboard!Join

LEMMA OpenSeen ==
  ASSUME NEW r \in Rooms, ~HasOpenRoom(r), HasOpenRoom(r)',
         NEW version \in VersionsOf(r), DocumentOf(r)' = {version},
         NEW first, MembersOf(r)' = first,
         first = {} \/ \E c \in Clients : first = {c} /\ \A q \in Rooms : c \notin MembersOf(q),
         VersionsOf(r)' \subseteq VersionsOf(r), VersionsOf(r)' # {},
         \A q \in Rooms : q # r => SameRoom(q),
         made' = made
  PROVE  Whiteboard!Open(r)
<1> DEFINE kept == VersionsOf(r)'
<1>1. [q \in Rooms |-> MembersOf(q)]' = [[q \in Rooms |-> MembersOf(q)] EXCEPT ![r] = first]
  BY DEF SameRoom, SameMembers
<1>2. {q \in Rooms : HasOpenRoom(q)}' = {q \in Rooms : HasOpenRoom(q)} \cup {r}
  BY DEF SameRoom, SameLive
<1>3. [q \in Rooms |-> DocumentOf(q)]' = [[q \in Rooms |-> DocumentOf(q)] EXCEPT ![r] = {version}]
  BY DEF SameRoom, SameDocument
<1>4. [q \in Rooms |-> VersionsOf(q)]' = [[q \in Rooms |-> VersionsOf(q)] EXCEPT ![r] = kept]
  BY DEF SameRoom, SameVersions
<1>5. [q \in Rooms |-> VersionsOf(q)][r] = VersionsOf(r) /\ r \notin {q \in Rooms : HasOpenRoom(q)}
  OBVIOUS
<1>6. first \in {{}} \cup {{c} : c \in {d \in Clients : Whiteboard!Absent(d)}}
  BY DEF Whiteboard!Absent
<1>7. kept \in SUBSET VersionsOf(r) /\ Whiteboard!SomeOf(kept, VersionsOf(r))
  BY DEF Whiteboard!SomeOf
<1> HIDE DEF kept
<1> QED BY <1>1, <1>2, <1>3, <1>4, <1>5, <1>6, <1>7 DEF Whiteboard!Open

LEMMA DrawSeen ==
  ASSUME NEW c \in Clients, NEW r \in Rooms, c \in MembersOf(r),
         NEW e \in Edits \ made, made' = made \cup {e},
         DocumentOf(r)' = {content \cup {e} : content \in DocumentOf(r)},
         \A q \in Rooms : q # r => SameDocument(q),
         \A q \in Rooms : SameMembers(q) /\ SameLive(q) /\ SameVersions(q)
  PROVE  Whiteboard!Draw(c, r)
<1>1. [q \in Rooms |-> MembersOf(q)]' = [q \in Rooms |-> MembersOf(q)]
  BY DEF SameMembers
<1>2. {q \in Rooms : HasOpenRoom(q)}' = {q \in Rooms : HasOpenRoom(q)}
  BY DEF SameLive
<1>3. [q \in Rooms |-> DocumentOf(q)]'
        = [[q \in Rooms |-> DocumentOf(q)] EXCEPT ![r] = {content \cup {e} : content \in @}]
  BY DEF SameDocument
<1>4. [q \in Rooms |-> VersionsOf(q)]' = [q \in Rooms |-> VersionsOf(q)]
  BY DEF SameVersions
<1> QED BY <1>1, <1>2, <1>3, <1>4 DEF Whiteboard!Draw

LEMMA LeaveSeen ==
  ASSUME NEW c \in Clients, NEW r \in Rooms, c \in MembersOf(r),
         MembersOf(r)' = MembersOf(r) \ {c}, HasOpenRoom(r),
         HasOpenRoom(r)' <=> MembersOf(r) # {c},
         \A q \in Rooms : q # r => SameMembers(q) /\ SameLive(q),
         \A q \in Rooms : SameDocument(q) /\ SameVersions(q),
         made' = made
  PROVE  Whiteboard!Leave(c, r)
<1>1. [q \in Rooms |-> MembersOf(q)]' = [[q \in Rooms |-> MembersOf(q)] EXCEPT ![r] = @ \ {c}]
  BY DEF SameMembers
<1>2. {q \in Rooms : HasOpenRoom(q)}'
        = IF MembersOf(r) = {c} THEN {q \in Rooms : HasOpenRoom(q)} \ {r} ELSE {q \in Rooms : HasOpenRoom(q)}
  <2>1. CASE MembersOf(r) = {c}
    BY <2>1 DEF SameLive
  <2>2. CASE MembersOf(r) # {c}
    BY <2>2 DEF SameLive
  <2> QED BY <2>1, <2>2
<1>3. [q \in Rooms |-> DocumentOf(q)]' = [q \in Rooms |-> DocumentOf(q)]
  BY DEF SameDocument
<1>4. [q \in Rooms |-> VersionsOf(q)]' = [q \in Rooms |-> VersionsOf(q)]
  BY DEF SameVersions
<1> QED BY <1>1, <1>2, <1>3, <1>4 DEF Whiteboard!Leave

LEMMA KeepSeen ==
  ASSUME \A r \in Rooms : SameMembers(r) /\ SameLive(r),
         \A r \in Rooms : VersionsOf(r)' \subseteq VersionsOf(r) \cup DocumentOf(r) /\ VersionsOf(r)' # {},
         \A r \in Rooms : SameDocument(r) \/ (~HasOpenRoom(r) /\ DocumentOf(r)' = {}),
         made' = made
  PROVE  Whiteboard!Keep
<1>1. [q \in Rooms |-> MembersOf(q)]' = [q \in Rooms |-> MembersOf(q)]
  BY DEF SameMembers
<1>2. {q \in Rooms : HasOpenRoom(q)}' = {q \in Rooms : HasOpenRoom(q)}
  BY DEF SameLive
<1> QED BY <1>1, <1>2 DEF Whiteboard!Keep, Whiteboard!SomeOf, SameDocument

LEMMA LossSeen ==
  ASSUME \A r \in Rooms : MembersOf(r)' = {} /\ ~HasOpenRoom(r)' /\ DocumentOf(r)' = {},
         \A r \in Rooms : VersionsOf(r)' \subseteq VersionsOf(r) /\ VersionsOf(r)' # {},
         made' = made
  PROVE  Whiteboard!LoseMemory
BY DEF Whiteboard!LoseMemory, Whiteboard!SomeOf

\* What the connections that are loading the room id have read.
ReadFor(r) == {clients[c].snapshot : c \in {d \in Loaders(r) : clients[d].pc = "read"}}

LEMMA VersionsAre ==
  \A r \in Rooms :
    VersionsOf(r) = {mongo[r]} \cup {s.snapshot : s \in {t \in saves : t.roomId = r}} \cup ReadFor(r)
BY DEF VersionsOf, ReadFor

LEMMA StoreSeen ==
  ASSUME UNCHANGED <<roomsMap, socketRooms>>
  PROVE  \A r \in Rooms : SameLive(r) /\ SameDocument(r)
BY DEF SameLive, SameDocument, HasOpenRoom, DocumentOf

LEMMA MongoSeen ==
  ASSUME UNCHANGED <<mongo, saves>>, NEW r \in Rooms, ReadFor(r)' = ReadFor(r)
  PROVE  SameVersions(r)
BY DEF SameVersions, VersionsOf, ReadFor

\* One connection changes: who is in a room, and what was read for it.
LEMMA OneClientSeen ==
  ASSUME TypeOK, NEW c \in Clients, NEW value \in ClientState,
         clients' = [clients EXCEPT ![c] = value], NEW r \in Rooms
  PROVE  /\ (clients[c].pc # "connected" \/ clients[c].roomId # r)
            /\ (value.pc # "connected" \/ value.roomId # r) => SameMembers(r)
         /\ (value.pc = "connected" /\ value.roomId = r) => MembersOf(r)' = MembersOf(r) \cup {c}
         /\ (value.pc # "connected" \/ value.roomId # r) => MembersOf(r)' = MembersOf(r) \ {c}
         /\ (clients[c].pc # "read" \/ clients[c].roomId # r)
            /\ (value.pc # "read" \/ value.roomId # r) => ReadFor(r)' = ReadFor(r)
         /\ (value.pc # "read" \/ value.roomId # r) => ReadFor(r)' \subseteq ReadFor(r)
<1>1. clients'[c] = value /\ \A d \in Clients : d # c => clients'[d] = clients[d]
  BY OneClientChanges
<1>2. /\ (value.pc = "connected" /\ value.roomId = r) => MembersOf(r)' = MembersOf(r) \cup {c}
      /\ (value.pc # "connected" \/ value.roomId # r) => MembersOf(r)' = MembersOf(r) \ {c}
  BY <1>1 DEF MembersOf
<1>3. /\ (clients[c].pc # "connected" \/ clients[c].roomId # r)
         /\ (value.pc # "connected" \/ value.roomId # r) => SameMembers(r)
  BY <1>1 DEF MembersOf, SameMembers
<1> DEFINE Readers == {d \in Loaders(r) : clients[d].pc = "read"}
<1>4. Readers = {d \in Clients : clients[d].pc = "read" /\ clients[d].roomId = r}
  BY DEF Loaders
<1>5. Readers' = {d \in Clients : clients'[d].pc = "read" /\ clients'[d].roomId = r}
  BY DEF Loaders
<1>6. ASSUME value.pc # "read" \/ value.roomId # r
      PROVE  Readers' = Readers \ {c}
  BY <1>1, <1>4, <1>5, <1>6
<1>7. \A d \in Readers \ {c} : clients'[d] = clients[d]
  BY <1>1, <1>4
<1>8. ReadFor(r) = {clients[d].snapshot : d \in Readers} /\ ReadFor(r)' = {clients'[d].snapshot : d \in Readers'}
  BY DEF ReadFor
<1>9. ASSUME value.pc # "read" \/ value.roomId # r
      PROVE  ReadFor(r)' \subseteq ReadFor(r)
  <2>1. ReadFor(r)' = {clients'[d].snapshot : d \in Readers \ {c}}
    BY <1>6, <1>8, <1>9
  <2> HIDE DEF Readers
  <2> QED BY <1>7, <1>8, <2>1
<1>10. ASSUME clients[c].pc # "read" \/ clients[c].roomId # r, value.pc # "read" \/ value.roomId # r
       PROVE  ReadFor(r)' = ReadFor(r)
  <2>1. Readers' = Readers /\ c \notin Readers
    BY <1>4, <1>6, <1>10
  <2> HIDE DEF Readers
  <2> QED BY <1>7, <1>8, <2>1
<1> QED BY <1>2, <1>3, <1>9, <1>10

\* A connection joins the open room, or waits or takes the lock: join, or nothing.
LEMMA LookupSeen ==
  ASSUME RoomInv, NEW c \in Clients, NEW r \in Rooms, clients[c].pc \in {"idle", "waiting"},
         \/ MakeOrLoadRoom(c, r)
         \/ clients' = [clients EXCEPT ![c] = WaitingFor(r)],
         UNCHANGED <<roomsMap, socketRooms, mongo, saves, made>>
  PROVE  Whiteboard!Join(c, r) \/ UNCHANGED Whiteboard!whiteboardVars
<1>1. TypeOK /\ \A q \in Rooms : SameLive(q) /\ SameDocument(q)
  BY StoreSeen DEF RoomInv
<1>2. CASE HasOpenRoom(r) /\ clients' = [clients EXCEPT ![c] = ConnectedTo(r, roomsMap[r].room)]
  <2>1. ConnectedTo(r, roomsMap[r].room) \in ClientState
    BY <1>1, <1>2, ClientTypes, EntryIsRecord DEF HasOpenRoom, TypeOK, RoomState
  <2>2. /\ ConnectedTo(r, roomsMap[r].room).pc = "connected"
        /\ ConnectedTo(r, roomsMap[r].room).roomId = r
    BY DEF ConnectedTo
  <2>3. /\ MembersOf(r)' = MembersOf(r) \cup {c}
        /\ \A q \in Rooms : q # r => SameMembers(q)
        /\ \A q \in Rooms : ReadFor(q)' = ReadFor(q)
    <3>1. PICK value \in ClientState :
            clients' = [clients EXCEPT ![c] = value] /\ value.pc = "connected" /\ value.roomId = r
      BY <1>2, <2>1, <2>2
    <3> QED BY <1>1, <3>1, OneClientSeen
  <2>4. \A q \in Rooms : SameVersions(q)
    BY <2>3, MongoSeen
  <2>5. \A q \in Rooms : c \notin MembersOf(q)
    BY DEF MembersOf
  <2> QED BY <1>1, <1>2, <2>3, <2>4, <2>5, JoinSeen
<1>3. CASE clients' = [clients EXCEPT ![c] = Reading(r)] \/ clients' = [clients EXCEPT ![c] = WaitingFor(r)]
  <2>1. PICK value \in ClientState :
          clients' = [clients EXCEPT ![c] = value] /\ value.pc \in {"reading", "waiting"}
    BY <1>3, ClientTypes, ClientPcs
  <2>2. \A q \in Rooms : SameMembers(q) /\ ReadFor(q)' = ReadFor(q)
    BY <1>1, <2>1, OneClientSeen
  <2>3. \A q \in Rooms : SameVersions(q)
    BY <2>2, MongoSeen
  <2> QED BY <1>1, <2>2, <2>3, NothingSeen DEF SameRoom
<1> QED BY <1>2, <1>3 DEF MakeOrLoadRoom

\* Mongo's answer reaches the connection that reads: it may come back later.
LEMMA ReadSeen ==
  ASSUME RoomInv, NEW c \in Clients, FindRoom(c)
  PROVE  UNCHANGED Whiteboard!whiteboardVars
<1>1. PICK r \in Rooms : r = clients[c].roomId /\ mongo[r] \in SUBSET Edits
  BY DEF RoomInv, TypeOK, FindRoom, ClientPlaced
<1>2. TypeOK /\ HasRead(r, mongo[r]) \in ClientState
  BY <1>1, ClientTypes DEF RoomInv
<1>3. /\ clients' = [clients EXCEPT ![c] = HasRead(r, mongo[r])]
      /\ UNCHANGED <<roomsMap, socketRooms, mongo, saves, made>>
  BY <1>1 DEF FindRoom
<1>4. /\ HasRead(r, mongo[r]).pc = "read" /\ HasRead(r, mongo[r]).roomId = r
      /\ HasRead(r, mongo[r]).snapshot = mongo[r]
      /\ clients[c].pc = "reading"
  BY DEF HasRead, FindRoom
<1>5. PICK value \in ClientState :
        /\ clients' = [clients EXCEPT ![c] = value]
        /\ value.pc = "read" /\ value.roomId = r /\ value.snapshot = mongo[r]
  BY <1>2, <1>3, <1>4
<1>6. /\ \A q \in Rooms : SameMembers(q)
      /\ \A q \in Rooms : q # r => ReadFor(q)' = ReadFor(q)
  <2>1. /\ value \in ClientState /\ clients' = [clients EXCEPT ![c] = value]
        /\ clients[c].pc \notin {"connected", "read"} /\ value.pc # "connected" /\ value.roomId = r
    BY <1>4, <1>5
  <2> QED BY <1>2, <2>1, OneClientSeen
<1>7. \A q \in Rooms : q # r => SameVersions(q)
  BY <1>3, <1>6, MongoSeen
<1>8. ReadFor(r)' = ReadFor(r) \cup {mongo[r]}
  <2> DEFINE Readers == {d \in Loaders(r) : clients[d].pc = "read"}
  <2>1. clients'[c] = value /\ \A d \in Clients : d # c => clients'[d] = clients[d]
    BY <1>2, <1>5, OneClientChanges
  <2>2. Readers' = Readers \cup {c} /\ c \notin Readers /\ Readers \subseteq Clients
    BY <1>4, <1>5, <2>1 DEF Loaders
  <2>3. ReadFor(r) = {clients[d].snapshot : d \in Readers} /\ ReadFor(r)' = {clients'[d].snapshot : d \in Readers'}
    BY DEF ReadFor
  <2> HIDE DEF Readers
  <2> QED BY <1>5, <2>1, <2>2, <2>3
<1>9. SameVersions(r)
  <2>1. VersionsOf(r)' = {mongo'[r]} \cup {s.snapshot : s \in {t \in saves' : t.roomId = r}} \cup ReadFor(r)'
    BY DEF VersionsOf, ReadFor
  <2> QED BY <1>3, <1>8, <2>1, VersionsAre DEF SameVersions
<1> QED BY <1>3, <1>6, <1>7, <1>9, StoreSeen, NothingSeen DEF SameRoom

\* A connection whose load fails was not in a room; what it was to read is stored.
LEMMA ReadFailsSeen ==
  ASSUME RoomInv, NEW c \in Clients, FindRoomFails(c)
  PROVE  UNCHANGED Whiteboard!whiteboardVars
<1>1. TypeOK /\ clients' = [clients EXCEPT ![c] = IdleClient] /\ clients[c].pc = "reading"
      /\ UNCHANGED <<roomsMap, socketRooms, mongo, saves, made>>
  BY DEF RoomInv, FindRoomFails
<1>2. \A q \in Rooms : SameMembers(q) /\ ReadFor(q)' = ReadFor(q)
  <2>1. PICK value \in ClientState : clients' = [clients EXCEPT ![c] = value] /\ value.pc = "idle"
    BY <1>1, ClientTypes, ClientPcs
  <2> QED BY <1>1, <2>1, OneClientSeen
<1> QED BY <1>1, <1>2, MongoSeen, StoreSeen, NothingSeen DEF SameRoom

\* The room that was loaded: its document is the version that was read.
LEMMA LoadSeen ==
  ASSUME RoomInv, NEW c \in Clients, RoomLoaded(c)
  PROVE  \E r \in Rooms : Whiteboard!Open(r)
<1>0. TypeOK
  BY DEF RoomInv
<1>1. PICK r \in Rooms : r = clients[c].roomId /\ c \in Loaders(r) /\ ~HasOpenRoom(r)
  BY <1>0 DEF RoomInv, RoomLoaded, TypeOK, ClientPlaced, SingleLoader, LockedNotOpen, Loaders
<1> DEFINE read == clients[c].snapshot
<1>2. PICK i \in Instances :
        /\ Free(i)
        /\ socketRooms' = [socketRooms EXCEPT ![i] = NewSocketRoom(read, sent[r])]
        /\ roomsMap' = [roomsMap EXCEPT ![r] = [room |-> i, needsPersist |-> FALSE]]
        /\ \/ clients' = [clients EXCEPT ![c] = ConnectedTo(r, i)]
           \/ clients' = [clients EXCEPT ![c] = IdleClient]
        /\ UNCHANGED <<mongo, saves, made>> /\ clients[c].pc = "read"
  BY <1>1 DEF RoomLoaded
<1>3. PICK value \in ClientState :
        /\ clients' = [clients EXCEPT ![c] = value]
        /\ value.pc \in {"connected", "idle"} /\ (value.pc = "connected" => value.roomId = r)
  BY <1>2, ClientTypes, ClientPcs
<1>4. /\ roomsMap'[r] = [room |-> i, needsPersist |-> FALSE]
      /\ \A q \in Rooms : q # r => roomsMap'[q] = roomsMap[q]
      /\ socketRooms'[i] = NewSocketRoom(read, sent[r])
      /\ \A j \in Instances : j # i => socketRooms'[j] = socketRooms[j]
  BY <1>0, <1>2 DEF TypeOK
<1>5. roomsMap'[r] # None /\ roomsMap'[r].room = i
  <2>1. roomsMap'[r] \in RoomState
    BY <1>4, EntryTypes
  <2>2. roomsMap'[r].room = i
    BY <1>4
  <2> QED BY <2>1, <2>2, NoneNoEntry
<1>6. HasOpenRoom(r)' /\ DocumentOf(r)' = {read}
  BY <1>4, <1>5 DEF HasOpenRoom, DocumentOf, NewSocketRoom
<1>7. ASSUME NEW q \in Rooms, q # r PROVE SameLive(q) /\ SameDocument(q)
  <2>1. roomsMap[q] # None => roomsMap[q].room \in Instances /\ roomsMap[q].room # i
    BY <1>0, <1>2, EntryIsRecord DEF TypeOK, RoomState, Free
  <2> QED BY <1>4, <1>7, <2>1 DEF SameLive, SameDocument, HasOpenRoom, DocumentOf
<1>8. ASSUME NEW q \in Rooms, q # r PROVE SameMembers(q) /\ SameVersions(q)
  <2>1. SameMembers(q) /\ ReadFor(q)' = ReadFor(q)
    BY <1>0, <1>1, <1>2, <1>3, <1>8, OneClientSeen
  <2> QED BY <1>2, <2>1, MongoSeen
<1>9. read \in VersionsOf(r)
  BY <1>1, <1>2 DEF VersionsOf
<1>10. VersionsOf(r)' \subseteq VersionsOf(r) /\ VersionsOf(r)' # {}
  <2>1. ReadFor(r)' \subseteq ReadFor(r)
    BY <1>0, <1>3, OneClientSeen
  <2>2. VersionsOf(r)' = {mongo'[r]} \cup {s.snapshot : s \in {t \in saves' : t.roomId = r}} \cup ReadFor(r)'
    BY DEF VersionsOf, ReadFor
  <2>3. UNCHANGED <<mongo, saves>>
    BY <1>2
  <2> HIDE DEF read
  <2> QED BY <2>1, <2>2, <2>3, VersionsAre
<1>11. MembersOf(r) = {}
  BY <1>1 DEF RoomInv, OneSharedRoom, MembersOf
<1>12. MembersOf(r)' = IF value.pc = "connected" THEN {c} ELSE {}
  BY <1>0, <1>3, <1>11, OneClientSeen
<1>13. \A q \in Rooms : c \notin MembersOf(q)
  BY <1>2 DEF MembersOf
<1> DEFINE first == MembersOf(r)'
<1>14. first = {} \/ \E d \in Clients : first = {d} /\ \A q \in Rooms : d \notin MembersOf(q)
  BY <1>12, <1>13
<1>15. \A q \in Rooms : q # r => SameRoom(q)
  BY <1>7, <1>8 DEF SameRoom
<1>16. made' = made
  BY <1>2
<1> HIDE DEF read, first
<1> QED BY <1>1, <1>6, <1>9, <1>10, <1>14, <1>15, <1>16, OpenSeen DEF first

\* The connections to a TLSocketRoom in the map are the members of its room id.
LEMMA SessionsAreMembers ==
  ASSUME StoreInv, NEW c \in Clients, clients[c].pc = "connected"
  PROVE  /\ clients[c].roomId \in Rooms /\ clients[c].room \in Instances
         /\ HasOpenRoom(clients[c].roomId) /\ roomsMap[clients[c].roomId].room = clients[c].room
         /\ Sessions(clients[c].room) = MembersOf(clients[c].roomId)
         /\ c \in MembersOf(clients[c].roomId)
<1>1. /\ clients[c].roomId \in Rooms /\ clients[c].room \in Instances
      /\ HasOpenRoom(clients[c].roomId) /\ roomsMap[clients[c].roomId].room = clients[c].room
  BY DEF StoreInv, RoomInv, TypeOK, ClientPlaced, OneSharedRoom
<1>2. ASSUME NEW d \in Clients, clients[d].pc = "connected"
      PROVE  clients[d].room = clients[c].room <=> clients[d].roomId = clients[c].roomId
  <2>1. /\ clients[d].roomId \in Rooms
        /\ HasOpenRoom(clients[d].roomId) /\ roomsMap[clients[d].roomId].room = clients[d].room
    BY <1>2 DEF StoreInv, RoomInv, TypeOK, ClientPlaced, OneSharedRoom
  <2> QED BY <1>1, <2>1 DEF StoreInv, MappedDistinct, HasOpenRoom
<1> QED BY <1>1, <1>2 DEF Sessions, MembersOf

\* A change reaches the one document of the room id, and no other.
LEMMA EditSeen ==
  ASSUME StoreInv, NEW c \in Clients, Edit(c)
  PROVE  \E r \in Rooms : Whiteboard!Draw(c, r)
<1>0. TypeOK /\ clients[c].pc = "connected"
  BY DEF StoreInv, RoomInv, Edit
<1>1. PICK r \in Rooms, i \in Instances :
        /\ r = clients[c].roomId /\ i = clients[c].room
        /\ HasOpenRoom(r) /\ roomsMap[r].room = i /\ c \in MembersOf(r)
  BY <1>0, SessionsAreMembers
<1>2. PICK e \in Edits \ made :
        /\ made' = made \cup {e}
        /\ socketRooms' = [socketRooms EXCEPT ![i].content = @ \cup {e}]
  BY <1>1 DEF Edit
<1>3. roomsMap[r] # None /\ roomsMap[r] \in RoomState
  BY <1>0, <1>1, EntryIsRecord DEF HasOpenRoom, TypeOK
<1>4. roomsMap' = [roomsMap EXCEPT ![r] = [roomsMap[r] EXCEPT !.needsPersist = TRUE]]
      /\ UNCHANGED <<clients, mongo, saves>>
  BY <1>1, <1>3 DEF Edit, OnDataChange
<1>5. /\ roomsMap'[r] = [roomsMap[r] EXCEPT !.needsPersist = TRUE]
      /\ \A q \in Rooms : q # r => roomsMap'[q] = roomsMap[q]
      /\ \A j \in Instances : j # i => socketRooms'[j] = socketRooms[j]
      /\ socketRooms'[i].content = socketRooms[i].content \cup {e}
      /\ socketRooms'[i].status = socketRooms[i].status
  BY <1>0, <1>2, <1>4 DEF TypeOK, SocketRoom
<1>6. roomsMap'[r] # None /\ roomsMap'[r].room = i
  <2>1. roomsMap'[r] \in RoomState
    BY <1>3, <1>5, EntryTypes
  <2>2. roomsMap'[r].room = i
    BY <1>1, <1>3, <1>5 DEF RoomState
  <2> QED BY <2>1, <2>2, NoneNoEntry
<1>7. SameLive(r) /\ DocumentOf(r)' = {content \cup {e} : content \in DocumentOf(r)}
  <2>1. SameLive(r)
    BY <1>1, <1>3, <1>5, <1>6 DEF SameLive, HasOpenRoom
  <2>2. DocumentOf(r) = {socketRooms[i].content} /\ DocumentOf(r)' = {socketRooms'[i].content}
    BY <1>1, <1>3, <1>6 DEF DocumentOf
  <2> QED BY <1>5, <2>1, <2>2
<1>8. ASSUME NEW q \in Rooms, q # r PROVE SameLive(q) /\ SameDocument(q)
  <2>1. roomsMap[q] # None => roomsMap[q].room \in Instances /\ roomsMap[q].room # i
    BY <1>0, <1>1, <1>3, <1>8, EntryIsRecord DEF TypeOK, RoomState, StoreInv, MappedDistinct
  <2> QED BY <1>5, <1>8, <2>1 DEF SameLive, SameDocument, HasOpenRoom, DocumentOf
<1>9. \A q \in Rooms : SameMembers(q) /\ ReadFor(q)' = ReadFor(q)
  BY <1>4 DEF SameMembers, MembersOf, ReadFor, Loaders
<1>10. \A q \in Rooms : SameVersions(q)
  BY <1>4, <1>9, MongoSeen
<1> QED BY <1>1, <1>2, <1>7, <1>8, <1>9, <1>10, DrawSeen

\* A session ends; the room closes with the last one, its document stays in memory.
LEMMA SessionEndSeen ==
  ASSUME StoreInv, NEW c \in Clients, SessionRemoved(c)
  PROVE  \E r \in Rooms : Whiteboard!Leave(c, r)
<1>0. TypeOK /\ clients[c].pc = "connected"
  BY DEF StoreInv, RoomInv, SessionRemoved
<1>1. PICK r \in Rooms, i \in Instances :
        /\ r = clients[c].roomId /\ i = clients[c].room
        /\ HasOpenRoom(r) /\ roomsMap[r].room = i /\ c \in MembersOf(r)
        /\ Sessions(i) = MembersOf(r)
  BY <1>0, SessionsAreMembers
<1>2. /\ clients' = [clients EXCEPT ![c] = IdleClient]
      /\ socketRooms' = IF MembersOf(r) = {c} THEN [socketRooms EXCEPT ![i].status = "closed"]
                        ELSE socketRooms
      /\ UNCHANGED <<roomsMap, mongo, saves, made>>
  BY <1>1 DEF SessionRemoved
<1>3. PICK value \in ClientState : clients' = [clients EXCEPT ![c] = value] /\ value.pc = "idle"
  BY <1>2, ClientTypes, ClientPcs
<1>4. /\ MembersOf(r)' = MembersOf(r) \ {c}
      /\ \A q \in Rooms : q # r => SameMembers(q)
      /\ \A q \in Rooms : ReadFor(q)' = ReadFor(q)
  BY <1>0, <1>1, <1>3, OneClientSeen
<1>5. /\ \A j \in Instances : socketRooms'[j].content = socketRooms[j].content
      /\ \A j \in Instances : j # i => socketRooms'[j] = socketRooms[j]
      /\ socketRooms'[i].status = IF MembersOf(r) = {c} THEN "closed" ELSE socketRooms[i].status
  BY <1>0, <1>2 DEF TypeOK, SocketRoom
<1>6. \A q \in Rooms : roomsMap[q] # None => roomsMap[q].room \in Instances
  BY <1>0, EntryIsRecord DEF TypeOK, RoomState
<1>7. \A q \in Rooms : SameDocument(q) /\ SameVersions(q)
  BY <1>2, <1>4, <1>5, <1>6, MongoSeen DEF SameDocument, DocumentOf
<1>8. \A q \in Rooms : q # r => SameLive(q)
  BY <1>1, <1>2, <1>5, <1>6 DEF SameLive, HasOpenRoom, StoreInv, MappedDistinct
<1>9. HasOpenRoom(r)' <=> MembersOf(r) # {c}
  BY <1>1, <1>2, <1>5 DEF HasOpenRoom
<1> QED BY <1>1, <1>2, <1>4, <1>7, <1>8, <1>9, LeaveSeen

\* A pass of the interval hands documents over and drops those of closed rooms.
LEMMA PassSeen ==
  ASSUME StoreInv, HandleRoomPersistence
  PROVE  Whiteboard!Keep
<1>0. TypeOK
  BY DEF StoreInv, RoomInv
<1>1. UNCHANGED <<clients, mongo, made>>
  BY DEF HandleRoomPersistence
<1>2. /\ \A j \in Instances : /\ socketRooms'[j].status = socketRooms[j].status
                              /\ socketRooms'[j].content = socketRooms[j].content
  BY <1>0 DEF HandleRoomPersistence, TypeOK, SocketRoom
<1>3. \A r \in Rooms : roomsMap[r] # None => roomsMap[r] \in RoomState /\ roomsMap[r].room \in Instances
  BY <1>0, EntryIsRecord DEF TypeOK, RoomState
<1>4. ASSUME NEW r \in Rooms, HasOpenRoom(r) PROVE roomsMap'[r] # None /\ roomsMap'[r].room = roomsMap[r].room
  <2>1. roomsMap[r] # None /\ roomsMap'[r] = [roomsMap[r] EXCEPT !.needsPersist = FALSE]
    BY <1>4 DEF HandleRoomPersistence, HasOpenRoom, MappedIsClosed
  <2>2. roomsMap'[r] \in RoomState
    BY <1>3, <2>1, EntryTypes
  <2>3. roomsMap'[r].room = roomsMap[r].room
    BY <1>3, <2>1 DEF RoomState
  <2> QED BY <2>2, <2>3, NoneNoEntry
<1>5. ASSUME NEW r \in Rooms, ~HasOpenRoom(r) PROVE roomsMap'[r] = None
  BY <1>0, <1>3, <1>5 DEF HandleRoomPersistence, HasOpenRoom, MappedIsClosed, TypeOK, SocketRoom
<1>6. \A r \in Rooms : SameLive(r)
  BY <1>2, <1>3, <1>4, <1>5 DEF SameLive, HasOpenRoom
<1>7. \A r \in Rooms : SameDocument(r) \/ (~HasOpenRoom(r) /\ DocumentOf(r)' = {})
  BY <1>2, <1>3, <1>4, <1>5 DEF SameDocument, DocumentOf, HasOpenRoom
<1>8. \A r \in Rooms : SameMembers(r) /\ ReadFor(r)' = ReadFor(r)
  BY <1>1 DEF SameMembers, MembersOf, ReadFor, Loaders
<1>9. ASSUME NEW r \in Rooms PROVE VersionsOf(r)' \subseteq VersionsOf(r) \cup DocumentOf(r) /\ VersionsOf(r)' # {}
  <2>1. VersionsOf(r)' = {mongo'[r]} \cup {s.snapshot : s \in {t \in saves' : t.roomId = r}} \cup ReadFor(r)'
    BY DEF VersionsOf, ReadFor
  <2>2. saves' = saves \cup {SaveOf(q) : q \in {p \in Rooms : DueForSave(p)}}
    BY DEF HandleRoomPersistence
  <2>3. ASSUME NEW s \in saves', s.roomId = r PROVE s \in saves \/ s.snapshot \in DocumentOf(r)
    <3>1. CASE \E q \in Rooms : DueForSave(q) /\ s = SaveOf(q)
      BY <2>3, <3>1 DEF DocumentOf, DueForSave, SaveOf
    <3> QED BY <2>2, <3>1
  <2> QED BY <1>1, <1>8, <2>1, <2>3, VersionsAre
<1> QED BY <1>1, <1>6, <1>7, <1>8, <1>9, KeepSeen

\* A save that reaches Mongo, or does not: one version fewer.
LEMMA SaveSeen ==
  ASSUME StoreInv, NEW s \in saves, SaveApplied(s) \/ SaveFails(s)
  PROVE  Whiteboard!Keep
<1>1. UNCHANGED <<roomsMap, socketRooms, clients, made>> /\ saves' = saves \ {s}
  BY DEF SaveApplied, SaveFails
<1>2. \A r \in Rooms : mongo'[r] = mongo[r] \/ (s.roomId = r /\ mongo'[r] = s.snapshot)
  BY DEF SaveApplied, SaveFails, StoreInv, RoomInv, TypeOK
<1>3. \A r \in Rooms : SameMembers(r) /\ ReadFor(r)' = ReadFor(r)
  BY <1>1 DEF SameMembers, MembersOf, ReadFor, Loaders
<1>4. ASSUME NEW r \in Rooms PROVE VersionsOf(r)' \subseteq VersionsOf(r) /\ VersionsOf(r)' # {}
  <2>1. VersionsOf(r)' = {mongo'[r]} \cup {t.snapshot : t \in {u \in saves' : u.roomId = r}} \cup ReadFor(r)'
    BY DEF VersionsOf, ReadFor
  <2> QED BY <1>1, <1>2, <1>3, <2>1, VersionsAre
<1> QED BY <1>1, <1>3, <1>4, StoreSeen, KeepSeen

\* The process restarts: what Mongo has, or was sent, remains.
LEMMA RestartSeen ==
  ASSUME Crash
  PROVE  Whiteboard!LoseMemory
<1>1. \A c \in Clients : clients'[c].pc = "idle"
  BY ClientPcs DEF Crash
<1>2. \A r \in Rooms : MembersOf(r)' = {} /\ ReadFor(r)' = {}
  BY <1>1 DEF MembersOf, ReadFor, Loaders
<1>3. \A r \in Rooms : ~HasOpenRoom(r)' /\ DocumentOf(r)' = {}
  BY DEF Crash, HasOpenRoom, DocumentOf
<1>4. ASSUME NEW r \in Rooms PROVE VersionsOf(r)' \subseteq VersionsOf(r) /\ VersionsOf(r)' # {}
  <2>1. VersionsOf(r)' = {mongo'[r]} \cup {t.snapshot : t \in {u \in saves' : u.roomId = r}} \cup ReadFor(r)'
    BY DEF VersionsOf, ReadFor
  <2> QED BY <1>2, <2>1, VersionsAre DEF Crash
<1> QED BY <1>2, <1>3, <1>4, LossSeen DEF Crash

LEMMA WhiteboardStep == StoreInv /\ [Next]_vars => [Whiteboard!WhiteboardNext]_(Whiteboard!whiteboardVars)
<1> SUFFICES ASSUME StoreInv, [Next]_vars
             PROVE  Whiteboard!WhiteboardNext \/ UNCHANGED Whiteboard!whiteboardVars
  OBVIOUS
<1>0. RoomInv /\ \A c \in Clients : ClientPlaced(clients[c])
  BY DEF StoreInv, RoomInv, TypeOK
<1>1. ASSUME NEW c \in Clients, NEW r \in Rooms, HandleConnection(c, r)
      PROVE  Whiteboard!Join(c, r) \/ UNCHANGED Whiteboard!whiteboardVars
  BY <1>0, <1>1, LookupSeen DEF HandleConnection
<1>2. ASSUME NEW c \in Clients, LockReleased(c)
      PROVE  (\E r \in Rooms : Whiteboard!Join(c, r)) \/ UNCHANGED Whiteboard!whiteboardVars
  <2>1. PICK r \in Rooms : r = clients[c].roomId
    BY <1>0, <1>2 DEF LockReleased, ClientPlaced
  <2> QED BY <1>0, <1>2, <2>1, LookupSeen DEF LockReleased
<1>3. CASE UNCHANGED vars
  <2>1. \A r \in Rooms : SameRoom(r)
    BY <1>3 DEF vars, SameRoom, SameMembers, SameLive, SameDocument, SameVersions,
                MembersOf, HasOpenRoom, DocumentOf, VersionsOf, Loaders
  <2> QED BY <1>3, <2>1, NothingSeen DEF vars
<1>4. CASE \E c \in Clients, r \in Rooms : HandleConnection(c, r)
  BY <1>1, <1>4 DEF Whiteboard!WhiteboardNext
<1>5. CASE \E c \in Clients : LockReleased(c) \/ FindRoom(c) \/ FindRoomFails(c)
  BY <1>0, <1>2, <1>5, ReadSeen, ReadFailsSeen DEF Whiteboard!WhiteboardNext
<1>6. CASE \E c \in Clients : RoomLoaded(c) \/ Edit(c) \/ SessionRemoved(c)
  BY <1>0, <1>6, LoadSeen, EditSeen, SessionEndSeen DEF Whiteboard!WhiteboardNext
<1>7. CASE HandleRoomPersistence \/ \E s \in saves : SaveApplied(s) \/ SaveFails(s)
  BY <1>7, PassSeen, SaveSeen DEF Whiteboard!WhiteboardNext
<1>8. CASE Crash
  BY <1>8, RestartSeen DEF Whiteboard!WhiteboardNext
<1> QED BY <1>3, <1>4, <1>5, <1>6, <1>7, <1>8 DEF Next

LEMMA WhiteboardStart == Init => Whiteboard!WhiteboardInit
<1> SUFFICES ASSUME Init PROVE Whiteboard!WhiteboardInit
  OBVIOUS
<1>1. \A c \in Clients : clients[c].pc = "idle"
  BY ClientPcs DEF Init
<1>2. ASSUME NEW r \in Rooms
      PROVE  /\ MembersOf(r) = {} /\ ~HasOpenRoom(r) /\ DocumentOf(r) = {} /\ VersionsOf(r) = {{}}
  BY <1>1 DEF Init, MembersOf, HasOpenRoom, DocumentOf, VersionsOf, Loaders
<1> QED BY <1>2 DEF Init, Whiteboard!WhiteboardInit

\* Whatever the connections, loads, passes of the interval, saves and restarts do, a room
\* id is one document to those who draw in it (TLDrawSyncService).
THEOREM WhiteboardShared == Spec => RoomIsOneDocument
BY WhiteboardStart, WhiteboardStep, StoreInvHolds, PTL DEF Spec, RoomIsOneDocument, Whiteboard!WhiteboardSpec
=============================================================================
