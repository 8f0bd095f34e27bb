---------------------------- MODULE MailIdleProofs ----------------------------
(***************************************************************************)
(* The mapped connection of a user was established, is not being closed    *)
(* and will be renewed by its idle timer, for any number of users and IMAP *)
(* clients and any bound on the attempts.  The invariant adds to the types *)
(* that a continuation of createIdleConnection carries an attempt that may *)
(* be made: only scheduleReconnect sees the one beyond the last.           *)
(***************************************************************************)
EXTENDS MailIdle, TLAPS

\* An ImapFlow object the service may hold.
SoundImap ==
  {o \in ImapState : /\ o.status # "free" => o.username \in Users
                     /\ o.restartTimer => o.status # "free"
                     /\ o.after = "create" => o.next \in Attempts}

MapTypes ==
  /\ idleConnections \in [Users -> Imap \cup {None}]
  /\ imap \in [Imap -> SoundImap]
  /\ pendingReconnects \in [Users -> Attempts]
  /\ pendingDisconnects \in SUBSET Users

IdleInv == MapTypes /\ MappedConnectionsRenewed

\* What keeps the mapped connection d as good as it was.
SameMapped(d) ==
  /\ imap'[d].status = imap[d].status
  /\ imap'[d].username = imap[d].username
  /\ imap'[d].restartTimer = imap[d].restartTimer

-----------------------------------------------------------------------------
(* The objects *)

LEMMA AttemptTypes ==
  /\ 0 \in Attempts /\ Attempts \subseteq 0..(MaxReconnectAttempts + 1)
  /\ \A k \in Attempts : NextAttempt(k) \in 0..(MaxReconnectAttempts + 1)
  /\ \A k \in 0..(MaxReconnectAttempts + 1) : ~(k > MaxReconnectAttempts) => k \in Attempts
  /\ 1 \in 0..(MaxReconnectAttempts + 1)
BY IdleAssumption DEF Attempts, NextAttempt

LEMMA FreeImapSound == FreeImap \in SoundImap /\ FreeImap.status = "free"
BY AttemptTypes DEF FreeImap, SoundImap, ImapState

LEMMA NewImapSound ==
  ASSUME NEW u \in Users, NEW k \in Attempts
  PROVE  NewImap(u, k) \in SoundImap
BY AttemptTypes DEF NewImap, FreeImap, SoundImap, ImapState

LEMMA StoppedSound ==
  ASSUME MapTypes, NEW c \in Imap, imap[c].status # "free",
         NEW after \in {"nothing", "reconnect", "restart", "create"},
         NEW next \in 0..(MaxReconnectAttempts + 1), after = "create" => next \in Attempts
  PROVE  Stopped(c, after, next) \in SoundImap /\ Stopped(c, after, next).status = "closing"
<1>1. imap[c] \in ImapState /\ imap[c].username \in Users
  BY DEF MapTypes, SoundImap
<1>2. Stopped(c, after, next) \in ImapState
  BY <1>1 DEF Stopped, ImapState
<1>3. /\ Stopped(c, after, next).status = "closing"
      /\ Stopped(c, after, next).username = imap[c].username
      /\ Stopped(c, after, next).after = after
      /\ Stopped(c, after, next).next = next
  BY <1>1 DEF Stopped, ImapState
<1> QED BY <1>1, <1>2, <1>3 DEF SoundImap

LEMMA ReleasedSound ==
  ASSUME NEW o \in SoundImap, o.status # "free"
  PROVE  Released(o) \in SoundImap
<1>1. CASE o.restartTimer
  <2>1. Released(o) = [FreeImap EXCEPT !.status = "closed", !.username = o.username, !.restartTimer = TRUE]
    BY <1>1 DEF Released
  <2> QED BY <2>1, AttemptTypes DEF FreeImap, SoundImap, ImapState
<1>2. CASE ~o.restartTimer
  BY <1>2, FreeImapSound DEF Released
<1> QED BY <1>1, <1>2

\* Connections that stay mapped and stay the same stay good.
LEMMA SameMappedRenewed ==
  ASSUME IdleInv,
         \A u \in Users : idleConnections'[u] # None =>
           idleConnections'[u] = idleConnections[u] /\ SameMapped(idleConnections[u])
  PROVE  MappedConnectionsRenewed'
BY DEF IdleInv, MappedConnectionsRenewed, SameMapped

LEMMA OnlyOpenAreMapped ==
  ASSUME IdleInv, NEW c \in Imap, imap[c].status # "open"
  PROVE  \A u \in Users : idleConnections[u] # c
BY IdleAssumption DEF IdleInv, MappedConnectionsRenewed

LEMMA IdleInitially == IdleInit => IdleInv
BY FreeImapSound, AttemptTypes DEF IdleInit, IdleInv, MapTypes, MappedConnectionsRenewed

-----------------------------------------------------------------------------
(* Creating connections *)

\* Objects that differ from imap only in ones that are not mapped.
Touches(objects) ==
  /\ objects \in [Imap -> SoundImap]
  /\ \A d \in Imap : objects[d] # imap[d] => \A u \in Users : idleConnections[u] # d

LEMMA StartConnectingKeeps ==
  ASSUME IdleInv, NEW u \in Users, NEW k \in Attempts, NEW objects, Touches(objects),
         StartConnecting(u, k, objects)
  PROVE  Touches(imap')
<1>1. PICK c \in Imap : objects[c].status = "free" /\ imap' = [objects EXCEPT ![c] = NewImap(u, k)]
  BY DEF StartConnecting
<1>2. imap' \in [Imap -> SoundImap]
  BY <1>1, NewImapSound DEF Touches
<1>3. \A v \in Users : idleConnections[v] # c
  <2>1. CASE objects[c] = imap[c]
    BY <2>1, <1>1, OnlyOpenAreMapped
  <2>2. CASE objects[c] # imap[c]
    BY <2>2 DEF Touches
  <2> QED BY <2>1, <2>2
<1>4. \A d \in Imap : d # c => imap'[d] = objects[d]
  BY <1>1 DEF Touches
<1>5. ASSUME NEW d \in Imap, imap'[d] # imap[d] PROVE \A v \in Users : idleConnections[v] # d
  <2>1. CASE d = c
    BY <2>1, <1>3
  <2>2. CASE d # c
    BY <2>2, <1>4, <1>5 DEF Touches
  <2> QED BY <2>1, <2>2
<1> QED BY <1>2, <1>5 DEF Touches

LEMMA CreateKeeps ==
  ASSUME IdleInv, NEW u \in Users, NEW k \in Attempts, NEW objects, Touches(objects),
         CreateIdleConnection(u, k, objects), pendingDisconnects' \in SUBSET Users
  PROVE  IdleInv'
<1>1. pendingReconnects' \in [Users -> Attempts]
  BY AttemptTypes DEF CreateIdleConnection, CancelPendingReconnect, IdleInv, MapTypes
<1>2. CASE idleConnections[u] = None
  <2>1. Touches(imap') /\ idleConnections' = idleConnections
    BY <1>2, StartConnectingKeeps DEF CreateIdleConnection
  <2>2. \A v \in Users : idleConnections[v] # None => SameMapped(idleConnections[v])
    BY <2>1 DEF Touches, SameMapped, IdleInv, MapTypes
  <2>3. MappedConnectionsRenewed'
    BY <2>1, <2>2, SameMappedRenewed
  <2> QED BY <1>1, <2>1, <2>3 DEF IdleInv, MapTypes, Touches
<1>3. CASE idleConnections[u] # None
  <2>1. PICK c \in Imap : c = idleConnections[u]
    BY <1>3 DEF IdleInv, MapTypes
  <2>2. PICK o : o = [Stopped(c, "create", k) EXCEPT !.restartTimer = imap[c].restartTimer]
    OBVIOUS
  <2>3. imap' = [objects EXCEPT ![c] = o] /\ idleConnections' = [idleConnections EXCEPT ![u] = None]
    BY <1>3, <2>1, <2>2 DEF CreateIdleConnection
  <2>4. imap[c].status = "open" /\ imap[c].username = u
    BY <2>1, IdleAssumption DEF IdleInv, MappedConnectionsRenewed
  <2>5. Stopped(c, "create", k) \in SoundImap /\ Stopped(c, "create", k).status = "closing"
    BY <2>4, AttemptTypes, StoppedSound DEF IdleInv
  <2>6. o \in SoundImap
    BY <2>2, <2>5 DEF SoundImap, ImapState, IdleInv, MapTypes
  <2>7. imap' \in [Imap -> SoundImap]
    BY <2>3, <2>6 DEF Touches
  <2>8. \A v \in Users : idleConnections'[v] # None =>
          idleConnections'[v] = idleConnections[v] /\ SameMapped(idleConnections[v])
    <3> SUFFICES ASSUME NEW v \in Users, idleConnections'[v] # None
                 PROVE  idleConnections'[v] = idleConnections[v] /\ SameMapped(idleConnections[v])
      OBVIOUS
    <3>1. v # u /\ idleConnections'[v] = idleConnections[v]
      BY <2>3 DEF IdleInv, MapTypes
    <3>2. idleConnections[v] \in Imap \ {c}
      BY <3>1, <2>4 DEF IdleInv, MapTypes, MappedConnectionsRenewed
    <3>3. imap'[idleConnections[v]] = imap[idleConnections[v]]
      BY <3>2, <2>3 DEF Touches
    <3> QED BY <3>1, <3>3 DEF SameMapped
  <2>9. MappedConnectionsRenewed'
    BY <2>8, SameMappedRenewed
  <2>10. idleConnections' \in [Users -> Imap \cup {None}]
    BY <2>3 DEF IdleInv, MapTypes
  <2> QED BY <1>1, <2>7, <2>9, <2>10 DEF IdleInv, MapTypes
<1> QED BY <1>2, <1>3

-----------------------------------------------------------------------------
(* Stopping connections *)

\* The user's connection is stopped and leaves the map; 'objects' may differ
\* from imap in connections of that user and in the idle timers.
StopsMapped(u, objects, stopped) ==
  /\ objects \in [Imap -> SoundImap]
  /\ \A v \in Users \ {u} : idleConnections[v] # None =>
       /\ objects[idleConnections[v]].status = imap[idleConnections[v]].status
       /\ objects[idleConnections[v]].username = imap[idleConnections[v]].username
       /\ objects[idleConnections[v]].restartTimer = imap[idleConnections[v]].restartTimer
  /\ imap' = IF idleConnections[u] = None THEN objects
             ELSE [objects EXCEPT ![idleConnections[u]] = stopped]
  /\ idleConnections' = [idleConnections EXCEPT ![u] = None]
  /\ pendingReconnects' \in [Users -> Attempts]
  /\ pendingDisconnects' \in SUBSET Users

LEMMA StopKeeps ==
  ASSUME IdleInv, NEW u \in Users, NEW objects, NEW stopped \in SoundImap,
         StopsMapped(u, objects, stopped)
  PROVE  IdleInv'
<1> USE DEF StopsMapped
<1>1. imap' \in [Imap -> SoundImap]
  BY DEF IdleInv, MapTypes
<1>2. \A v \in Users : idleConnections'[v] # None =>
        idleConnections'[v] = idleConnections[v] /\ SameMapped(idleConnections[v])
  <2> SUFFICES ASSUME NEW v \in Users, idleConnections'[v] # None
               PROVE  idleConnections'[v] = idleConnections[v] /\ SameMapped(idleConnections[v])
    OBVIOUS
  <2>1. v # u /\ idleConnections'[v] = idleConnections[v] /\ idleConnections[v] \in Imap
    BY DEF IdleInv, MapTypes
  <2>2. idleConnections[v] # idleConnections[u]
    BY <2>1 DEF IdleInv, MapTypes, MappedConnectionsRenewed
  <2>3. imap'[idleConnections[v]] = objects[idleConnections[v]]
    BY <2>1, <2>2
  <2> QED BY <2>1, <2>3 DEF SameMapped
<1>3. MappedConnectionsRenewed'
  BY <1>2, SameMappedRenewed
<1>4. idleConnections' \in [Users -> Imap \cup {None}]
  BY DEF IdleInv, MapTypes
<1> QED BY <1>1, <1>3, <1>4 DEF IdleInv, MapTypes

\* The object stopIdle leaves for the mapped connection of u, if there is one.
LEMMA MappedStops ==
  ASSUME IdleInv, NEW u \in Users, idleConnections[u] # None,
         NEW after \in {"nothing", "reconnect", "restart"}, NEW next \in 0..(MaxReconnectAttempts + 1)
  PROVE  Stopped(idleConnections[u], after, next) \in SoundImap
<1>1. PICK c \in Imap : c = idleConnections[u]
  BY DEF IdleInv, MapTypes
<1>2. imap[c].status = "open"
  BY <1>1 DEF IdleInv, MappedConnectionsRenewed
<1>3. Stopped(c, after, next) \in SoundImap
  BY <1>2, StoppedSound DEF IdleInv
<1> QED BY <1>1, <1>3

-----------------------------------------------------------------------------
(* The steps *)

LEMMA ConnectKeeps ==
  ASSUME IdleInv, NEW c \in Imap, ConnectSucceeds(c)
  PROVE  IdleInv'
<1>1. PICK u \in Users : u = imap[c].username
  BY DEF ConnectSucceeds, IdleInv, MapTypes, SoundImap
<1>2. imap' = [imap EXCEPT ![c] = [imap[c] EXCEPT !.status = "open", !.restartTimer = TRUE]]
  BY DEF ConnectSucceeds, IdleInv, MapTypes
<1>3. [imap[c] EXCEPT !.status = "open", !.restartTimer = TRUE] \in SoundImap
  BY DEF ConnectSucceeds, IdleInv, MapTypes, SoundImap, ImapState
<1>4. imap' \in [Imap -> SoundImap]
  BY <1>2, <1>3 DEF IdleInv, MapTypes
<1>5. idleConnections' = [idleConnections EXCEPT ![u] = c]
  BY <1>1 DEF ConnectSucceeds
<1>6. imap'[c].status = "open" /\ imap'[c].username = u /\ imap'[c].restartTimer
  <2>1. imap[c] \in ImapState
    BY DEF IdleInv, MapTypes, SoundImap
  <2>2. imap'[c] = [imap[c] EXCEPT !.status = "open", !.restartTimer = TRUE]
    BY <1>2 DEF IdleInv, MapTypes
  <2> QED BY <1>1, <2>1, <2>2 DEF ImapState
<1>7. \A v \in Users : idleConnections[v] # c
  BY OnlyOpenAreMapped DEF ConnectSucceeds
<1>8. MappedConnectionsRenewed'
  BY <1>2, <1>5, <1>6, <1>7 DEF IdleInv, MapTypes, MappedConnectionsRenewed
<1>9. /\ idleConnections' \in [Users -> Imap \cup {None}]
      /\ pendingReconnects' = pendingReconnects /\ pendingDisconnects' = pendingDisconnects
  BY <1>5 DEF ConnectSucceeds, IdleInv, MapTypes
<1> QED BY <1>4, <1>8, <1>9 DEF IdleInv, MapTypes

\* Only an unmapped client changes.
LEMMA UnmappedChangeKeeps ==
  ASSUME IdleInv, Touches(imap'), idleConnections' = idleConnections,
         pendingReconnects' \in [Users -> Attempts], pendingDisconnects' \in SUBSET Users
  PROVE  IdleInv'
<1>1. \A v \in Users : idleConnections[v] # None => imap'[idleConnections[v]] = imap[idleConnections[v]]
  BY DEF Touches, IdleInv, MapTypes
<1>2. MappedConnectionsRenewed'
  BY <1>1, SameMappedRenewed DEF SameMapped
<1>3. imap' \in [Imap -> SoundImap]
  BY DEF Touches
<1> QED BY <1>2, <1>3 DEF IdleInv, MapTypes

LEMMA ConnectFailsKeeps ==
  ASSUME IdleInv, NEW c \in Imap, ConnectFails(c)
  PROVE  IdleInv'
<1>1. PICK o : o = [imap[c] EXCEPT !.status = "closing", !.isErrorHandled = TRUE,
                      !.after = IF imap[c].attempt = 0 THEN "nothing" ELSE "reconnect",
                      !.next = NextAttempt(imap[c].attempt)]
  OBVIOUS
<1>2. imap' = [imap EXCEPT ![c] = o]
  BY <1>1 DEF ConnectFails, IdleInv, MapTypes
<1>3. NextAttempt(imap[c].attempt) \in 0..(MaxReconnectAttempts + 1)
  BY AttemptTypes DEF IdleInv, MapTypes, SoundImap, ImapState
<1>4. o \in SoundImap
  <2>1. imap[c] \in ImapState /\ imap[c].username \in Users
    BY DEF ConnectFails, IdleInv, MapTypes, SoundImap
  <2>2. o \in ImapState
    BY <1>1, <1>3, <2>1 DEF ImapState
  <2>3. o.status = "closing" /\ o.username = imap[c].username /\ o.after # "create"
    BY <1>1, <2>1 DEF ImapState
  <2> QED BY <2>1, <2>2, <2>3 DEF SoundImap
<1>5. \A v \in Users : idleConnections[v] # c
  BY OnlyOpenAreMapped DEF ConnectFails
<1>6. imap' \in [Imap -> SoundImap] /\ \A d \in Imap : imap'[d] # imap[d] => d = c
  BY <1>2, <1>4 DEF IdleInv, MapTypes
<1>7. Touches(imap')
  BY <1>5, <1>6 DEF Touches
<1> QED BY <1>7, UnmappedChangeKeeps DEF ConnectFails, IdleInv, MapTypes

LEMMA ErrorWhileConnectingKeeps ==
  ASSUME IdleInv, NEW c \in Imap, ErrorWhileConnecting(c)
  PROVE  IdleInv'
<1>1. PICK u \in Users : u = imap[c].username
  BY DEF ErrorWhileConnecting, IdleInv, MapTypes, SoundImap
<1>2. PICK objects : objects = [imap EXCEPT ![c].isErrorHandled = TRUE]
  OBVIOUS
<1>3. [imap[c] EXCEPT !.isErrorHandled = TRUE] \in SoundImap
  BY ZenonT(40) DEF IdleInv, MapTypes, SoundImap, ImapState
<1>4. objects \in [Imap -> SoundImap] /\ \A d \in Imap : d # c => objects[d] = imap[d]
  BY <1>2, <1>3 DEF IdleInv, MapTypes
<1>5. \A v \in Users : idleConnections[v] # c
  BY OnlyOpenAreMapped DEF ErrorWhileConnecting
<1>6. PICK stopped \in SoundImap :
        idleConnections[u] # None => stopped = Stopped(idleConnections[u], "reconnect", 1)
  BY MappedStops, AttemptTypes, FreeImapSound
<1>7. /\ imap' = IF idleConnections[u] = None THEN objects
                 ELSE [objects EXCEPT ![idleConnections[u]] = stopped]
      /\ idleConnections' = [idleConnections EXCEPT ![u] = None]
  BY <1>1, <1>2, <1>6 DEF ErrorWhileConnecting, HandleConnectionError
<1>8. pendingReconnects' \in [Users -> Attempts] /\ pendingDisconnects' \in SUBSET Users
  BY DEF ErrorWhileConnecting, IdleInv, MapTypes
<1>9. StopsMapped(u, objects, stopped)
  <2>1. \A v \in Users \ {u} : idleConnections[v] # None => objects[idleConnections[v]] = imap[idleConnections[v]]
    BY <1>4, <1>5 DEF IdleInv, MapTypes
  <2> QED BY <1>4, <1>7, <1>8, <2>1 DEF StopsMapped
<1> QED BY <1>9, StopKeeps

LEMMA ConnectionErrorKeeps ==
  ASSUME IdleInv, NEW c \in Imap, ConnectionError(c)
  PROVE  IdleInv'
<1>1. PICK u \in Users : u = imap[c].username
  BY DEF ConnectionError, IdleInv, MapTypes, SoundImap
<1>2. PICK objects : objects = [imap EXCEPT ![c] = Released(imap[c])]
  OBVIOUS
<1>3. Released(imap[c]) \in SoundImap
  BY ReleasedSound DEF ConnectionError, IdleInv, MapTypes
<1>4. objects \in [Imap -> SoundImap] /\ \A d \in Imap : d # c => objects[d] = imap[d]
  BY <1>2, <1>3 DEF IdleInv, MapTypes
<1>5. \A v \in Users \ {u} : idleConnections[v] # c
  BY <1>1, IdleAssumption DEF IdleInv, MappedConnectionsRenewed
<1>6. PICK stopped \in SoundImap :
        idleConnections[u] # None => stopped = Stopped(idleConnections[u], "reconnect", 1)
  BY MappedStops, AttemptTypes, FreeImapSound
<1>7. /\ imap' = IF idleConnections[u] = None THEN objects
                 ELSE [objects EXCEPT ![idleConnections[u]] = stopped]
      /\ idleConnections' = [idleConnections EXCEPT ![u] = None]
  BY <1>1, <1>2, <1>6 DEF ConnectionError, HandleConnectionError
<1>8. pendingReconnects' \in [Users -> Attempts] /\ pendingDisconnects' \in SUBSET Users
  BY DEF ConnectionError, IdleInv, MapTypes
<1>9. StopsMapped(u, objects, stopped)
  <2>1. \A v \in Users \ {u} : idleConnections[v] # None => objects[idleConnections[v]] = imap[idleConnections[v]]
    BY <1>4, <1>5 DEF IdleInv, MapTypes
  <2> QED BY <1>4, <1>7, <1>8, <2>1 DEF StopsMapped
<1> QED BY <1>9, StopKeeps

LEMMA IdleTimerKeeps ==
  ASSUME IdleInv, NEW c \in Imap, IdleTimer(c)
  PROVE  IdleInv'
<1>1. PICK u \in Users : u = imap[c].username
  BY DEF IdleTimer, IdleInv, MapTypes, SoundImap
<1>2. PICK o : o = IF imap[c].status = "closed" THEN FreeImap
                   ELSE [imap[c] EXCEPT !.restartTimer = FALSE]
  OBVIOUS
<1>3. o \in SoundImap
  BY <1>2, FreeImapSound DEF IdleInv, MapTypes, SoundImap, ImapState
<1>4. PICK objects : objects = [imap EXCEPT ![c] = o]
  OBVIOUS
<1>5. objects \in [Imap -> SoundImap] /\ \A d \in Imap : d # c => objects[d] = imap[d]
  BY <1>3, <1>4 DEF IdleInv, MapTypes
<1>6. \A v \in Users \ {u} : idleConnections[v] # c
  BY <1>1, IdleAssumption DEF IdleInv, MappedConnectionsRenewed
<1>7. PICK stopped \in SoundImap :
        idleConnections[u] # None => stopped = Stopped(idleConnections[u], "restart", 0)
  BY MappedStops, AttemptTypes, FreeImapSound
<1>8. /\ imap' = IF idleConnections[u] = None THEN objects
                 ELSE [objects EXCEPT ![idleConnections[u]] = stopped]
      /\ idleConnections' = [idleConnections EXCEPT ![u] = None]
  BY <1>1, <1>2, <1>4, <1>7 DEF IdleTimer
<1>9. pendingReconnects' \in [Users -> Attempts] /\ pendingDisconnects' \in SUBSET Users
  BY DEF IdleTimer, IdleInv, MapTypes
<1>10. StopsMapped(u, objects, stopped)
  <2>1. \A v \in Users \ {u} : idleConnections[v] # None => objects[idleConnections[v]] = imap[idleConnections[v]]
    BY <1>5, <1>6 DEF IdleInv, MapTypes
  <2> QED BY <1>5, <1>8, <1>9, <2>1 DEF StopsMapped
<1> QED BY <1>10, StopKeeps

LEMMA GraceKeeps ==
  ASSUME IdleInv, NEW u \in Users, GraceExpires(u)
  PROVE  IdleInv'
<1>1. PICK stopped \in SoundImap :
        idleConnections[u] # None => stopped = Stopped(idleConnections[u], "nothing", 0)
  BY MappedStops, AttemptTypes, FreeImapSound
<1>2. PICK objects : objects = imap
  OBVIOUS
<1>3. /\ imap' = IF idleConnections[u] = None THEN objects
                 ELSE [objects EXCEPT ![idleConnections[u]] = stopped]
      /\ idleConnections' = [idleConnections EXCEPT ![u] = None]
  BY <1>1, <1>2 DEF GraceExpires
<1>4. pendingReconnects' \in [Users -> Attempts] /\ pendingDisconnects' \in SUBSET Users
  BY AttemptTypes DEF GraceExpires, CancelPendingReconnect, IdleInv, MapTypes
<1>5. StopsMapped(u, objects, stopped)
  BY <1>2, <1>3, <1>4 DEF StopsMapped, IdleInv, MapTypes
<1> QED BY <1>5, StopKeeps

LEMMA CleanedUpKeeps ==
  ASSUME IdleInv, NEW c \in Imap, CleanedUp(c)
  PROVE  IdleInv'
<1>1. PICK u \in Users : u = imap[c].username
  BY DEF CleanedUp, IdleInv, MapTypes, SoundImap
<1>2. PICK rest : rest = [imap EXCEPT ![c] = Released(imap[c])]
  OBVIOUS
<1>3. Released(imap[c]) \in SoundImap
  BY ReleasedSound DEF CleanedUp, IdleInv, MapTypes
<1>4. rest \in [Imap -> SoundImap] /\ \A d \in Imap : rest[d] # imap[d] => d = c
  BY <1>2, <1>3 DEF IdleInv, MapTypes
<1>5. \A v \in Users : idleConnections[v] # c
  BY OnlyOpenAreMapped DEF CleanedUp
<1>6. Touches(rest)
  BY <1>4, <1>5 DEF Touches
<1>7. pendingDisconnects' \in SUBSET Users
  BY DEF CleanedUp, IdleInv, MapTypes
<1>8. CASE imap[c].after = "nothing"
  <2>1. imap' = rest /\ idleConnections' = idleConnections /\ pendingReconnects' = pendingReconnects
    BY <1>2, <1>8 DEF CleanedUp
  <2>2. pendingReconnects' \in [Users -> Attempts]
    BY <2>1 DEF IdleInv, MapTypes
  <2> QED BY <1>6, <1>7, <2>1, <2>2, UnmappedChangeKeeps
<1>9. CASE imap[c].after = "reconnect"
  <2>1. /\ imap' = rest /\ idleConnections' = idleConnections
        /\ pendingReconnects' = ScheduleReconnect(u, imap[c].next)
    BY <1>1, <1>2, <1>9 DEF CleanedUp
  <2>2. imap[c].next \in 0..(MaxReconnectAttempts + 1)
    BY DEF IdleInv, MapTypes, SoundImap, ImapState
  <2>3. pendingReconnects' \in [Users -> Attempts]
    BY <2>1, <2>2, AttemptTypes DEF ScheduleReconnect, IdleInv, MapTypes
  <2> QED BY <1>6, <1>7, <2>1, <2>3, UnmappedChangeKeeps
<1>10. CASE imap[c].after = "restart"
  <2>1. CreateIdleConnection(u, 0, rest)
    BY <1>1, <1>2, <1>10 DEF CleanedUp
  <2> QED BY <1>6, <1>7, <2>1, AttemptTypes, CreateKeeps
<1>11. CASE imap[c].after = "create"
  <2>1. /\ StartConnecting(u, imap[c].next, rest)
        /\ idleConnections' = idleConnections /\ pendingReconnects' = pendingReconnects
    BY <1>1, <1>2, <1>11 DEF CleanedUp
  <2>2. imap[c].next \in Attempts
    BY <1>11 DEF IdleInv, MapTypes, SoundImap
  <2>3. Touches(imap')
    BY <1>6, <2>1, <2>2, StartConnectingKeeps
  <2>4. pendingReconnects' \in [Users -> Attempts]
    BY <2>1 DEF IdleInv, MapTypes
  <2> QED BY <1>7, <2>1, <2>3, <2>4, UnmappedChangeKeeps
<1> QED BY <1>8, <1>9, <1>10, <1>11 DEF CleanedUp

LEMMA TimersKeep ==
  ASSUME IdleInv, NEW u \in Users, StartIdle(u) \/ ReconnectTimer(u)
  PROVE  IdleInv'
<1>1. Touches(imap)
  BY DEF Touches, IdleInv, MapTypes
<1>2. pendingReconnects[u] \in Attempts /\ 0 \in Attempts
  BY AttemptTypes DEF IdleInv, MapTypes
<1>3. pendingDisconnects' \in SUBSET Users
  BY DEF StartIdle, ReconnectTimer, IdleInv, MapTypes
<1>4. CreateIdleConnection(u, 0, imap) \/ CreateIdleConnection(u, pendingReconnects[u], imap)
  BY DEF StartIdle, ReconnectTimer
<1> QED BY <1>1, <1>2, <1>3, <1>4, CreateKeeps

\* The event streams only start and cancel grace periods.
LEMMA PresenceKeeps ==
  ASSUME IdleInv,
         (\E u \in Users : HandleUserDisconnected(u) \/ HandleUserConnected(u)) \/ UNCHANGED idleVars
  PROVE  IdleInv'
<1>1. UNCHANGED <<idleConnections, imap, pendingReconnects>> /\ pendingDisconnects' \in SUBSET Users
  BY DEF HandleUserDisconnected, HandleUserConnected, CancelGrace, idleVars, IdleInv, MapTypes
<1> QED BY <1>1 DEF IdleInv, MapTypes, MappedConnectionsRenewed

LEMMA IdleRestartKeeps == IdleRestart => IdleInv'
BY FreeImapSound, AttemptTypes DEF IdleRestart, IdleInv, MapTypes, MappedConnectionsRenewed

LEMMA IdleNextKeeps == IdleInv /\ [IdleNext]_idleVars => IdleInv'
<1> SUFFICES ASSUME IdleInv, [IdleNext]_idleVars PROVE IdleInv'
  OBVIOUS
<1>1. CASE IdleStep
  BY <1>1, ConnectKeeps, ConnectFailsKeeps, ErrorWhileConnectingKeeps, ConnectionErrorKeeps,
     CleanedUpKeeps, IdleTimerKeeps, GraceKeeps, TimersKeep DEF IdleStep
<1> QED BY <1>1, PresenceKeeps, IdleRestartKeeps DEF IdleNext

\* The connection a user is served with is not being closed, and is renewed by its
\* idle timer at the latest (createIdleConnection, stopIdle, handleConnectionError).
THEOREM MappedStayRenewed == IdleSpec => []MappedConnectionsRenewed
<1>1. IdleInv => MappedConnectionsRenewed
  BY DEF IdleInv
<1> QED BY <1>1, IdleInitially, IdleNextKeeps, PTL DEF IdleSpec

\* The connections, the ImapFlow objects and the timers keep their types; the
\* attempts stay within MAX_RECONNECT_ATTEMPTS (scheduleReconnect).
THEOREM IdleTypeCorrect == IdleSpec => []IdleTypeOK
<1>1. IdleInv => IdleTypeOK
  BY DEF IdleInv, MapTypes, SoundImap, IdleTypeOK
<1> QED BY <1>1, IdleInitially, IdleNextKeeps, PTL DEF IdleSpec

-----------------------------------------------------------------------------
(* Leaks *)

\* What a step may do with the connection of a user.
KeptOrClosed(u) ==
  (idleConnections[u] # None /\ idleConnections'[u] # idleConnections[u]) =>
    \/ imap'[idleConnections[u]].status # "open"
    \/ idleConnections'[u] # None /\ imap[idleConnections'[u]].status = "connecting"

\* A step that takes one user's connection from the map and leaves its object
\* no longer open leaks none.
LEMMA StoppingLeaksNone ==
  ASSUME IdleInv, NEW u \in Users,
         idleConnections' = [idleConnections EXCEPT ![u] = None],
         idleConnections[u] # None => imap'[idleConnections[u]].status # "open"
  PROVE  \A v \in Users : KeptOrClosed(v)
BY DEF KeptOrClosed, IdleInv, MapTypes

LEMMA StoppedStatus ==
  ASSUME IdleInv, NEW c \in Imap, NEW after, NEW next, NEW timer
  PROVE  /\ Stopped(c, after, next).status = "closing"
         /\ [Stopped(c, after, next) EXCEPT !.restartTimer = timer].status = "closing"
<1>1. imap[c] \in ImapState
  BY DEF IdleInv, MapTypes, SoundImap
<1> QED BY <1>1 DEF Stopped, ImapState

LEMMA CreateLeaksNone ==
  ASSUME IdleInv, NEW u \in Users, NEW k, NEW objects, DOMAIN objects = Imap,
         CreateIdleConnection(u, k, objects)
  PROVE  \A v \in Users : KeptOrClosed(v)
<1>1. CASE idleConnections[u] = None
  BY <1>1 DEF CreateIdleConnection, KeptOrClosed
<1>2. CASE idleConnections[u] # None
  <2>1. PICK c \in Imap : c = idleConnections[u]
    BY <1>2 DEF IdleInv, MapTypes
  <2>2. /\ imap' = [objects EXCEPT ![c] = [Stopped(c, "create", k) EXCEPT !.restartTimer = imap[c].restartTimer]]
        /\ idleConnections' = [idleConnections EXCEPT ![u] = None]
    BY <1>2, <2>1 DEF CreateIdleConnection
  <2>3. imap'[c] = [Stopped(c, "create", k) EXCEPT !.restartTimer = imap[c].restartTimer]
    BY <2>2, Zenon
  <2>4. imap'[c].status # "open"
    BY <2>3, StoppedStatus
  <2> QED BY <2>1, <2>2, <2>4, StoppingLeaksNone
<1> QED BY <1>1, <1>2

\* The handlers that stop whatever connection the user has now.
LEMMA HandlerLeaksNone ==
  ASSUME IdleInv, NEW u \in Users, NEW objects, DOMAIN objects = Imap, NEW after, NEW next,
         imap' = IF idleConnections[u] = None THEN objects
                 ELSE [objects EXCEPT ![idleConnections[u]] = Stopped(idleConnections[u], after, next)],
         idleConnections' = [idleConnections EXCEPT ![u] = None]
  PROVE  \A v \in Users : KeptOrClosed(v)
<1>1. CASE idleConnections[u] = None
  BY <1>1, StoppingLeaksNone
<1>2. CASE idleConnections[u] # None
  <2>1. PICK c \in Imap : c = idleConnections[u]
    BY <1>2 DEF IdleInv, MapTypes
  <2>2. imap' = [objects EXCEPT ![c] = Stopped(c, after, next)]
    BY <1>2, <2>1
  <2>3. imap'[c] = Stopped(c, after, next)
    BY <2>2, Zenon
  <2>4. imap'[c].status # "open"
    BY <2>3, StoppedStatus
  <2> QED BY <2>1, <2>4, StoppingLeaksNone
<1> QED BY <1>1, <1>2

LEMMA NobodyLeaks ==
  ASSUME IdleInv, [IdleNext]_idleVars
  PROVE  \A v \in Users : KeptOrClosed(v)
<1>0. imap \in [Imap -> SoundImap] /\ \A c \in Imap : imap[c].status # "free" => imap[c].username \in Users
  BY DEF IdleInv, MapTypes, SoundImap
<1>1. ASSUME NEW u \in Users, StartIdle(u) \/ ReconnectTimer(u) PROVE \A v \in Users : KeptOrClosed(v)
  <2>1. CreateIdleConnection(u, 0, imap) \/ CreateIdleConnection(u, pendingReconnects[u], imap)
    BY <1>1 DEF StartIdle, ReconnectTimer
  <2> QED BY <1>0, <2>1, CreateLeaksNone
<1>2. ASSUME NEW u \in Users, GraceExpires(u) PROVE \A v \in Users : KeptOrClosed(v)
  BY <1>0, <1>2, HandlerLeaksNone DEF GraceExpires
<1>3. ASSUME NEW c \in Imap, ConnectSucceeds(c) PROVE \A v \in Users : KeptOrClosed(v)
  BY <1>3, IdleAssumption DEF ConnectSucceeds, KeptOrClosed, IdleInv, MapTypes
<1>4. ASSUME NEW c \in Imap, ErrorWhileConnecting(c) PROVE \A v \in Users : KeptOrClosed(v)
  <2>1. HandleConnectionError(imap[c].username, [imap EXCEPT ![c].isErrorHandled = TRUE])
    BY <1>4 DEF ErrorWhileConnecting
  <2>2. PICK objects : objects = [imap EXCEPT ![c].isErrorHandled = TRUE]
    OBVIOUS
  <2>3. DOMAIN objects = Imap
    BY <1>0, <2>2
  <2>4. imap[c].username \in Users
    BY <1>0, <1>4 DEF ErrorWhileConnecting
  <2> QED BY <2>1, <2>2, <2>3, <2>4, HandlerLeaksNone DEF HandleConnectionError
<1>5. ASSUME NEW c \in Imap, ConnectionError(c) PROVE \A v \in Users : KeptOrClosed(v)
  <2>1. HandleConnectionError(imap[c].username, [imap EXCEPT ![c] = Released(imap[c])])
    BY <1>5 DEF ConnectionError
  <2>2. PICK objects : objects = [imap EXCEPT ![c] = Released(imap[c])]
    OBVIOUS
  <2>3. DOMAIN objects = Imap
    BY <1>0, <2>2
  <2>4. imap[c].username \in Users
    BY <1>0, <1>5 DEF ConnectionError
  <2> QED BY <2>1, <2>2, <2>3, <2>4, HandlerLeaksNone DEF HandleConnectionError
<1>6. ASSUME NEW c \in Imap, IdleTimer(c) PROVE \A v \in Users : KeptOrClosed(v)
  <2>1. PICK objects :
          objects = [imap EXCEPT ![c] = IF imap[c].status = "closed" THEN FreeImap
                                        ELSE [imap[c] EXCEPT !.restartTimer = FALSE]]
    OBVIOUS
  <2>2. DOMAIN objects = Imap
    BY <1>0, <2>1
  <2>3. imap[c].username \in Users
    BY <1>6 DEF IdleTimer, IdleInv, MapTypes, SoundImap
  <2> QED BY <1>6, <2>1, <2>2, <2>3, HandlerLeaksNone DEF IdleTimer
<1>7. ASSUME NEW c \in Imap, CleanedUp(c) PROVE \A v \in Users : KeptOrClosed(v)
  <2>1. PICK rest : rest = [imap EXCEPT ![c] = Released(imap[c])]
    OBVIOUS
  <2>5. DOMAIN rest = Imap
    BY <1>0, <2>1
  <2>2. imap[c].username \in Users
    BY <1>0, <1>7 DEF CleanedUp
  <2>3. idleConnections' = idleConnections \/ CreateIdleConnection(imap[c].username, 0, rest)
    BY <1>7, <2>1 DEF CleanedUp
  <2>4. CASE idleConnections' = idleConnections
    BY <2>4 DEF KeptOrClosed
  <2> QED BY <2>1, <2>2, <2>3, <2>4, <2>5, CreateLeaksNone
<1>8. CASE IdleRestart
  BY <1>8, FreeImapSound DEF IdleRestart, KeptOrClosed, IdleInv, MapTypes
<1>9. CASE \/ \E c \in Imap : ConnectFails(c)
           \/ \E u \in Users : HandleUserDisconnected(u) \/ HandleUserConnected(u)
           \/ UNCHANGED idleVars
  <2>1. idleConnections' = idleConnections
    BY <1>9 DEF ConnectFails, HandleUserDisconnected, HandleUserConnected, idleVars
  <2> QED BY <2>1 DEF KeptOrClosed
<1> QED BY <1>1, <1>2, <1>3, <1>4, <1>5, <1>6, <1>7, <1>8, <1>9 DEF IdleNext, IdleStep

\* A connection that leaves the map is closed, unless one that was connecting at
\* the same time takes its place (createIdleConnection, handleConnectionError, restartIdle).
THEOREM LeaksNeedOverlap == IdleSpec => LeakedOnlyByOverlap
<1>1. IdleInv /\ [IdleNext]_idleVars => [\A u \in Users : KeptOrClosed(u)]_idleVars
  BY NobodyLeaks
<1> QED BY <1>1, IdleInitially, IdleNextKeeps, PTL DEF IdleSpec, LeakedOnlyByOverlap, KeptOrClosed
=============================================================================
