-------------------------- MODULE MailPresenceProofs --------------------------
(***************************************************************************)
(* The hub and the mail connections together, for any number of users,     *)
(* responses and IMAP clients.  A grace period runs only for a username    *)
(* without a Subject, since the two handlers run within the calls that     *)
(* change the map of Subjects and no step of the mail connections starts   *)
(* a grace period.  Each of the two parts goes on as it would alone, so    *)
(* what is proved of it alone holds here (PresenceComposes).               *)
(***************************************************************************)
EXTENDS MailPresence, TLAPS

\* Who holds which Subject and whose response is whose.
PresenceInv ==
  /\ userConnections \in [Users -> Subjects \cup {None}]
  /\ responses \in [Responses -> Hub!ResponseState]
  /\ \A r \in Responses : responses[r].status # "free" => responses[r].username \in Users
  /\ pendingDisconnects \in SUBSET Users
  /\ GraceOnlyWhenOffline

LEMMA FreeType ==
  Hub!FreeResponse \in Hub!ResponseState /\ Hub!FreeResponse.status = "free"
BY DEF Hub!FreeResponse, Hub!ResponseState

LEMMA PresenceInitially == Init => PresenceInv
BY FreeType DEF Init, Hub!HubInit, Idle!IdleInit, PresenceInv, GraceOnlyWhenOffline

LEMMA MailKeepsGrace ==
  ASSUME PresenceInv, Idle!IdleStep
  PROVE  pendingDisconnects' \subseteq pendingDisconnects
<1>1. ASSUME NEW u \in Users, Idle!StartIdle(u) \/ Idle!ReconnectTimer(u) \/ Idle!GraceExpires(u)
      PROVE  pendingDisconnects' \subseteq pendingDisconnects
  BY <1>1 DEF Idle!StartIdle, Idle!ReconnectTimer, Idle!GraceExpires
<1>2. ASSUME NEW c \in Imap,
             \/ Idle!ConnectSucceeds(c) \/ Idle!ConnectFails(c) \/ Idle!ErrorWhileConnecting(c)
             \/ Idle!ConnectionError(c) \/ Idle!CleanedUp(c) \/ Idle!IdleTimer(c)
      PROVE  pendingDisconnects' \subseteq pendingDisconnects
  BY <1>2, Zenon DEF Idle!ConnectSucceeds, Idle!ConnectFails, Idle!ErrorWhileConnecting,
                     Idle!ConnectionError, Idle!CleanedUp, Idle!IdleTimer
<1> QED BY <1>1, <1>2 DEF Idle!IdleStep

\* A response of a username that is opened with Subject s.
LEMMA OpenType ==
  ASSUME NEW st \in {"open", "ended"}, NEW u \in Users, NEW s \in Subjects \cup {None}
  PROVE  [status |-> st, username |-> u, subject |-> s] \in Hub!ResponseState
BY DEF Hub!ResponseState

LEMMA FirstSubscribeKeeps ==
  ASSUME PresenceInv, NEW r \in Responses, NEW u \in Users, FirstSubscribe(r, u)
  PROVE  PresenceInv'
<1>1. PICK s \in Subjects :
        /\ userConnections' = [userConnections EXCEPT ![u] = s]
        /\ responses' = [responses EXCEPT ![r] = [status |-> "open", username |-> u, subject |-> s]]
  BY DEF FirstSubscribe, Hub!SubscribeNew
<1>2. pendingDisconnects' = pendingDisconnects \ {u}
  BY DEF FirstSubscribe, Idle!HandleUserConnected, Idle!CancelGrace
<1>3. [status |-> "open", username |-> u, subject |-> s] \in Hub!ResponseState
  BY OpenType
<1>4. responses' \in [Responses -> Hub!ResponseState]
  BY <1>1, <1>3 DEF PresenceInv
<1>5. \A q \in Responses : responses'[q].status # "free" => responses'[q].username \in Users
  BY <1>1 DEF PresenceInv
<1>6. userConnections' \in [Users -> Subjects \cup {None}]
  BY <1>1 DEF PresenceInv
<1>7. GraceOnlyWhenOffline'
  BY <1>1, <1>2 DEF PresenceInv, GraceOnlyWhenOffline
<1> QED BY <1>2, <1>4, <1>5, <1>6, <1>7 DEF PresenceInv

LEMMA FurtherSubscribeKeeps ==
  ASSUME PresenceInv, NEW r \in Responses, NEW u \in Users, FurtherSubscribe(r, u)
  PROVE  PresenceInv'
<1>1. userConnections' = userConnections /\ pendingDisconnects' = pendingDisconnects
  BY DEF FurtherSubscribe, Hub!SubscribeShared, mailVars
<1>2. PICK st \in {"open", "ended"}, s \in Subjects \cup {None} :
        responses' = [responses EXCEPT ![r] = [status |-> st, username |-> u, subject |-> s]]
  BY DEF FurtherSubscribe, Hub!SubscribeShared, PresenceInv
<1>3. [status |-> st, username |-> u, subject |-> s] \in Hub!ResponseState
  BY OpenType
<1>4. responses' \in [Responses -> Hub!ResponseState]
  BY <1>2, <1>3 DEF PresenceInv
<1>5. \A q \in Responses : responses'[q].status # "free" => responses'[q].username \in Users
  BY <1>2 DEF PresenceInv
<1> QED BY <1>1, <1>4, <1>5 DEF PresenceInv, GraceOnlyWhenOffline

LEMMA CloseKeeps ==
  ASSUME PresenceInv, NEW r \in Responses, Close(r)
  PROVE  PresenceInv'
<1>1. PICK u \in Users : u = responses[r].username
  BY DEF Close, Hub!ResponseClosed, PresenceInv
<1>2. userConnections' = [userConnections EXCEPT ![u] = None]
  BY <1>1 DEF Close, Hub!ResponseClosed, Hub!DropConnection
<1>3. pendingDisconnects' \subseteq pendingDisconnects \cup {u}
  BY <1>1 DEF Close, Idle!HandleUserDisconnected
<1>4. responses' = [q \in Responses |->
        IF q = r THEN Hub!FreeResponse
        ELSE IF responses[q].status = "open" /\ responses[q].subject = responses[r].subject
             THEN [responses[q] EXCEPT !.status = "ended"] ELSE responses[q]]
  BY DEF Close, Hub!ResponseClosed
<1>5. ASSUME NEW q \in Responses
      PROVE  /\ responses'[q] \in Hub!ResponseState
             /\ responses'[q].status # "free" => responses'[q].username \in Users
  <2>1. responses[q] \in Hub!ResponseState
    BY DEF PresenceInv
  <2>2. CASE q = r
    BY <2>2, <1>4, FreeType
  <2>3. CASE q # r /\ responses[q].status = "open" /\ responses[q].subject = responses[r].subject
    <3>1. responses'[q] = [responses[q] EXCEPT !.status = "ended"]
      BY <2>3, <1>4
    <3>2. responses[q].username \in Users
      BY <2>3 DEF PresenceInv
    <3> QED BY <3>1, <3>2, <2>1 DEF Hub!ResponseState
  <2>4. CASE q # r /\ ~(responses[q].status = "open" /\ responses[q].subject = responses[r].subject)
    BY <2>4, <1>4 DEF PresenceInv
  <2> QED BY <2>2, <2>3, <2>4
<1>6. responses' \in [Responses -> Hub!ResponseState]
  BY <1>4, <1>5
<1>7. userConnections' \in [Users -> Subjects \cup {None}]
  BY <1>2 DEF PresenceInv
<1>8. GraceOnlyWhenOffline' /\ pendingDisconnects' \in SUBSET Users
  BY <1>2, <1>3 DEF PresenceInv, GraceOnlyWhenOffline
<1> QED BY <1>5, <1>6, <1>7, <1>8 DEF PresenceInv

LEMMA RestartKeeps == ASSUME PresenceInv, Restart PROVE PresenceInv'
<1>1. pendingDisconnects' = {}
  BY DEF Restart, Idle!IdleRestart
<1>2. responses' \in [Responses -> Hub!ResponseState] /\ \A r \in Responses : responses'[r].status = "free"
  BY FreeType DEF Restart, Hub!HubRestart
<1>3. userConnections' \in [Users -> Subjects \cup {None}]
  BY DEF Restart, Hub!HubRestart, Hub!Restored
<1> QED BY <1>1, <1>2, <1>3 DEF PresenceInv, GraceOnlyWhenOffline

LEMMA PresenceNextKeeps == PresenceInv /\ [Next]_vars => PresenceInv'
<1> SUFFICES ASSUME PresenceInv, [Next]_vars PROVE PresenceInv'
  OBVIOUS
<1>1. CASE MailStep
  <2>1. pendingDisconnects' \subseteq pendingDisconnects
    BY <1>1, MailKeepsGrace DEF MailStep
  <2>2. UNCHANGED <<userConnections, responses>>
    BY <1>1 DEF MailStep, sseVars
  <2> QED BY <2>1, <2>2 DEF PresenceInv, GraceOnlyWhenOffline
<1>2. CASE Cache \/ UNCHANGED vars
  <2>1. UNCHANGED <<userConnections, responses, pendingDisconnects>>
    BY <1>2 DEF Cache, Hub!PersistConnections, Hub!CacheStored, Hub!CacheFails, mailVars, sseVars, vars
  <2> QED BY <2>1 DEF PresenceInv, GraceOnlyWhenOffline
<1> QED BY <1>1, <1>2, FirstSubscribeKeeps, FurtherSubscribeKeeps, CloseKeeps, RestartKeeps DEF Next

\* Nobody who is back loses the mail connection to an old grace period
\* (handleUserConnected, handleUserDisconnected, subscribe).
THEOREM GraceOnlyOffline == Spec => []GraceOnlyWhenOffline
<1>1. PresenceInv => GraceOnlyWhenOffline
  BY DEF PresenceInv
<1> QED BY <1>1, PresenceInitially, PresenceNextKeeps, PTL DEF Spec
-----------------------------------------------------------------------------
(***************************************************************************)
(* Each of the two services behaves as its own specification says, so what *)
(* is proved of one alone holds of both together.  The close handler emits *)
(* its event for a username, which PresenceInv says is a user.             *)
(***************************************************************************)

HubFacts == INSTANCE SseHubProofs
IdleFacts == INSTANCE MailIdleProofs

LEMMA HubStep ==
  ASSUME [Next]_vars
  PROVE  [Hub!HubNext]_(Hub!hubVars)
<1>1. ASSUME NEW r \in Responses, NEW u \in Users, FirstSubscribe(r, u) \/ FurtherSubscribe(r, u)
      PROVE  Hub!HubNext
  BY <1>1, Zenon DEF FirstSubscribe, FurtherSubscribe, Hub!HubNext
<1>2. ASSUME NEW r \in Responses, Close(r) PROVE Hub!HubNext
  BY <1>2, Zenon DEF Close, Hub!HubNext
<1>3. CASE Cache \/ Restart
  BY <1>3, Zenon DEF Cache, Restart, Hub!HubNext
<1>4. CASE MailStep \/ UNCHANGED vars
  BY <1>4 DEF MailStep, vars, sseVars, Hub!hubVars
<1> QED BY <1>1, <1>2, <1>3, <1>4, Zenon DEF Next

LEMMA IdleStep ==
  ASSUME PresenceInv, [Next]_vars
  PROVE  [Idle!IdleNext]_(Idle!idleVars)
<1>1. ASSUME NEW r \in Responses, NEW u \in Users, FirstSubscribe(r, u) PROVE Idle!IdleNext
  BY <1>1, Zenon DEF FirstSubscribe, Idle!IdleNext
<1>2. ASSUME NEW r \in Responses, NEW u \in Users, FurtherSubscribe(r, u) PROVE UNCHANGED Idle!idleVars
  BY <1>2 DEF FurtherSubscribe, mailVars, Idle!idleVars
<1>3. ASSUME NEW r \in Responses, Close(r) PROVE Idle!IdleNext
  <2>1. responses[r].username \in Users
    BY <1>3 DEF Close, Hub!ResponseClosed, PresenceInv
  <2> QED BY <1>3, <2>1, Zenon DEF Close, Idle!IdleNext
<1>4. CASE MailStep \/ Restart
  BY <1>4, Zenon DEF MailStep, Restart, Idle!IdleNext
<1>5. CASE Cache \/ UNCHANGED vars
  BY <1>5 DEF Cache, vars, mailVars, Idle!idleVars
<1> QED BY <1>1, <1>2, <1>3, <1>4, <1>5, Zenon DEF Next

\* SseService and MailIdleService, joined by their events, each behave as they are
\* specified alone (handleUserConnected and handleUserDisconnected within subscribe).
THEOREM PresenceComposes == Spec => Hub!HubSpec /\ Idle!IdleSpec
<1>1. Init => Hub!HubInit /\ Idle!IdleInit
  BY DEF Init
<1>2. [Next]_vars => [Hub!HubNext]_(Hub!hubVars)
  BY HubStep
<1>3. PresenceInv /\ [Next]_vars => [Idle!IdleNext]_(Idle!idleVars)
  BY IdleStep
<1> QED BY <1>1, <1>2, <1>3, PresenceInitially, PresenceNextKeeps, PTL
        DEF Spec, Hub!HubSpec, Idle!IdleSpec

\* The services as the proofs about them name them.
LEMMA SameHub ==
  /\ Hub!HubInit <=> HubFacts!HubInit
  /\ Hub!HubNext <=> HubFacts!HubNext
  /\ Hub!hubVars = HubFacts!hubVars
  /\ Hub!MappedSubjectsLive <=> HubFacts!MappedSubjectsLive
  /\ Hub!SubjectsPrivate <=> HubFacts!SubjectsPrivate
  /\ Hub!CacheCatchesUp <=> HubFacts!CacheCatchesUp
BY DEF Hub!HubInit, HubFacts!HubInit, Hub!HubNext, HubFacts!HubNext,
       Hub!hubVars, HubFacts!hubVars, Hub!SubscribeNew, HubFacts!SubscribeNew,
       Hub!SubscribeShared, HubFacts!SubscribeShared,
       Hub!ResponseClosed, HubFacts!ResponseClosed,
       Hub!PersistConnections, HubFacts!PersistConnections,
       Hub!CacheStored, HubFacts!CacheStored, Hub!CacheFails, HubFacts!CacheFails,
       Hub!HubRestart, HubFacts!HubRestart,
       Hub!FreeResponse, HubFacts!FreeResponse, Hub!Unreferenced, HubFacts!Unreferenced,
       Hub!DropConnection, HubFacts!DropConnection,
       Hub!PersistAfterClose, HubFacts!PersistAfterClose, Hub!Online, HubFacts!Online,
       Hub!Restored, HubFacts!Restored, Hub!MappedSubjectsLive, HubFacts!MappedSubjectsLive,
       Hub!SubjectsPrivate, HubFacts!SubjectsPrivate,
       Hub!CacheCatchesUp, HubFacts!CacheCatchesUp

LEMMA SameIdle ==
  /\ Idle!IdleInit <=> IdleFacts!IdleInit
  /\ Idle!IdleNext <=> IdleFacts!IdleNext
  /\ Idle!idleVars = IdleFacts!idleVars
  /\ Idle!MappedConnectionsRenewed <=> IdleFacts!MappedConnectionsRenewed
<1>1. ASSUME NEW u \in Users
      PROVE  /\ Idle!StartIdle(u) <=> IdleFacts!StartIdle(u)
             /\ Idle!ReconnectTimer(u) <=> IdleFacts!ReconnectTimer(u)
  <2>1. \A k : Idle!CreateIdleConnection(u, k, imap) <=> IdleFacts!CreateIdleConnection(u, k, imap)
    <3>1. \A k : Idle!StartConnecting(u, k, imap) <=> IdleFacts!StartConnecting(u, k, imap)
      BY DEF Idle!StartConnecting, IdleFacts!StartConnecting, Idle!NewImap, IdleFacts!NewImap,
             Idle!FreeImap, IdleFacts!FreeImap
    <3>2. \A c, k : Idle!Stopped(c, "create", k) = IdleFacts!Stopped(c, "create", k)
      BY DEF Idle!Stopped, IdleFacts!Stopped
    <3>3. Idle!CancelPendingReconnect(u) = IdleFacts!CancelPendingReconnect(u)
      BY DEF Idle!CancelPendingReconnect, IdleFacts!CancelPendingReconnect
    <3> QED BY <3>1, <3>2, <3>3, Zenon DEF Idle!CreateIdleConnection, IdleFacts!CreateIdleConnection
  <2>2. Idle!Connected = IdleFacts!Connected
    BY DEF Idle!Connected, IdleFacts!Connected
  <2>3. Idle!StartIdle(u) <=> IdleFacts!StartIdle(u)
    <3>1. Idle!CreateIdleConnection(u, 0, imap) <=> IdleFacts!CreateIdleConnection(u, 0, imap)
      BY <2>1
    <3>2. Idle!Cardinality(Idle!Connected) = IdleFacts!Cardinality(IdleFacts!Connected)
      BY <2>2 DEF Idle!Cardinality, IdleFacts!Cardinality
    <3> QED BY <3>1, <3>2, Zenon DEF Idle!StartIdle, IdleFacts!StartIdle
  <2>4. Idle!ReconnectTimer(u) <=> IdleFacts!ReconnectTimer(u)
    BY <2>1, Zenon DEF Idle!ReconnectTimer, IdleFacts!ReconnectTimer
  <2> QED BY <2>3, <2>4
<1>2. ASSUME NEW u \in Users
      PROVE  /\ Idle!GraceExpires(u) <=> IdleFacts!GraceExpires(u)
             /\ Idle!HandleUserDisconnected(u) <=> IdleFacts!HandleUserDisconnected(u)
             /\ Idle!HandleUserConnected(u) <=> IdleFacts!HandleUserConnected(u)
  BY DEF Idle!GraceExpires, IdleFacts!GraceExpires,
         Idle!HandleUserDisconnected, IdleFacts!HandleUserDisconnected,
         Idle!HandleUserConnected, IdleFacts!HandleUserConnected,
         Idle!CancelGrace, IdleFacts!CancelGrace, Idle!Stopped, IdleFacts!Stopped,
         Idle!CancelPendingReconnect, IdleFacts!CancelPendingReconnect
<1>3. ASSUME NEW c \in Imap
      PROVE  /\ Idle!ConnectSucceeds(c) <=> IdleFacts!ConnectSucceeds(c)
             /\ Idle!ConnectFails(c) <=> IdleFacts!ConnectFails(c)
             /\ Idle!IdleTimer(c) <=> IdleFacts!IdleTimer(c)
  BY DEF Idle!ConnectSucceeds, IdleFacts!ConnectSucceeds,
         Idle!ConnectFails, IdleFacts!ConnectFails, Idle!NextAttempt, IdleFacts!NextAttempt,
         Idle!IdleTimer, IdleFacts!IdleTimer, Idle!Stopped, IdleFacts!Stopped,
         Idle!FreeImap, IdleFacts!FreeImap
<1>4. ASSUME NEW c \in Imap
      PROVE  /\ Idle!ErrorWhileConnecting(c) <=> IdleFacts!ErrorWhileConnecting(c)
             /\ Idle!ConnectionError(c) <=> IdleFacts!ConnectionError(c)
  BY DEF Idle!ErrorWhileConnecting, IdleFacts!ErrorWhileConnecting,
         Idle!ConnectionError, IdleFacts!ConnectionError,
         Idle!HandleConnectionError, IdleFacts!HandleConnectionError,
         Idle!Stopped, IdleFacts!Stopped, Idle!Released, IdleFacts!Released,
         Idle!FreeImap, IdleFacts!FreeImap
<1>5. ASSUME NEW c \in Imap
      PROVE  Idle!CleanedUp(c) <=> IdleFacts!CleanedUp(c)
  BY DEF Idle!CleanedUp, IdleFacts!CleanedUp, Idle!Released, IdleFacts!Released,
         Idle!ScheduleReconnect, IdleFacts!ScheduleReconnect,
         Idle!CreateIdleConnection, IdleFacts!CreateIdleConnection,
         Idle!StartConnecting, IdleFacts!StartConnecting, Idle!NewImap, IdleFacts!NewImap,
         Idle!Stopped, IdleFacts!Stopped,
         Idle!CancelPendingReconnect, IdleFacts!CancelPendingReconnect,
         Idle!FreeImap, IdleFacts!FreeImap
<1>6. Idle!IdleRestart <=> IdleFacts!IdleRestart
  BY DEF Idle!IdleRestart, IdleFacts!IdleRestart, Idle!FreeImap, IdleFacts!FreeImap
<1>7. Idle!IdleStep <=> IdleFacts!IdleStep
  BY <1>1, <1>2, <1>3, <1>4, <1>5, Zenon DEF Idle!IdleStep, IdleFacts!IdleStep
<1>8. Idle!IdleNext <=> IdleFacts!IdleNext
  BY <1>2, <1>6, <1>7, Zenon DEF Idle!IdleNext, IdleFacts!IdleNext
<1>9. /\ Idle!IdleInit <=> IdleFacts!IdleInit
      /\ Idle!idleVars = IdleFacts!idleVars
      /\ Idle!MappedConnectionsRenewed <=> IdleFacts!MappedConnectionsRenewed
  BY DEF Idle!IdleInit, IdleFacts!IdleInit, Idle!idleVars, IdleFacts!idleVars,
         Idle!MappedConnectionsRenewed, IdleFacts!MappedConnectionsRenewed,
         Idle!FreeImap, IdleFacts!FreeImap
<1> QED BY <1>8, <1>9

\* Together the services keep what they keep alone: nobody subscribes to a completed
\* Subject or gets the events of another, and only a rejected write keeps a change of
\* the map from the cache
\* (SseService with the handlers of MailIdleService in its calls).
THEOREM PresenceKeepsHub ==
  Spec => []Hub!MappedSubjectsLive /\ []Hub!SubjectsPrivate /\ []Hub!CacheCatchesUp
<1>1. HubFacts!HubSpec => /\ []HubFacts!MappedSubjectsLive
                          /\ []HubFacts!SubjectsPrivate
                          /\ []HubFacts!CacheCatchesUp
  BY PresenceAssumption, HubFacts!SubjectsStayLive, HubFacts!SubjectsStayPrivate,
     HubFacts!ChangesReachCache DEF HubFacts!HubAssumption
<1>2. Hub!HubSpec => HubFacts!HubSpec
  <2>1. [Hub!HubNext]_(Hub!hubVars) => [HubFacts!HubNext]_(HubFacts!hubVars)
    BY SameHub DEF Hub!hubVars, HubFacts!hubVars
  <2> QED BY <2>1, SameHub, PTL DEF Hub!HubSpec, HubFacts!HubSpec
<1> QED BY <1>1, <1>2, SameHub, PresenceComposes, PTL

\* And a user's mail connection is not being closed and has its idle timer armed, and
\* leaves the map only by being closed or replaced by one that overlapped, whenever
\* streams come and go (createIdleConnection, stopIdle, handleUserDisconnected).
THEOREM PresenceKeepsIdle == Spec => []Idle!MappedConnectionsRenewed /\ Idle!LeakedOnlyByOverlap
<1>1. IdleFacts!IdleSpec => []IdleFacts!MappedConnectionsRenewed /\ IdleFacts!LeakedOnlyByOverlap
  BY PresenceAssumption, IdleFacts!MappedStayRenewed, IdleFacts!LeaksNeedOverlap
     DEF IdleFacts!IdleAssumption
<1>2. IdleFacts!LeakedOnlyByOverlap => Idle!LeakedOnlyByOverlap
  BY DEF Idle!LeakedOnlyByOverlap, IdleFacts!LeakedOnlyByOverlap, Idle!idleVars, IdleFacts!idleVars
<1>3. Idle!IdleSpec => IdleFacts!IdleSpec
  <2>1. [Idle!IdleNext]_(Idle!idleVars) => [IdleFacts!IdleNext]_(IdleFacts!idleVars)
    BY SameIdle DEF Idle!idleVars, IdleFacts!idleVars
  <2> QED BY <2>1, SameIdle, PTL DEF Idle!IdleSpec, IdleFacts!IdleSpec
<1> QED BY <1>1, <1>2, <1>3, SameIdle, PresenceComposes, PTL
=============================================================================
