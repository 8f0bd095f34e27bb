----------------------------- MODULE SseHubProofs -----------------------------
(***************************************************************************)
(* The Subjects in the map are live and belong to one username each, for   *)
(* any number of usernames, responses and restarts.  Liveness of a mapped  *)
(* Subject needs privacy: the close handler completes the Subject of the   *)
(* response and drops the entry of its username, so a Subject mapped for   *)
(* somebody else as well would stay in the map completed.                  *)
(***************************************************************************)
EXTENDS SseHub, TLAPS

HubInv == HubTypeOK /\ MappedSubjectsLive /\ SubjectsPrivate

OpenResponse(u, s) == [status |-> "open", username |-> u, subject |-> s]

LEMMA FreeResponseType == FreeResponse \in ResponseState
BY DEF FreeResponse, ResponseState

\* Only the live part of the types matters for who holds which Subject.
LEMMA HubInitially == HubInit => HubInv
<1> SUFFICES ASSUME HubInit PROVE HubInv
  OBVIOUS
<1>1. \A r \in Responses : responses[r].status = "free" /\ responses[r].subject = None
  BY DEF HubInit, FreeResponse
<1>2. HubTypeOK
  <2>1. restarts \in 0..MaxRestarts
    BY HubAssumption DEF HubInit
  <2>2. responses \in [Responses -> ResponseState]
    BY FreeResponseType DEF HubInit
  <2>3. userConnections \in [Users -> Subjects \cup {None}]
    BY DEF HubInit
  <2>4. completed = {} /\ cached = {} /\ persistTimer = FALSE /\ writes = {} /\ unsaved = FALSE
    BY DEF HubInit
  <2> QED BY <1>1, <2>1, <2>2, <2>3, <2>4, Zenon DEF HubTypeOK
<1>3. MappedSubjectsLive /\ SubjectsPrivate
  BY <1>1, HubAssumption DEF HubInit, MappedSubjectsLive, SubjectsPrivate
<1> QED BY <1>2, <1>3 DEF HubInv

\* Response r joins Subject s of username u, which nobody else has.
Joins(r, u, s) ==
  /\ responses' = [responses EXCEPT ![r] = OpenResponse(u, s)]
  /\ userConnections'[u] = s
  /\ \A v \in Users \ {u} : userConnections'[v] = userConnections[v] /\ userConnections[v] # s
  /\ \A q \in Responses \ {r} : responses[q].status # "free" =>
       (userConnections'[u] = responses[q].subject => responses[q].username = u)

\* A response that joins the Subject mapped for its username keeps the invariant.
LEMMA JoinKeeps ==
  ASSUME HubInv, NEW r \in Responses, NEW u \in Users, NEW s \in Subjects, Joins(r, u, s)
  PROVE  /\ responses' \in [Responses -> ResponseState]
         /\ \A q \in Responses : responses'[q].status # "free" =>
              responses'[q].username \in Users /\ responses'[q].subject \in Subjects
         /\ SubjectsPrivate'
<1> USE DEF Joins
<1>1. OpenResponse(u, s) \in ResponseState
  BY DEF ResponseState, OpenResponse
<1>2. responses' \in [Responses -> ResponseState]
  BY <1>1 DEF HubInv, HubTypeOK
<1>3. responses'[r] = OpenResponse(u, s)
  BY DEF HubInv, HubTypeOK
<1>4. \A q \in Responses \ {r} : responses'[q] = responses[q]
  BY DEF HubInv, HubTypeOK
<1>5. \A q \in Responses : responses'[q].status # "free" =>
        responses'[q].username \in Users /\ responses'[q].subject \in Subjects
  BY <1>3, <1>4 DEF HubInv, HubTypeOK, OpenResponse
<1>6. \A v, w \in Users : (userConnections'[v] # None /\ v # w) => userConnections'[v] # userConnections'[w]
  BY DEF HubInv, SubjectsPrivate
<1>7. ASSUME NEW q \in Responses, NEW v \in Users, responses'[q].status # "free",
             userConnections'[v] = responses'[q].subject
      PROVE  responses'[q].username = v
  <2>1. CASE q = r
    BY <2>1, <1>3, <1>7 DEF OpenResponse
  <2>2. CASE q # r
    BY <2>2, <1>4, <1>7 DEF HubInv, SubjectsPrivate
  <2> QED BY <2>1, <2>2
<1> QED BY <1>2, <1>5, <1>6, <1>7 DEF SubjectsPrivate

LEMMA SubscribeNewKeeps ==
  ASSUME HubInv, NEW r \in Responses, NEW u \in Users, SubscribeNew(r, u)
  PROVE  HubInv'
<1>1. PICK s \in Subjects :
        /\ Unreferenced(s)
        /\ userConnections' = [userConnections EXCEPT ![u] = s]
        /\ completed' = completed \ {s}
        /\ responses' = [responses EXCEPT ![r] = OpenResponse(u, s)]
  BY DEF SubscribeNew, OpenResponse
<1>2. userConnections'[u] = s /\ \A v \in Users \ {u} : userConnections'[v] = userConnections[v]
  BY <1>1 DEF HubInv, HubTypeOK
<1>3. (\A v \in Users : userConnections[v] # s) /\ (\A q \in Responses : responses[q].subject # s)
  BY <1>1 DEF Unreferenced
<1>4. /\ responses' \in [Responses -> ResponseState]
      /\ \A q \in Responses : responses'[q].status # "free" =>
           responses'[q].username \in Users /\ responses'[q].subject \in Subjects
      /\ SubjectsPrivate'
  <2>1. \A v \in Users \ {u} : userConnections'[v] = userConnections[v] /\ userConnections[v] # s
    BY <1>2, <1>3
  <2>2. \A q \in Responses \ {r} : responses[q].status # "free" =>
          (userConnections'[u] = responses[q].subject => responses[q].username = u)
    BY <1>2, <1>3
  <2>3. userConnections'[u] = s /\ responses' = [responses EXCEPT ![r] = OpenResponse(u, s)]
    BY <1>1, <1>2
  <2>4. Joins(r, u, s)
    BY <2>1, <2>2, <2>3 DEF Joins
  <2> QED BY <2>4, JoinKeeps
<1>5. HubTypeOK'
  BY <1>1, <1>4 DEF SubscribeNew, HubInv, HubTypeOK
<1>6. MappedSubjectsLive'
  BY <1>1, <1>2 DEF HubInv, MappedSubjectsLive
<1> QED BY <1>4, <1>5, <1>6 DEF HubInv

LEMMA SubscribeSharedKeeps ==
  ASSUME HubInv, NEW r \in Responses, NEW u \in Users, SubscribeShared(r, u)
  PROVE  HubInv'
<1>1. PICK s \in Subjects : s = userConnections[u]
  BY DEF SubscribeShared, HubInv, HubTypeOK
<1>2. s \notin completed
  BY <1>1 DEF SubscribeShared, HubInv, MappedSubjectsLive
<1>3. responses' = [responses EXCEPT ![r] = OpenResponse(u, s)]
  BY <1>1, <1>2 DEF SubscribeShared, OpenResponse
<1>4. userConnections' = userConnections /\ completed' = completed
  BY DEF SubscribeShared
<1>5. \A v \in Users \ {u} : userConnections[v] # s
  BY <1>1, HubAssumption DEF HubInv, SubjectsPrivate
<1>6. \A q \in Responses : responses[q].status # "free" =>
        (s = responses[q].subject => responses[q].username = u)
  BY <1>1 DEF HubInv, SubjectsPrivate
<1>7. /\ responses' \in [Responses -> ResponseState]
      /\ \A q \in Responses : responses'[q].status # "free" =>
           responses'[q].username \in Users /\ responses'[q].subject \in Subjects
      /\ SubjectsPrivate'
  <2>1. \A v \in Users \ {u} : userConnections'[v] = userConnections[v] /\ userConnections[v] # s
    BY <1>4, <1>5
  <2>2. \A q \in Responses \ {r} : responses[q].status # "free" =>
          (userConnections'[u] = responses[q].subject => responses[q].username = u)
    BY <1>1, <1>4, <1>6
  <2>3. userConnections'[u] = s
    BY <1>1, <1>4
  <2>4. Joins(r, u, s)
    BY <1>3, <2>1, <2>2, <2>3 DEF Joins
  <2> QED BY <2>4, JoinKeeps
<1>8. HubTypeOK'
  BY <1>4, <1>7 DEF SubscribeShared, HubInv, HubTypeOK
<1>9. MappedSubjectsLive'
  BY <1>4 DEF HubInv, MappedSubjectsLive
<1> QED BY <1>7, <1>8, <1>9 DEF HubInv

\* The responses after a close keep their username and Subject, or are free.
LEMMA ResponseClosedKeeps ==
  ASSUME HubInv, NEW r \in Responses, ResponseClosed(r)
  PROVE  HubInv'
<1>1. PICK s \in Subjects, u \in Users : s = responses[r].subject /\ u = responses[r].username
  BY DEF ResponseClosed, HubInv, HubTypeOK
<1>2. /\ userConnections' = [userConnections EXCEPT ![u] = None]
      /\ completed' = completed \cup {s}
      /\ responses' = [q \in Responses |->
           IF q = r THEN FreeResponse
           ELSE IF responses[q].status = "open" /\ responses[q].subject = s
                THEN [responses[q] EXCEPT !.status = "ended"] ELSE responses[q]]
  BY <1>1 DEF ResponseClosed, DropConnection
<1>3. userConnections' \in [Users -> Subjects \cup {None}]
  BY <1>2 DEF HubInv, HubTypeOK
<1>4. \A v \in Users : userConnections'[v] # None => v # u /\ userConnections'[v] = userConnections[v]
  BY <1>2 DEF HubInv, HubTypeOK
<1>5. ASSUME NEW q \in Responses
      PROVE  /\ responses'[q] \in ResponseState
             /\ responses'[q].status # "free" =>
                  /\ responses[q].status # "free"
                  /\ responses'[q].username = responses[q].username
                  /\ responses'[q].subject = responses[q].subject
  <2>1. responses[q] \in ResponseState
    BY DEF HubInv, HubTypeOK
  <2>2. CASE q = r
    BY <2>2, <1>2, FreeResponseType DEF FreeResponse
  <2>3. CASE q # r /\ responses[q].status = "open" /\ responses[q].subject = s
    <3>1. responses'[q] = [responses[q] EXCEPT !.status = "ended"]
      BY <2>3, <1>2
    <3> QED BY <3>1, <2>1, <2>3 DEF ResponseState
  <2>4. CASE q # r /\ ~(responses[q].status = "open" /\ responses[q].subject = s)
    BY <2>1, <2>4, <1>2
  <2> QED BY <2>2, <2>3, <2>4
<1>6. responses' \in [Responses -> ResponseState]
  BY <1>2, <1>5
<1>7. HubTypeOK'
  BY <1>1, <1>2, <1>3, <1>5, <1>6 DEF ResponseClosed, PersistAfterClose, HubInv, HubTypeOK
<1>8. MappedSubjectsLive'
  BY <1>1, <1>2, <1>4 DEF ResponseClosed, HubInv, MappedSubjectsLive, SubjectsPrivate
<1>9. SubjectsPrivate'
  <2>1. \A v, w \in Users : (userConnections'[v] # None /\ v # w) => userConnections'[v] # userConnections'[w]
    BY <1>4 DEF HubInv, SubjectsPrivate
  <2>2. \A q \in Responses, v \in Users :
          (responses'[q].status # "free" /\ userConnections'[v] = responses'[q].subject)
            => responses'[q].username = v
    <3>1. \A q \in Responses : responses'[q].status # "free" => responses'[q].subject # None
      BY <1>5, HubAssumption DEF HubInv, HubTypeOK
    <3> QED BY <3>1, <1>4, <1>5 DEF HubInv, SubjectsPrivate
  <2> QED BY <2>1, <2>2 DEF SubjectsPrivate
<1> QED BY <1>7, <1>8, <1>9 DEF HubInv

LEMMA HubRestartKeeps ==
  ASSUME HubInv, HubRestart
  PROVE  HubInv'
<1>1. \A r \in Responses : responses'[r].status = "free"
  BY DEF HubRestart, FreeResponse
<1>2. /\ userConnections' \in [Users -> Subjects \cup {None}]
      /\ \A u \in Users : userConnections'[u] # None <=> u \in cached
      /\ \A u, v \in cached : u # v => userConnections'[u] # userConnections'[v]
  BY DEF HubRestart, Restored
<1>3. HubTypeOK'
  <2>1. restarts' \in 0..MaxRestarts
    BY HubAssumption DEF HubRestart, HubInv, HubTypeOK
  <2>2. responses' \in [Responses -> ResponseState]
    BY FreeResponseType DEF HubRestart
  <2>3. /\ completed' = {} /\ cached' \in SUBSET Users
        /\ persistTimer' = FALSE /\ writes' = {} /\ unsaved' = FALSE
    BY DEF HubRestart, HubInv, HubTypeOK
  <2> QED BY <1>1, <1>2, <2>1, <2>2, <2>3, Zenon DEF HubTypeOK
<1>4. MappedSubjectsLive' /\ SubjectsPrivate'
  BY <1>1, <1>2 DEF HubRestart, MappedSubjectsLive, SubjectsPrivate
<1> QED BY <1>3, <1>4 DEF HubInv

LEMMA CacheKeeps ==
  ASSUME HubInv, PersistConnections \/ CacheStored \/ CacheFails \/ UNCHANGED hubVars
  PROVE  HubInv'
<1>1. UNCHANGED <<userConnections, completed, responses>>
  BY DEF PersistConnections, CacheStored, CacheFails, hubVars
<1>2. HubTypeOK'
  BY <1>1 DEF PersistConnections, CacheStored, CacheFails, hubVars, Online, HubInv, HubTypeOK
<1>3. MappedSubjectsLive' /\ SubjectsPrivate'
  BY <1>1 DEF HubInv, MappedSubjectsLive, SubjectsPrivate
<1> QED BY <1>2, <1>3 DEF HubInv

LEMMA HubNextKeeps == HubInv /\ [HubNext]_hubVars => HubInv'
BY SubscribeNewKeeps, SubscribeSharedKeeps, ResponseClosedKeeps, HubRestartKeeps, CacheKeeps DEF HubNext

\* The map, the responses and the cache keep their types (SseService).
THEOREM HubTypeCorrect == HubSpec => []HubTypeOK
<1>1. HubInv => HubTypeOK
  BY DEF HubInv
<1> QED BY <1>1, HubInitially, HubNextKeeps, PTL DEF HubSpec

\* Nobody ever subscribes to a completed Subject (subscribe, close handler).
THEOREM SubjectsStayLive == HubSpec => []MappedSubjectsLive
<1>1. HubInv => MappedSubjectsLive
  BY DEF HubInv
<1> QED BY <1>1, HubInitially, HubNextKeeps, PTL DEF HubSpec

\* Events for one username never reach a response of another (subscribe).
THEOREM SubjectsStayPrivate == HubSpec => []SubjectsPrivate
<1>1. HubInv => SubjectsPrivate
  BY DEF HubInv
<1> QED BY <1>1, HubInitially, HubNextKeeps, PTL DEF HubSpec

-----------------------------------------------------------------------------
(* The cache *)

\* CacheCatchesUp is not inductive alone: a write under way may be older than the
\* map, and then the timer must be armed for another one.
CacheInv ==
  /\ CacheCatchesUp
  /\ writes # {} /\ writes # {Online} => persistTimer

\* Every change of the map arms the timer.
LEMMA CacheNextKeeps == HubInv /\ CacheInv /\ [HubNext]_hubVars => CacheInv'
<1> SUFFICES ASSUME HubInv, CacheInv, [HubNext]_hubVars PROVE CacheInv'
  OBVIOUS
<1>1. CASE \E r \in Responses, u \in Users : SubscribeNew(r, u)
  BY <1>1 DEF SubscribeNew, CacheInv, CacheCatchesUp
<1>2. CASE (\E r \in Responses, u \in Users : SubscribeShared(r, u)) \/ UNCHANGED hubVars
  <2>1. UNCHANGED <<userConnections, cached, persistTimer, writes, unsaved>>
    BY <1>2 DEF SubscribeShared, hubVars
  <2> QED BY <2>1 DEF CacheInv, CacheCatchesUp, Online
<1>3. CASE \E r \in Responses : ResponseClosed(r)
  BY <1>3 DEF ResponseClosed, PersistAfterClose, CacheInv, CacheCatchesUp
<1>4. CASE PersistConnections
  <2>1. writes' = {Online} /\ Online' = Online
    BY <1>4 DEF PersistConnections, Online
  <2> QED BY <2>1 DEF CacheInv, CacheCatchesUp
<1>5. CASE CacheStored
  <2>1. Online' = Online /\ persistTimer' = persistTimer /\ unsaved' = unsaved /\ writes' = {}
    BY <1>5 DEF CacheStored, Online
  <2>2. PICK usernames \in writes : cached' = usernames
    BY <1>5 DEF CacheStored
  <2>3. writes = {Online} => cached' = Online
    BY <2>2
  <2> QED BY <2>1, <2>2, <2>3 DEF CacheInv, CacheCatchesUp
<1>6. CASE HubRestart
  <2>1. Online' = cached
    BY <1>6 DEF HubRestart, Restored, Online, HubInv, HubTypeOK
  <2>2. cached' = cached /\ writes' = {}
    BY <1>6 DEF HubRestart
  <2> QED BY <2>1, <2>2 DEF CacheInv, CacheCatchesUp
<1>7. CASE CacheFails
  BY <1>7 DEF CacheFails, CacheInv, CacheCatchesUp
<1> QED BY <1>1, <1>2, <1>3, <1>4, <1>5, <1>6, <1>7 DEF HubNext

\* Only a rejected write keeps a change of the map from the cache: without one the
\* timer or a write of the map as it is now is still to come, whatever subscribes,
\* closes and restarts came in between (debouncedPersistUserConnectionsToCache,
\* persistUserConnectionsToCache).
THEOREM ChangesReachCache == HubSpec => []CacheCatchesUp
<1>1. HubInit => CacheInv
  BY DEF HubInit, Online, CacheInv, CacheCatchesUp
<1>2. CacheInv => CacheCatchesUp
  BY DEF CacheInv
<1> QED BY <1>1, <1>2, HubInitially, HubNextKeeps, CacheNextKeeps, PTL DEF HubSpec
=============================================================================
