-------------------------------- MODULE SseHub --------------------------------
(***************************************************************************)
(* Server-sent events: SseService keeps one Subject per username, which    *)
(* all responses (browser tabs) of the user share.  When a response closes *)
(* its handler drops whatever Subject the username has now and completes   *)
(* its own, which ends the other responses on that Subject; their close    *)
(* events come later.  The usernames are written to the cache after a      *)
(* debounce and read back after a restart; a rejected write is not retried.*)
(*                                                                         *)
(* The username of a public stream is the meeting id or login session id.  *)
(***************************************************************************)
EXTENDS Naturals, FiniteSets

CONSTANTS
  Users,       \* keys of userConnections
  Responses,   \* open HTTP responses at a time (a bound)
  Subjects,    \* rxjs Subjects referred to at a time (a bound)
  MaxRestarts, \* bound on restarts of the API process
  None

ASSUME HubAssumption == None \notin Subjects /\ None \notin Users /\ MaxRestarts \in Nat

VARIABLES
  userConnections, \* username -> Subject, or None
  completed,       \* Subjects that were completed
  responses,       \* the responses of subscribe
  cached,          \* usernames stored under SSE_USER_CONNECTIONS_CACHE_KEY
  persistTimer,    \* persistDebounceTimer is armed
  writes,          \* the cacheManager.set call awaited: what it stores, or nothing
  unsaved,         \* the last cacheManager.set was rejected (history)
  restarts         \* restarts so far

hubVars == <<userConnections, completed, responses, cached, persistTimer, writes, unsaved, restarts>>

-----------------------------------------------------------------------------
(* Types.  "free" names no response; "ended": the Subject completed and the  *)
(* close event of the response is still to come.                             *)

ResponseState == [status: {"free", "open", "ended"},
                  username: Users \cup {None},
                  subject: Subjects \cup {None}]

FreeResponse == [status |-> "free", username |-> None, subject |-> None]

HubTypeOK ==
  /\ userConnections \in [Users -> Subjects \cup {None}]
  /\ completed \in SUBSET Subjects
  /\ responses \in [Responses -> ResponseState]
  /\ cached \in SUBSET Users
  /\ persistTimer \in BOOLEAN
  /\ writes \subseteq SUBSET Users
  /\ unsaved \in BOOLEAN
  /\ restarts \in 0..MaxRestarts
  /\ \A r \in Responses : responses[r].status # "free" =>
       responses[r].username \in Users /\ responses[r].subject \in Subjects

-----------------------------------------------------------------------------
(* Helpers *)

Online == {u \in Users : userConnections[u] # None}

Unreferenced(s) ==
  /\ \A u \in Users : userConnections[u] # s
  /\ \A r \in Responses : responses[r].subject # s

HubInit ==
  /\ userConnections = [u \in Users |-> None]
  /\ completed = {}
  /\ responses = [r \in Responses |-> FreeResponse]
  /\ cached = {}
  /\ persistTimer = FALSE
  /\ writes = {}
  /\ unsaved = FALSE
  /\ restarts = 0

-----------------------------------------------------------------------------
(* Operations *)

\* subscribe for a username that has no Subject: SSE_USER_CONNECTED is emitted.
SubscribeNew(r, u) ==
  /\ responses[r].status = "free"
  /\ userConnections[u] = None
  /\ \E s \in Subjects :
       /\ Unreferenced(s)
       /\ userConnections' = [userConnections EXCEPT ![u] = s]
       /\ completed' = completed \ {s}
       /\ responses' = [responses EXCEPT ![r] = [status |-> "open", username |-> u, subject |-> s]]
  /\ persistTimer' = TRUE
  /\ UNCHANGED <<cached, writes, unsaved, restarts>>

\* Faulty variant: the Subject of the username is used without a look whether it exists.
SubscribeSharedUnchecked(r, u) ==
  /\ responses[r].status = "free"
  /\ responses' = [responses EXCEPT
       ![r] = [status |-> "open", username |-> u, subject |-> userConnections[u]]]
  /\ UNCHANGED <<userConnections, completed, cached, persistTimer, writes, unsaved, restarts>>

\* subscribe for a username that has one, live or restored: nothing is emitted.
\* A Subject that was completed would end the response at once.
SubscribeShared(r, u) ==
  LET s == userConnections[u] IN
  /\ responses[r].status = "free"
  /\ s # None
  /\ responses' = [responses EXCEPT
       ![r] = [status |-> IF s \in completed THEN "ended" ELSE "open", username |-> u, subject |-> s]]
  /\ UNCHANGED <<userConnections, completed, cached, persistTimer, writes, unsaved, restarts>>

\* Faulty variant: the entry is kept while another response uses the Subject.
DropConnectionIfLast(r) ==
  IF \E q \in Responses \ {r} : responses[q].subject = responses[r].subject
  THEN userConnections
  ELSE [userConnections EXCEPT ![responses[r].username] = None]

\* The map after userConnections.delete in the close handler of r.
DropConnection(r) == [userConnections EXCEPT ![responses[r].username] = None]

\* Faulty variant: the change of the map is not persisted.
PersistAfterCloseForgotten == persistTimer

\* debouncedPersistUserConnectionsToCache of the close handler.
PersistAfterClose == TRUE

\* The close handler of a response, after the client went away ("open") or
\* after the server ended it ("ended"): SSE_USER_DISCONNECTED is emitted.
ResponseClosed(r) ==
  LET s == responses[r].subject IN
  /\ responses[r].status # "free"
  /\ userConnections' = DropConnection(r)
  /\ completed' = completed \cup {s}
  /\ responses' = [q \in Responses |->
       IF q = r THEN FreeResponse
       ELSE IF responses[q].status = "open" /\ responses[q].subject = s
            THEN [responses[q] EXCEPT !.status = "ended"]
            ELSE responses[q]]
  /\ persistTimer' = PersistAfterClose
  /\ UNCHANGED <<cached, writes, unsaved, restarts>>

\* The debounce timer fires: the usernames of this moment are sent to the cache.
PersistConnections ==
  /\ persistTimer
  /\ persistTimer' = FALSE
  /\ writes' = {Online}
  /\ unsaved' = FALSE
  /\ UNCHANGED <<userConnections, completed, responses, cached, restarts>>

\* The cache stores what was sent; the timers are two seconds apart, so a
\* write that a later one overtakes is not awaited any more.
CacheStored ==
  /\ \E usernames \in writes : cached' = usernames
  /\ writes' = {}
  /\ UNCHANGED <<userConnections, completed, responses, persistTimer, unsaved, restarts>>

\* cacheManager.set is rejected, whether the cache stored the value or not.  It
\* was called with `void`: nothing is retried.  (Node ends the process on the
\* unhandled rejection, which is a HubRestart; here it may also go on.)
CacheFails ==
  /\ writes # {}
  /\ cached' \in writes \cup {cached}
  /\ writes' = {}
  /\ unsaved' = TRUE
  /\ UNCHANGED <<userConnections, completed, responses, persistTimer, restarts>>

\* Faulty variant: one Subject for all restored usernames.
RestoredShared ==
  {restored \in [Users -> Subjects \cup {None}] :
     \A u \in Users : restored[u] # None <=> u \in cached}

\* The maps restoreUserConnectionsFromCache may leave: a new Subject for each
\* username in the cache.
Restored ==
  {restored \in [Users -> Subjects \cup {None}] :
     /\ \A u \in Users : restored[u] # None <=> u \in cached
     /\ \A u, v \in cached : u # v => restored[u] # restored[v]}

\* The process restarts: every response is gone, and onModuleInit restores the
\* map before requests are served.
HubRestart ==
  /\ restarts < MaxRestarts
  /\ restarts' = restarts + 1
  /\ userConnections' \in Restored
  /\ completed' = {}
  /\ responses' = [r \in Responses |-> FreeResponse]
  /\ persistTimer' = FALSE
  /\ writes' = {}
  /\ unsaved' = FALSE
  /\ UNCHANGED cached

HubNext ==
  \/ \E r \in Responses, u \in Users : SubscribeNew(r, u) \/ SubscribeShared(r, u)
  \/ \E r \in Responses : ResponseClosed(r)
  \/ PersistConnections
  \/ CacheStored
  \/ CacheFails
  \/ HubRestart

HubSpec == HubInit /\ [][HubNext]_hubVars

-----------------------------------------------------------------------------
(* Properties *)

\* A Subject in the map is live: nobody can subscribe to a Subject that was
\* completed, which would end every response of that username at once, again and
\* again until the username is dropped (subscribe and the close handler).
MappedSubjectsLive ==
  \A u \in Users : userConnections[u] # None => userConnections[u] \notin completed

\* Two usernames never share a Subject: an event for one is not sent to the other.
SubjectsPrivate ==
  /\ \A u, v \in Users : (userConnections[u] # None /\ u # v) => userConnections[u] # userConnections[v]
  /\ \A r \in Responses, u \in Users :
       (responses[r].status # "free" /\ userConnections[u] = responses[r].subject)
         => responses[r].username = u

\* Whenever the cache does not hold the usernames of the map, the debounce
\* timer is armed or a write of just these usernames is under way, unless the
\* last write was rejected: then the cache stays behind until the map changes
\* again (persistUserConnectionsToCache, called with `void`).
CacheCatchesUp ==
  cached # Online => persistTimer \/ writes = {Online} \/ unsaved

\* sendEventToUser and informAllUsers reach every open response of a user.
AllSubscribedReached ==
  \A r \in Responses : responses[r].status = "open" =>
    userConnections[responses[r].username] = responses[r].subject
=============================================================================
