----------------------------- MODULE MailPresence -----------------------------
(***************************************************************************)
(* SseService and MailIdleService together: the event emitter calls        *)
(* MailIdleService's handlers within the SseService call that emits        *)
(* SSE_USER_CONNECTED or SSE_USER_DISCONNECTED, and both lose their state  *)
(* when the API process restarts.                                          *)
(***************************************************************************)
EXTENDS Naturals, FiniteSets

CONSTANTS
  Users, Responses, Subjects, MaxRestarts,      \* of SseHub
  Imap, MaxConnections, MaxReconnectAttempts,   \* of MailIdle
  None

ASSUME PresenceAssumption ==
  /\ None \notin Users /\ None \notin Subjects /\ None \notin Imap
  /\ MaxRestarts \in Nat /\ MaxConnections \in Nat /\ MaxReconnectAttempts \in Nat

VARIABLES
  userConnections, completed, responses, cached, persistTimer, writes, unsaved, restarts,
  idleConnections, imap, pendingReconnects, pendingDisconnects

Hub == INSTANCE SseHub
Idle == INSTANCE MailIdle

sseVars == <<userConnections, completed, responses, cached, persistTimer, writes, unsaved, restarts>>

mailVars == <<idleConnections, imap, pendingReconnects, pendingDisconnects>>

vars == <<sseVars, mailVars>>

Init == Hub!HubInit /\ Idle!IdleInit

\* The first response of a username: SSE_USER_CONNECTED is emitted.
FirstSubscribe(r, u) == Hub!SubscribeNew(r, u) /\ Idle!HandleUserConnected(u)

\* A further response of a username: nothing is emitted.
FurtherSubscribe(r, u) == Hub!SubscribeShared(r, u) /\ UNCHANGED mailVars

\* A response closes: SSE_USER_DISCONNECTED is emitted.
Close(r) == Hub!ResponseClosed(r) /\ Idle!HandleUserDisconnected(responses[r].username)

\* The cache of the user connections.
Cache == (Hub!PersistConnections \/ Hub!CacheStored \/ Hub!CacheFails) /\ UNCHANGED mailVars

\* A step of the mail connections alone.
MailStep == Idle!IdleStep /\ UNCHANGED sseVars

\* The API process restarts.
Restart == Hub!HubRestart /\ Idle!IdleRestart

Next ==
  \/ \E r \in Responses, u \in Users : FirstSubscribe(r, u) \/ FurtherSubscribe(r, u)
  \/ \E r \in Responses : Close(r)
  \/ Cache
  \/ MailStep
  \/ Restart

Spec == Init /\ [][Next]_vars

-----------------------------------------------------------------------------
(* Properties *)

\* A grace period runs only for a username without a Subject: somebody who came
\* back in time does not lose the mail connection, whatever the connection did
\* meanwhile (handleUserConnected, handleUserDisconnected, subscribe).
GraceOnlyWhenOffline ==
  \A u \in pendingDisconnects : userConnections[u] = None
=============================================================================
