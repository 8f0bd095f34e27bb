------------------------------- MODULE MailIdle -------------------------------
(***************************************************************************)
(* MailIdleService: one IMAP IDLE connection per user, kept in             *)
(* idleConnections, reconnected after errors with a bounded number of      *)
(* attempts, restarted before the server's idle timeout, and stopped a     *)
(* grace period after the user's event stream closed.                      *)
(*                                                                         *)
(* A step is one turn of the event loop.  An ImapFlow object carries what  *)
(* its caller will do once the awaited connect or logout is over.          *)
(***************************************************************************)
EXTENDS Naturals, FiniteSets

CONSTANTS
  Users,
  Imap,                   \* ImapFlow objects alive at a time (a bound)
  MaxConnections,         \* maxConnections
  MaxReconnectAttempts,   \* MAIL_IDLE_CONFIG.MAX_RECONNECT_ATTEMPTS
  None

ASSUME IdleAssumption ==
  /\ None \notin Imap /\ None \notin Users
  /\ MaxConnections \in Nat /\ MaxReconnectAttempts \in Nat

VARIABLES
  idleConnections,    \* username -> its ImapFlow, or None
  imap,               \* the ImapFlow objects and the calls that await them
  pendingReconnects,  \* username -> attempt of the armed reconnect timer, 0 if none
  pendingDisconnects  \* usernames whose grace timer is armed

idleVars == <<idleConnections, imap, pendingReconnects, pendingDisconnects>>

-----------------------------------------------------------------------------
(* Types *)

Attempts == 0..MaxReconnectAttempts

\* free: no object; connecting: connect or mailboxOpen awaited; open; closing:
\* cleanupClient awaited; closed: over, but its idleRestartTimer is still armed.
\* 'attempt' numbers the reconnect that started it, 0 for a start or restart.
\* 'after' is what follows the logout: nothing, scheduleReconnect, a call of
\* createIdleConnection (restart), or its continuation (create), with the
\* attempt in 'next'.
ImapState == [status: {"free", "connecting", "open", "closing", "closed"},
              username: Users \cup {None},
              attempt: Attempts,
              isErrorHandled: BOOLEAN,
              restartTimer: BOOLEAN,
              after: {"nothing", "reconnect", "restart", "create"},
              next: 0..(MaxReconnectAttempts + 1)]

FreeImap == [status |-> "free", username |-> None, attempt |-> 0, isErrorHandled |-> FALSE,
             restartTimer |-> FALSE, after |-> "nothing", next |-> 0]

IdleTypeOK ==
  /\ idleConnections \in [Users -> Imap \cup {None}]
  /\ imap \in [Imap -> ImapState]
  /\ pendingReconnects \in [Users -> Attempts]
  /\ pendingDisconnects \in SUBSET Users
  /\ \A c \in Imap : imap[c].status # "free" => imap[c].username \in Users

-----------------------------------------------------------------------------
(* Helpers *)

Connected == {u \in Users : idleConnections[u] # None}

Creating(u) == {c \in Imap : imap[c].username = u /\ imap[c].status = "connecting"}

NewImap(u, k) ==
  [FreeImap EXCEPT !.status = "connecting", !.username = u, !.attempt = k]

\* Faulty variant: the entry is deleted but the client is not logged out.
StoppedWithoutLogout(c, after, next) ==
  [imap[c] EXCEPT !.isErrorHandled = TRUE, !.restartTimer = FALSE]

\* stopIdle of client c, the user's mapped one, and what its caller does next.
Stopped(c, after, next) ==
  [imap[c] EXCEPT !.status = "closing", !.isErrorHandled = TRUE, !.restartTimer = FALSE,
                  !.after = after, !.next = next]

CancelPendingReconnect(u) == [pendingReconnects EXCEPT ![u] = 0]

\* Faulty variant: the number of attempts is not limited.
ScheduleReconnectUnlimited(u, k) == [pendingReconnects EXCEPT ![u] = k]

\* scheduleReconnect: beyond the last attempt nothing is armed.
ScheduleReconnect(u, k) ==
  IF k > MaxReconnectAttempts THEN pendingReconnects ELSE [pendingReconnects EXCEPT ![u] = k]

\* The constructor in createIdleConnection and the call of connect.
StartConnecting(u, k, objects) ==
  \E c \in Imap :
    /\ objects[c].status = "free"
    /\ imap' = [objects EXCEPT ![c] = NewImap(u, k)]

\* createIdleConnection up to its first await, given the objects as they are
\* in 'objects': a mapped client of the user is closed first (its idle timer
\* is not cleared), else a new one connects.
CreateIdleConnection(u, k, objects) ==
  LET c == idleConnections[u] IN
  /\ pendingReconnects' = CancelPendingReconnect(u)
  /\ \/ /\ c = None
        /\ StartConnecting(u, k, objects)
        /\ UNCHANGED idleConnections
     \/ /\ c # None
        /\ imap' = [objects EXCEPT ![c] = [Stopped(c, "create", k) EXCEPT
                                            !.restartTimer = imap[c].restartTimer]]
        /\ idleConnections' = [idleConnections EXCEPT ![u] = None]

\* What remains of an object when its calls are over: an armed timer keeps it.
Released(object) ==
  IF object.restartTimer
  THEN [FreeImap EXCEPT !.status = "closed", !.username = object.username, !.restartTimer = TRUE]
  ELSE FreeImap

IdleInit ==
  /\ idleConnections = [u \in Users |-> None]
  /\ imap = [c \in Imap |-> FreeImap]
  /\ pendingReconnects = [u \in Users |-> 0]
  /\ pendingDisconnects = {}

-----------------------------------------------------------------------------
(* Operations *)

\* startIdle passes its checks and calls createIdleConnection.
StartIdle(u) ==
  /\ idleConnections[u] = None
  /\ Cardinality(Connected) < MaxConnections
  /\ CreateIdleConnection(u, 0, imap)
  /\ UNCHANGED pendingDisconnects

\* connect and mailboxOpen succeeded: the connection enters the map, over
\* whatever is there and even if an 'error' or 'close' of it was handled
\* meanwhile, and its idle timer is armed.
ConnectSucceeds(c) ==
  /\ imap[c].status = "connecting"
  /\ imap' = [imap EXCEPT ![c].status = "open", ![c].restartTimer = TRUE]
  /\ idleConnections' = [idleConnections EXCEPT ![imap[c].username] = c]
  /\ UNCHANGED <<pendingReconnects, pendingDisconnects>>

\* Faulty variant: a failed reconnect is retried as the same attempt.
NextAttemptSame(k) == k

\* The attempt scheduled after attempt k failed to connect.
NextAttempt(k) == k + 1

\* connect or mailboxOpen failed: the client is cleaned up; a failed reconnect
\* schedules the next attempt, a failed start or restart is only logged.
ConnectFails(c) ==
  /\ imap[c].status = "connecting"
  /\ imap' = [imap EXCEPT ![c].status = "closing", ![c].isErrorHandled = TRUE,
                          ![c].after = IF imap[c].attempt = 0 THEN "nothing" ELSE "reconnect",
                          ![c].next = NextAttempt(imap[c].attempt)]
  /\ UNCHANGED <<idleConnections, pendingReconnects, pendingDisconnects>>

\* Faulty variant: the entry is deleted only after the logout.
HandleConnectionErrorLate(u, objects) ==
  LET m == idleConnections[u] IN
  /\ imap' = IF m = None THEN objects ELSE [objects EXCEPT ![m] = Stopped(m, "reconnect", 1)]
  /\ UNCHANGED idleConnections

\* The mapped connection m of u is stopped and a reconnect follows; 'objects'
\* are the objects without the client that reported the error.
HandleConnectionError(u, objects) ==
  LET m == idleConnections[u] IN
  /\ imap' = IF m = None THEN objects ELSE [objects EXCEPT ![m] = Stopped(m, "reconnect", 1)]
  /\ idleConnections' = [idleConnections EXCEPT ![u] = None]

\* 'error' or 'close' of a client that is not in the map yet: another
\* connection of the user is stopped.  The awaited connect or mailboxOpen may
\* be rejected, or be over already and only its continuation be still to come.
ErrorWhileConnecting(c) ==
  /\ imap[c].status = "connecting"
  /\ ~imap[c].isErrorHandled
  /\ HandleConnectionError(imap[c].username, [imap EXCEPT ![c].isErrorHandled = TRUE])
  /\ UNCHANGED <<pendingReconnects, pendingDisconnects>>

\* 'error' or 'close' of an established client whose end was not handled yet:
\* whatever connection the user has now is stopped and reconnected.
ConnectionError(c) ==
  /\ imap[c].status = "open"
  /\ ~imap[c].isErrorHandled
  /\ HandleConnectionError(imap[c].username, [imap EXCEPT ![c] = Released(imap[c])])
  /\ UNCHANGED <<pendingReconnects, pendingDisconnects>>

\* logout and close of a client are over and the awaiting caller goes on.
CleanedUp(c) ==
  LET u == imap[c].username
      rest == [imap EXCEPT ![c] = Released(imap[c])] IN
  /\ imap[c].status = "closing"
  /\ \/ /\ imap[c].after = "nothing"
        /\ imap' = rest
        /\ UNCHANGED <<idleConnections, pendingReconnects>>
     \/ /\ imap[c].after = "reconnect"
        /\ imap' = rest
        /\ pendingReconnects' = ScheduleReconnect(u, imap[c].next)
        /\ UNCHANGED idleConnections
     \/ /\ imap[c].after = "restart"
        /\ CreateIdleConnection(u, 0, rest)
     \/ /\ imap[c].after = "create"
        /\ StartConnecting(u, imap[c].next, rest)
        /\ UNCHANGED <<idleConnections, pendingReconnects>>
  /\ UNCHANGED pendingDisconnects

\* The reconnect timer fires.
ReconnectTimer(u) ==
  /\ pendingReconnects[u] # 0
  /\ CreateIdleConnection(u, pendingReconnects[u], imap)
  /\ UNCHANGED pendingDisconnects

\* The idle timer of client c fires, also that of a client that is gone:
\* restartIdle stops the connection the user has now and creates another.
IdleTimer(c) ==
  LET m == idleConnections[imap[c].username]
      fired == [imap EXCEPT ![c] = IF imap[c].status = "closed" THEN FreeImap
                                   ELSE [imap[c] EXCEPT !.restartTimer = FALSE]] IN
  /\ imap[c].restartTimer
  /\ imap' = IF m = None THEN fired ELSE [fired EXCEPT ![m] = Stopped(m, "restart", 0)]
  /\ idleConnections' = [idleConnections EXCEPT ![imap[c].username] = None]
  /\ UNCHANGED <<pendingReconnects, pendingDisconnects>>

\* SSE_USER_DISCONNECTED: a user with a connection gets a grace period.
HandleUserDisconnected(u) ==
  /\ pendingDisconnects' = IF idleConnections[u] = None THEN pendingDisconnects
                           ELSE pendingDisconnects \cup {u}
  /\ UNCHANGED <<idleConnections, imap, pendingReconnects>>

\* Faulty variant: the grace timer is only cleared while a connection exists.
CancelGraceIfConnected(u) ==
  IF idleConnections[u] # None THEN pendingDisconnects \ {u} ELSE pendingDisconnects

\* The grace timers after handleUserConnected.
CancelGrace(u) == pendingDisconnects \ {u}

\* SSE_USER_CONNECTED.
HandleUserConnected(u) ==
  /\ pendingDisconnects' = CancelGrace(u)
  /\ UNCHANGED <<idleConnections, imap, pendingReconnects>>

\* The grace period is over: stopIdle, and no reconnect.
GraceExpires(u) ==
  LET m == idleConnections[u] IN
  /\ u \in pendingDisconnects
  /\ pendingDisconnects' = pendingDisconnects \ {u}
  /\ pendingReconnects' = CancelPendingReconnect(u)
  /\ imap' = IF m = None THEN imap ELSE [imap EXCEPT ![m] = Stopped(m, "nothing", 0)]
  /\ idleConnections' = [idleConnections EXCEPT ![u] = None]

\* The API process ends and starts again with nothing connected.
IdleRestart ==
  /\ idleConnections' = [u \in Users |-> None]
  /\ imap' = [c \in Imap |-> FreeImap]
  /\ pendingReconnects' = [u \in Users |-> 0]
  /\ pendingDisconnects' = {}

\* The steps that do not come from the event streams.
IdleStep ==
  \/ \E u \in Users : StartIdle(u) \/ ReconnectTimer(u) \/ GraceExpires(u)
  \/ \E c \in Imap :
       \/ ConnectSucceeds(c) \/ ConnectFails(c) \/ ErrorWhileConnecting(c)
       \/ ConnectionError(c) \/ CleanedUp(c) \/ IdleTimer(c)

IdleNext ==
  \/ IdleStep
  \/ \E u \in Users : HandleUserDisconnected(u) \/ HandleUserConnected(u)
  \/ IdleRestart

IdleSpec == IdleInit /\ [][IdleNext]_idleVars

\* Sockets answer or time out (connectionTimeout), logout ends, timers fire.
IdleFairness ==
  /\ \A c \in Imap : WF_idleVars(ConnectSucceeds(c) \/ ConnectFails(c))
  /\ \A c \in Imap : WF_idleVars(CleanedUp(c))
  /\ \A c \in Imap : WF_idleVars(IdleTimer(c))
  /\ \A u \in Users : WF_idleVars(ReconnectTimer(u))
  /\ \A u \in Users : WF_idleVars(GraceExpires(u))

IdleFairSpec == IdleSpec /\ IdleFairness

-----------------------------------------------------------------------------
(* Properties *)

\* The connection the service uses for a user is that user's, was established
\* and is not being closed, and its idle timer is armed: a client that entered
\* the map after its end was handled, which no handler notices any more, is
\* replaced when that timer fires (createIdleConnection, scheduleIdleRestart,
\* stopIdle and the two handlers).
MappedConnectionsRenewed ==
  \A u \in Users : idleConnections[u] # None =>
    /\ imap[idleConnections[u]].status = "open"
    /\ imap[idleConnections[u]].username = u
    /\ imap[idleConnections[u]].restartTimer

\* A connection leaves the map by being closed, or because a connect for the
\* same user that was under way at the same time succeeded: overlapping
\* creations are the only way a connection can be leaked.
LeakedOnlyByOverlap ==
  [][\A u \in Users : (idleConnections[u] # None /\ idleConnections'[u] # idleConnections[u]) =>
       \/ imap'[idleConnections[u]].status # "open"
       \/ idleConnections'[u] # None /\ imap[idleConnections'[u]].status = "connecting"]_idleVars

\* With the server down for good and nobody starting a connection, the
\* reconnects stop: no timer is armed and nothing connects any more
\* (MAX_RECONNECT_ATTEMPTS in scheduleReconnect).
RetriesEnd ==
  <>[][(\A c \in Imap : ~ConnectSucceeds(c)) /\ (\A u \in Users : ~StartIdle(u))]_idleVars
    => <>[](\A u \in Users : pendingReconnects[u] = 0 /\ Creating(u) = {})
=============================================================================
