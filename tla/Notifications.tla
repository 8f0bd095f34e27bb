----------------------------- MODULE Notifications -----------------------------
(***************************************************************************)
(* NotificationsService: a notification is one document in 'notifications' *)
(* and one per recipient in 'usernotifications'.  Nothing spans the two    *)
(* collections: every operation is a sequence of Mongo commands, other     *)
(* requests run between them, and each of them may fail or be the last of  *)
(* the process.  A step is one command.                                    *)
(*                                                                         *)
(* Push delivery is only a call that succeeds or fails; push debouncing,   *)
(* the PENDING or SENT status and the texts are left out.                  *)
(***************************************************************************)
EXTENDS Naturals, FiniteSets

CONSTANTS
  Users,
  Sources,  \* sourceType and sourceId of a bulletin, survey, conference or mail
  Ids,      \* ObjectIds of notifications, never used twice (a bound)
  Calls,    \* requests under way at a time (a bound)
  None

ASSUME NotificationsAssumption == None \notin Sources /\ None \notin Ids

VARIABLES
  notifications,  \* id -> source of the document, or None
  used,           \* ids a document was ever created with
  inbox,          \* the user notifications: pairs <<id, username>>
  read,           \* those of inbox with readAt set
  calls,          \* the requests
  sweep           \* what the nightly cleanup found and will delete

vars == <<notifications, used, inbox, read, calls, sweep>>

-----------------------------------------------------------------------------
(* Types.  'pc' names the next command.  'ids' are the notifications, 'users'  *)
(* the recipients, 'existing' the recipients found by syncUserNotifications    *)
(* and 'failed' those whose entry its insertMany did not insert (history).     *)

UpsertPc == {"find", "create", "insert", "push", "rollback", "rollbackUsers",
             "update", "sync", "syncRemove", "syncAdd", "syncReset", "pushUpdate"}
DeletePc == {"cascade", "dropEntries", "dropOwn", "dropAllOwn", "orphans", "dropOrphans", "dropNotifications"}

Call == [pc: {"idle"} \cup UpsertPc \cup DeletePc,
         source: Sources \cup {None},
         ids: SUBSET Ids,
         users: SUBSET Users,
         existing: SUBSET Users,
         failed: SUBSET Users]

IdleCall == [pc |-> "idle", source |-> None, ids |-> {}, users |-> {}, existing |-> {}, failed |-> {}]

NotificationsTypeOK ==
  /\ notifications \in [Ids -> Sources \cup {None}]
  /\ used \in SUBSET Ids
  /\ inbox \in SUBSET (Ids \X Users)
  /\ read \subseteq inbox
  /\ calls \in [Calls -> Call]
  /\ sweep \in SUBSET (Ids \X Users)
  /\ \A n \in Ids : notifications[n] # None => n \in used

-----------------------------------------------------------------------------
(* Helpers *)

Existing == {n \in Ids : notifications[n] # None}

Recipients(n) == {u \in Users : <<n, u>> \in inbox}

Orphaned == {entry \in inbox : entry[1] \notin Existing}

Goto(c, pc) == calls' = [calls EXCEPT ![c].pc = pc]

Finish(c) == calls' = [calls EXCEPT ![c] = IdleCall]

\* deleteMany and deleteOne of entries and of notifications.
DropEntries(entries) == inbox' = inbox \ entries /\ read' = read \ entries

DropNotifications(ids) ==
  notifications' = [n \in Ids |-> IF n \in ids THEN None ELSE notifications[n]]

\* insertMany for the recipients 'users' of n; the unique index drops duplicates.
InsertEntries(n, users) == inbox' = inbox \cup ({n} \X users) /\ UNCHANGED read

Init ==
  /\ notifications = [n \in Ids |-> None]
  /\ used = {}
  /\ inbox = {}
  /\ read = {}
  /\ calls = [c \in Calls |-> IdleCall]
  /\ sweep = {}

-----------------------------------------------------------------------------
(* upsertNotificationForSource *)

Upsert(c, s, users) ==
  /\ calls[c].pc = "idle"
  /\ calls' = [calls EXCEPT ![c] = [IdleCall EXCEPT !.pc = "find", !.source = s, !.users = users]]
  /\ UNCHANGED <<notifications, used, inbox, read, sweep>>

\* findNotificationBySource.
UpsertFind(c) ==
  LET found == {n \in Ids : notifications[n] = calls[c].source} IN
  /\ calls[c].pc = "find"
  /\ \/ found = {} /\ Goto(c, "create")
     \/ \E n \in found : calls' = [calls EXCEPT ![c].pc = "update", ![c].ids = {n}]
  /\ UNCHANGED <<notifications, used, inbox, read, sweep>>

\* notifyUsernames: the notification is created.
Create(c) ==
  /\ calls[c].pc = "create"
  /\ \E n \in Ids \ used :
       /\ notifications' = [notifications EXCEPT ![n] = calls[c].source]
       /\ used' = used \cup {n}
       /\ calls' = [calls EXCEPT ![c].pc = "insert", ![c].ids = {n}]
  /\ UNCHANGED <<inbox, read, sweep>>

\* createUserNotifications: a batch that fails is only logged.
InsertUsers(c) ==
  /\ calls[c].pc = "insert"
  /\ \E n \in calls[c].ids, inserted \in SUBSET calls[c].users : InsertEntries(n, inserted)
  /\ Goto(c, "push")
  /\ UNCHANGED <<notifications, used, sweep>>

\* The push is enqueued (or skipped) and the request is over.
Push(c) ==
  /\ calls[c].pc \in {"push", "pushUpdate"}
  /\ Finish(c)
  /\ UNCHANGED <<notifications, used, inbox, read, sweep>>

\* The tokens or the queue fail: what notifyUsernames created is rolled back.
PushFails(c) ==
  /\ calls[c].pc = "push"
  /\ Goto(c, "rollback")
  /\ UNCHANGED <<notifications, used, inbox, read, sweep>>

Rollback(c) ==
  /\ calls[c].pc = "rollback"
  /\ DropNotifications(calls[c].ids)
  /\ Goto(c, "rollbackUsers")
  /\ UNCHANGED <<used, inbox, read, sweep>>

RollbackUsers(c) ==
  /\ calls[c].pc = "rollbackUsers"
  /\ DropEntries(calls[c].ids \X Users)
  /\ Finish(c)
  /\ UNCHANGED <<notifications, used, sweep>>

\* Faulty variant: the update creates the document if it is gone.
UpdatedInserting(c) ==
  [n \in Ids |-> IF n \in calls[c].ids THEN calls[c].source ELSE notifications[n]]

\* updateOne of title, texts and data: matches nothing if the document is gone.
Updated(c) == notifications

UpdateExisting(c) ==
  /\ calls[c].pc = "update"
  /\ notifications' = Updated(c)
  /\ Goto(c, "sync")
  /\ UNCHANGED <<used, inbox, read, sweep>>

\* syncUserNotifications reads the recipients there are ...
SyncFind(c) ==
  /\ calls[c].pc = "sync"
  /\ \E n \in calls[c].ids :
       calls' = [calls EXCEPT ![c].pc = "syncRemove", ![c].existing = Recipients(n)]
  /\ UNCHANGED <<notifications, used, inbox, read, sweep>>

\* Faulty variant: who is no longer a recipient keeps the entry.
ToRemoveNobody(c) == {}

ToRemove(c) == calls[c].existing \ calls[c].users

\* ... deletes those that are no longer wanted ...
SyncRemove(c) ==
  /\ calls[c].pc = "syncRemove"
  /\ DropEntries(calls[c].ids \X ToRemove(c))
  /\ Goto(c, "syncAdd")
  /\ UNCHANGED <<notifications, used, sweep>>

\* ... inserts the new ones, of which a MongoBulkWriteError may leave out any: it
\* is logged, and the sync goes on ...
SyncAdd(c) ==
  LET new == calls[c].users \ calls[c].existing IN
  /\ calls[c].pc = "syncAdd"
  /\ \E n \in calls[c].ids, inserted \in SUBSET new :
       /\ InsertEntries(n, inserted)
       /\ calls' = [calls EXCEPT ![c].pc = "syncReset", ![c].failed = new \ inserted]
  /\ UNCHANGED <<notifications, used, sweep>>

\* ... and makes the others unread again.
SyncReset(c) ==
  /\ calls[c].pc = "syncReset"
  /\ read' = read \ (calls[c].ids \X (calls[c].users \cap calls[c].existing))
  /\ Goto(c, "pushUpdate")
  /\ UNCHANGED <<notifications, used, inbox, sweep>>

-----------------------------------------------------------------------------
(* Deleting and reading *)

\* cascadeDeleteBySourceId: one notification of the source is looked up.
CascadeDelete(c, s) ==
  /\ calls[c].pc = "idle"
  /\ \E n \in Ids :
       /\ notifications[n] = s
       /\ calls' = [calls EXCEPT ![c] =
            [IdleCall EXCEPT !.pc = "cascade", !.source = s, !.ids = {n}]]
  /\ UNCHANGED <<notifications, used, inbox, read, sweep>>

\* deleteSentNotification and deleteAllSentNotifications by the creator.
DeleteSent(c, ids) ==
  /\ calls[c].pc = "idle"
  /\ ids # {} /\ ids \subseteq Existing
  /\ calls' = [calls EXCEPT ![c] = [IdleCall EXCEPT !.pc = "dropEntries", !.ids = ids]]
  /\ UNCHANGED <<notifications, used, inbox, read, sweep>>

\* Both delete the entries first.
DropAllEntries(c) ==
  /\ calls[c].pc \in {"cascade", "dropEntries"}
  /\ DropEntries(calls[c].ids \X Users)
  /\ Goto(c, "dropNotifications")
  /\ UNCHANGED <<notifications, used, sweep>>

\* deleteUserNotification and deleteAllUserNotifications find the entries ...
DeleteOwn(c, u, ids) ==
  /\ calls[c].pc = "idle"
  /\ ids # {} /\ ids \X {u} \subseteq inbox
  /\ calls' = [calls EXCEPT ![c] = [IdleCall EXCEPT !.pc = "dropOwn", !.ids = ids, !.users = {u}]]
  /\ UNCHANGED <<notifications, used, inbox, read, sweep>>

\* ... for the type ALL every entry of the user, perhaps none ...
DeleteAllOwn(c, u) ==
  /\ calls[c].pc = "idle"
  /\ calls' = [calls EXCEPT ![c] =
       [IdleCall EXCEPT !.pc = "dropAllOwn", !.ids = {n \in Ids : <<n, u>> \in inbox}, !.users = {u}]]
  /\ UNCHANGED <<notifications, used, inbox, read, sweep>>

\* ... and delete those found, or for the type ALL those there are now.
DropOwn(c) ==
  /\ calls[c].pc \in {"dropOwn", "dropAllOwn"}
  /\ DropEntries((IF calls[c].pc = "dropOwn" THEN calls[c].ids ELSE Ids) \X calls[c].users)
  /\ Goto(c, "orphans")
  /\ UNCHANGED <<notifications, used, sweep>>

\* cleanupOrphanedNotifications looks for notifications without entries ...
FindOrphans(c) ==
  LET orphans == {n \in calls[c].ids \cap Existing : Recipients(n) = {}} IN
  /\ calls[c].pc = "orphans"
  /\ IF orphans = {} THEN Finish(c)
     ELSE calls' = [calls EXCEPT ![c].pc = "dropOrphans", ![c].ids = orphans]
  /\ UNCHANGED <<notifications, used, inbox, read, sweep>>

\* ... and deletes them; the other deletions end the same way.
DropFound(c) ==
  /\ calls[c].pc \in {"dropOrphans", "dropNotifications"}
  /\ DropNotifications(calls[c].ids)
  /\ Finish(c)
  /\ UNCHANGED <<used, inbox, read, sweep>>

\* Faulty variant: the update inserts the entries it does not find.
MarkedInserting(u, ids) == ids \X {u}

\* The entries that updateOne or updateMany matches.
Marked(u, ids) == (ids \X {u}) \cap inbox

\* markAsRead and markAllAsRead.
MarkAsRead(u, ids) ==
  /\ read' = read \cup Marked(u, ids)
  /\ read' # read
  /\ UNCHANGED <<notifications, used, inbox, calls, sweep>>

\* A command fails where nothing is rolled back, or the process dies.
Abort(c) ==
  /\ calls[c].pc # "idle"
  /\ Finish(c)
  /\ UNCHANGED <<notifications, used, inbox, read, sweep>>

\* Mongo expires a notification after thirty days.
Expire(n) ==
  /\ n \in Existing
  /\ DropNotifications({n})
  /\ UNCHANGED <<used, inbox, read, calls, sweep>>

\* Faulty variant: only entries that were read count as orphans.
SweepableRead == Orphaned \cap read

\* The entries the nightly cleanup looks up.
Sweepable == Orphaned

\* cleanupOrphanedUserNotifications.
SweepFind ==
  /\ sweep = {} /\ Sweepable # {}
  /\ sweep' = Sweepable
  /\ UNCHANGED <<notifications, used, inbox, read, calls>>

SweepDelete ==
  /\ sweep # {}
  /\ DropEntries(sweep)
  /\ sweep' = {}
  /\ UNCHANGED <<notifications, used, calls>>

-----------------------------------------------------------------------------

CallStep(c) ==
  \/ UpsertFind(c) \/ Create(c) \/ InsertUsers(c) \/ Push(c) \/ PushFails(c)
  \/ Rollback(c) \/ RollbackUsers(c)
  \/ UpdateExisting(c) \/ SyncFind(c) \/ SyncRemove(c) \/ SyncAdd(c) \/ SyncReset(c)
  \/ DropAllEntries(c) \/ DropOwn(c) \/ FindOrphans(c) \/ DropFound(c)
  \/ Abort(c)

Next ==
  \/ \E c \in Calls :
       \/ \E s \in Sources, users \in SUBSET Users : Upsert(c, s, users)
       \/ \E s \in Sources : CascadeDelete(c, s)
       \/ \E ids \in SUBSET Ids : DeleteSent(c, ids)
       \/ \E u \in Users, ids \in SUBSET Ids : DeleteOwn(c, u, ids)
       \/ \E u \in Users : DeleteAllOwn(c, u)
       \/ CallStep(c)
  \/ \E u \in Users, ids \in SUBSET Ids : MarkAsRead(u, ids)
  \/ \E n \in Ids : Expire(n)
  \/ SweepFind \/ SweepDelete

Spec == Init /\ [][Next]_vars

\* The cleanup runs every night; its deleteMany is answered or tried again.
FairSpec == Spec /\ WF_vars(SweepFind) /\ WF_vars(SweepDelete)

-----------------------------------------------------------------------------
(* Properties *)

\* A notification that was deleted, rolled back or expired never comes back,
\* whatever a request that found it earlier still does (updateOne without upsert).
DeletedStaysDeleted ==
  [][\A n \in used : notifications[n] = None => notifications'[n] = None]_vars

\* Entries whose notification is gone do not stay for ever, whoever left them
\* behind: a rollback that lost a race, an expiry, a crash between two commands
\* (cleanupOrphanedUserNotifications).
OrphansSwept ==
  \A n \in Ids, u \in Users : (<<n, u>> \in Orphaned) ~> (<<n, u>> \notin Orphaned)

\* An upsert of an existing notification that runs alone leaves entries for no
\* one but its recipients, and for each of them except those whose entry Mongo
\* did not insert in this very sync, whatever was there before and whatever is
\* read, swept or expires meanwhile (syncUserNotifications); for one call.
SyncDelivers ==
  [][\A c \in Calls :
       (calls[c].pc = "syncReset" /\ calls'[c].pc = "pushUpdate" /\ Calls = {c}) =>
         \A n \in calls[c].ids \cap Existing :
           Recipients(n) = calls[c].users \ calls[c].failed]_vars

\* cleanupOrphanedNotifications deletes orphans only: a user's entry never loses
\* its notification because somebody else deleted theirs.
OnlyOrphansCleaned ==
  [][\A c \in Calls : (calls[c].pc = "dropOrphans" /\ calls'[c].pc = "idle") =>
       \A n \in calls[c].ids : (notifications[n] # None /\ notifications'[n] = None) =>
         Recipients(n) \subseteq calls[c].users]_vars

=============================================================================
