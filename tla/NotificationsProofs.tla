-------------------------- MODULE NotificationsProofs --------------------------
(***************************************************************************)
(* For any number of users, sources and concurrent requests: a deleted     *)
(* notification never comes back, since Create is the only command that    *)
(* brings a document into being, with an id not used before; everything    *)
(* keeps its type; and an upsert that runs alone leaves the entries of its *)
(* recipients, except those Mongo did not insert.                          *)
(***************************************************************************)
EXTENDS Notifications, TLAPS

\* The documents and the ids they were created with.
ExistingAreUsed ==
  /\ notifications = [n \in Ids |-> notifications[n]]
  /\ used \in SUBSET Ids
  /\ \A n \in Ids : notifications[n] # None => n \in used

\* What a step does to the notifications: some disappear, or one is created.
Drops(dropped) == DropNotifications(dropped) /\ used' = used

Creates(n) ==
  \E s : notifications' = [notifications EXCEPT ![n] = s] /\ used' = used \cup {n}

LEMMA DropsKeep ==
  ASSUME ExistingAreUsed, NEW dropped, Drops(dropped)
  PROVE  /\ ExistingAreUsed'
         /\ \A n \in used : notifications[n] = None => notifications'[n] = None
BY DEF Drops, DropNotifications, ExistingAreUsed

LEMMA CreatesKeep ==
  ASSUME ExistingAreUsed, NEW n \in Ids \ used, Creates(n)
  PROVE  /\ ExistingAreUsed'
         /\ \A m \in used : notifications[m] = None => notifications'[m] = None
BY DEF Creates, ExistingAreUsed

LEMMA KeepsKeep ==
  ASSUME ExistingAreUsed, UNCHANGED <<notifications, used>>
  PROVE  /\ ExistingAreUsed'
         /\ \A n \in used : notifications[n] = None => notifications'[n] = None
BY DEF ExistingAreUsed

\* The steps of one request.
LEMMA CallSteps ==
  ASSUME ExistingAreUsed, NEW c \in Calls, CallStep(c)
  PROVE  /\ ExistingAreUsed'
         /\ \A n \in used : notifications[n] = None => notifications'[n] = None
<1>1. CASE Create(c)
  <2>1. PICK n \in Ids \ used :
          /\ notifications' = [notifications EXCEPT ![n] = calls[c].source]
          /\ used' = used \cup {n}
    BY <1>1 DEF Create
  <2>2. Creates(n)
    BY <2>1 DEF Creates
  <2> QED BY <2>2, CreatesKeep
<1>2. CASE Rollback(c) \/ DropFound(c)
  <2>1. Drops(calls[c].ids)
    BY <1>2 DEF Rollback, DropFound, Drops
  <2> QED BY <2>1, DropsKeep
<1>3. CASE UpsertFind(c) \/ InsertUsers(c) \/ Push(c) \/ PushFails(c) \/ RollbackUsers(c) \/ UpdateExisting(c)
  <2>1. UNCHANGED <<notifications, used>>
    BY <1>3 DEF UpsertFind, InsertUsers, Push, PushFails, RollbackUsers, UpdateExisting, Updated
  <2> QED BY <2>1, KeepsKeep
<1>4. CASE \/ SyncFind(c) \/ SyncRemove(c) \/ SyncAdd(c) \/ SyncReset(c)
           \/ DropAllEntries(c) \/ DropOwn(c) \/ FindOrphans(c) \/ Abort(c)
  <2>1. UNCHANGED <<notifications, used>>
    BY <1>4 DEF SyncFind, SyncRemove, SyncAdd, SyncReset, DropAllEntries, DropOwn, FindOrphans, Abort
  <2> QED BY <2>1, KeepsKeep
<1> QED BY <1>1, <1>2, <1>3, <1>4 DEF CallStep

LEMMA AnyStep ==
  ASSUME ExistingAreUsed, [Next]_vars
  PROVE  /\ ExistingAreUsed'
         /\ \A n \in used : notifications[n] = None => notifications'[n] = None
<1>1. CASE \E n \in Ids : Expire(n)
  <2>1. PICK n \in Ids : Expire(n)
    BY <1>1
  <2>2. Drops({n})
    BY <2>1 DEF Expire, Drops
  <2> QED BY <2>2, DropsKeep
<1>2. CASE \E c \in Calls : CallStep(c)
  BY <1>2, CallSteps
<1>3. CASE \E c \in Calls :
             \/ \E s \in Sources, users \in SUBSET Users : Upsert(c, s, users)
             \/ \E s \in Sources : CascadeDelete(c, s)
             \/ \E ids \in SUBSET Ids : DeleteSent(c, ids)
             \/ \E u \in Users, ids \in SUBSET Ids : DeleteOwn(c, u, ids)
             \/ \E u \in Users : DeleteAllOwn(c, u)
  <2>1. UNCHANGED <<notifications, used>>
    BY <1>3 DEF Upsert, CascadeDelete, DeleteSent, DeleteOwn, DeleteAllOwn
  <2> QED BY <2>1, KeepsKeep
<1>4. CASE \/ \E u \in Users, ids \in SUBSET Ids : MarkAsRead(u, ids)
           \/ SweepFind \/ SweepDelete \/ UNCHANGED vars
  <2>1. UNCHANGED <<notifications, used>>
    BY <1>4 DEF MarkAsRead, SweepFind, SweepDelete, vars
  <2> QED BY <2>1, KeepsKeep
<1> QED BY <1>1, <1>2, <1>3, <1>4 DEF Next

\* Whatever a request that found a notification earlier still does, a deleted,
\* rolled back or expired one stays away (updateOne without upsert).
THEOREM DeletedStay == Spec => DeletedStaysDeleted
<1>1. Init => ExistingAreUsed
  BY DEF Init, ExistingAreUsed
<1>2. ExistingAreUsed /\ [Next]_vars => ExistingAreUsed'
  BY AnyStep
<1>3. ExistingAreUsed /\ [Next]_vars =>
        [\A n \in used : notifications[n] = None => notifications'[n] = None]_vars
  BY AnyStep
<1> QED BY <1>1, <1>2, <1>3, PTL DEF Spec, DeletedStaysDeleted

-----------------------------------------------------------------------------
(* Types, and where an upsert that runs alone stands *)

\* A request knows ids that were created, and the source it looks for.
Fits(k, created) == k.ids \subseteq created /\ (k.pc \in {"find", "create"} => k.source # None)

\* Entries, requests and the sweep speak of ids that were created; what the
\* sweep found is gone.
IdsUsed ==
  /\ \A n \in Ids, u \in Users : <<n, u>> \in inbox => n \in used
  /\ \A c \in Calls : Fits(calls[c], used)
  /\ \A n \in Ids, u \in Users : <<n, u>> \in sweep => n \in used /\ notifications[n] = None

\* An upsert works on one notification, and between its commands the entries
\* are what it found, then what it removed, then what it added.
Stands(c) ==
  /\ calls[c].pc \in {"update", "sync", "syncRemove", "syncAdd", "syncReset"} =>
       \E n \in Ids : calls[c].ids = {n}
  /\ \A n \in calls[c].ids : notifications[n] # None =>
       /\ calls[c].pc = "syncRemove" => Recipients(n) = calls[c].existing
       /\ calls[c].pc = "syncAdd" => Recipients(n) = calls[c].existing \cap calls[c].users
       /\ calls[c].pc = "syncReset" => Recipients(n) = calls[c].users \ calls[c].failed

NotificationsInv == NotificationsTypeOK /\ IdsUsed

DeliveryInv ==
  /\ NotificationsInv
  /\ \A c \in Calls : Calls = {c} => Stands(c)

\* Request c becomes k.
Becomes(c, k) == calls' = [calls EXCEPT ![c] = k]

\* What a command may do to the entries: those it adds belong to a created id.
EntriesKept ==
  /\ inbox' \in SUBSET (Ids \X Users) /\ read' \subseteq inbox'
  /\ \A n \in Ids, u \in Users : <<n, u>> \in inbox' => <<n, u>> \in inbox \/ n \in used

LEMMA IdleIsCall == IdleCall \in Call
BY DEF IdleCall, Call

\* A request goes on, with ids that were created, and keeps the entries sound.
LEMMA CallFrame ==
  ASSUME NotificationsInv, NEW c \in Calls, NEW k \in Call, Becomes(c, k), Fits(k, used'),
         EntriesKept, sweep' = sweep, used \subseteq used', used' \in SUBSET Ids,
         notifications' \in [Ids -> Sources \cup {None}],
         \A n \in Ids : notifications'[n] # None => n \in used',
         \A n \in used : notifications[n] = None => notifications'[n] = None
  PROVE  NotificationsInv'
<1>1. calls' \in [Calls -> Call] /\ \A d \in Calls : Fits(calls'[d], used')
  BY DEF NotificationsInv, NotificationsTypeOK, IdsUsed, Fits, Becomes
<1>2. NotificationsTypeOK'
  BY <1>1 DEF NotificationsInv, NotificationsTypeOK, EntriesKept
<1>3. IdsUsed'
  BY <1>1 DEF NotificationsInv, IdsUsed, EntriesKept
<1> QED BY <1>2, <1>3 DEF NotificationsInv

\* The commands that leave the documents alone.
LEMMA QuietCall ==
  ASSUME NotificationsInv, NEW c \in Calls, NEW k \in Call, Becomes(c, k), Fits(k, used),
         EntriesKept, UNCHANGED <<notifications, used, sweep>>
  PROVE  NotificationsInv'
<1>1. /\ used' \in SUBSET Ids /\ notifications' \in [Ids -> Sources \cup {None}]
      /\ \A n \in Ids : notifications'[n] # None => n \in used'
  BY DEF NotificationsInv, NotificationsTypeOK
<1> QED BY <1>1, CallFrame

LEMMA CallMoves ==
  ASSUME NotificationsInv, NEW c \in Calls,
         NEW pc \in ({"idle"} \cup UpsertPc \cup DeletePc) \ {"find"}, Goto(c, pc),
         pc = "create" => calls[c].pc = "find"
  PROVE  \E k \in Call : Becomes(c, k) /\ Fits(k, used)
<1>1. PICK k : k = [calls[c] EXCEPT !.pc = pc]
  OBVIOUS
<1>2. k \in Call /\ Fits(k, used)
  BY <1>1 DEF NotificationsInv, NotificationsTypeOK, IdsUsed, Call, Fits
<1>3. Becomes(c, k)
  BY <1>1 DEF Goto, Becomes
<1> QED BY <1>2, <1>3

LEMMA SameEntries ==
  ASSUME NotificationsInv, UNCHANGED <<inbox, read>>
  PROVE  EntriesKept
BY DEF NotificationsInv, NotificationsTypeOK, EntriesKept

LEMMA FewerEntries ==
  ASSUME NotificationsInv, NEW entries, DropEntries(entries)
  PROVE  EntriesKept
BY DEF NotificationsInv, NotificationsTypeOK, EntriesKept, DropEntries

LEMMA MoreEntries ==
  ASSUME NotificationsInv, NEW n \in used, NEW users \in SUBSET Users, InsertEntries(n, users)
  PROVE  EntriesKept
BY DEF NotificationsInv, NotificationsTypeOK, EntriesKept, InsertEntries

\* Every step of a request keeps the types and the ids.
LEMMA CallKeeps ==
  ASSUME NotificationsInv, NEW c \in Calls, CallStep(c)
  PROVE  NotificationsInv'
<1> USE DEF UpsertPc, DeletePc
<1>1. /\ calls[c] \in Call /\ calls[c].ids \subseteq used /\ used \subseteq Ids
      /\ calls[c].users \in SUBSET Users
      /\ calls[c].pc \in {"find", "create"} => calls[c].source \in Sources
  BY DEF NotificationsInv, NotificationsTypeOK, IdsUsed, Call, Fits
<1>2. Finish(c) => \E k \in Call : Becomes(c, k) /\ Fits(k, used)
  BY IdleIsCall DEF Finish, Becomes, IdleCall, Fits
<1>3. CASE UpsertFind(c)
  <2>1. \E k \in Call : Becomes(c, k) /\ Fits(k, used)
    <3>1. CASE Goto(c, "create")
      BY <1>3, <3>1, CallMoves DEF UpsertFind
    <3>2. CASE \E n \in Ids : /\ notifications[n] = calls[c].source
                              /\ calls' = [calls EXCEPT ![c].pc = "update", ![c].ids = {n}]
      <4>1. PICK n \in Ids : /\ notifications[n] = calls[c].source
                             /\ calls' = [calls EXCEPT ![c].pc = "update", ![c].ids = {n}]
        BY <3>2
      <4>2. {n} \subseteq used
        BY <1>1, <1>3, <4>1, NotificationsAssumption DEF UpsertFind, NotificationsInv, NotificationsTypeOK
      <4>3. PICK k : k = [calls[c] EXCEPT !.pc = "update", !.ids = {n}]
        OBVIOUS
      <4>4. k \in Call /\ Fits(k, used)
        BY <1>1, <4>2, <4>3 DEF Call, Fits
      <4>5. Becomes(c, k)
        BY <4>1, <4>3 DEF Becomes
      <4> QED BY <4>4, <4>5
    <3> QED BY <1>3, <3>1, <3>2 DEF UpsertFind
  <2> QED BY <1>3, <2>1, SameEntries, QuietCall DEF UpsertFind
<1>4. CASE Create(c)
  <2>1. PICK n \in Ids \ used :
          /\ notifications' = [notifications EXCEPT ![n] = calls[c].source]
          /\ used' = used \cup {n}
          /\ calls' = [calls EXCEPT ![c].pc = "insert", ![c].ids = {n}]
    BY <1>4 DEF Create
  <2>2. PICK k : k = [calls[c] EXCEPT !.pc = "insert", !.ids = {n}]
    OBVIOUS
  <2>3. k \in Call /\ Fits(k, used') /\ Becomes(c, k)
    BY <1>1, <2>1, <2>2 DEF Call, Fits, Becomes
  <2>4. /\ used \subseteq used' /\ used' \in SUBSET Ids
        /\ notifications' \in [Ids -> Sources \cup {None}]
        /\ \A m \in Ids : notifications'[m] # None => m \in used'
        /\ \A m \in used : notifications[m] = None => notifications'[m] = None
    BY <1>1, <1>4, <2>1 DEF Create, NotificationsInv, NotificationsTypeOK
  <2> QED BY <1>4, <2>3, <2>4, SameEntries, CallFrame DEF Create
<1>5. CASE InsertUsers(c)
  <2>1. EntriesKept
    BY <1>1, <1>5, MoreEntries DEF InsertUsers
  <2> QED BY <1>5, <2>1, CallMoves, QuietCall DEF InsertUsers
<1>6. CASE Push(c)
  BY <1>2, <1>6, SameEntries, QuietCall DEF Push
<1>7. CASE PushFails(c)
  BY <1>7, CallMoves, SameEntries, QuietCall DEF PushFails
<1>8. CASE Rollback(c) \/ DropFound(c)
  <2>1. PICK k \in Call : Becomes(c, k) /\ Fits(k, used)
    BY <1>2, <1>8, CallMoves DEF Rollback, DropFound
  <2>2. /\ used' = used /\ used' \in SUBSET Ids
        /\ notifications' \in [Ids -> Sources \cup {None}]
        /\ \A m \in Ids : notifications'[m] # None => m \in used'
        /\ \A m \in used : notifications[m] = None => notifications'[m] = None
    BY <1>8 DEF Rollback, DropFound, DropNotifications, NotificationsInv, NotificationsTypeOK
  <2> QED BY <1>8, <2>1, <2>2, SameEntries, CallFrame DEF Rollback, DropFound
<1>9. CASE RollbackUsers(c)
  BY <1>2, <1>9, FewerEntries, QuietCall DEF RollbackUsers
<1>10. CASE UpdateExisting(c)
  BY <1>10, CallMoves, SameEntries, QuietCall DEF UpdateExisting, Updated
<1>11. CASE SyncFind(c)
  <2>1. PICK n \in calls[c].ids :
          calls' = [calls EXCEPT ![c].pc = "syncRemove", ![c].existing = Recipients(n)]
    BY <1>11 DEF SyncFind
  <2>2. PICK k : k = [calls[c] EXCEPT !.pc = "syncRemove", !.existing = Recipients(n)]
    OBVIOUS
  <2>3. k \in Call /\ Fits(k, used) /\ Becomes(c, k)
    BY <1>1, <2>1, <2>2 DEF Call, Fits, Becomes, Recipients
  <2> QED BY <1>11, <2>3, SameEntries, QuietCall DEF SyncFind
<1>12. CASE SyncRemove(c)
  BY <1>12, CallMoves, FewerEntries, QuietCall DEF SyncRemove
<1>13. CASE SyncAdd(c)
  <2>1. PICK n \in calls[c].ids, inserted \in SUBSET (calls[c].users \ calls[c].existing) :
          /\ InsertEntries(n, inserted)
          /\ calls' = [calls EXCEPT ![c].pc = "syncReset",
                                   ![c].failed = (calls[c].users \ calls[c].existing) \ inserted]
    BY <1>13 DEF SyncAdd
  <2>2. EntriesKept
    BY <1>1, <2>1, MoreEntries
  <2>3. PICK k : k = [calls[c] EXCEPT !.pc = "syncReset",
                                      !.failed = (calls[c].users \ calls[c].existing) \ inserted]
    OBVIOUS
  <2>4. k \in Call /\ Fits(k, used) /\ Becomes(c, k)
    BY <1>1, <2>1, <2>3 DEF Call, Fits, Becomes
  <2> QED BY <1>13, <2>2, <2>4, QuietCall DEF SyncAdd
<1>14. CASE SyncReset(c)
  <2>1. EntriesKept
    BY <1>14 DEF SyncReset, EntriesKept, NotificationsInv, NotificationsTypeOK
  <2> QED BY <1>14, <2>1, CallMoves, QuietCall DEF SyncReset
<1>15. CASE DropAllEntries(c)
  BY <1>15, CallMoves, FewerEntries, QuietCall DEF DropAllEntries
<1>16. CASE DropOwn(c)
  BY <1>16, CallMoves, FewerEntries, QuietCall DEF DropOwn
<1>17. CASE FindOrphans(c)
  <2>1. \E k \in Call : Becomes(c, k) /\ Fits(k, used)
    <3>1. CASE Finish(c)
      BY <1>2, <3>1
    <3>2. PICK orphans : orphans = {n \in calls[c].ids \cap Existing : Recipients(n) = {}}
      OBVIOUS
    <3>3. PICK k : k = [calls[c] EXCEPT !.pc = "dropOrphans", !.ids = orphans]
      OBVIOUS
    <3>4. k \in Call /\ Fits(k, used)
      BY <1>1, <3>2, <3>3 DEF Call, Fits
    <3>5. CASE calls' = [calls EXCEPT ![c].pc = "dropOrphans", ![c].ids = orphans]
      BY <3>3, <3>4, <3>5 DEF Becomes
    <3> QED BY <1>17, <3>1, <3>2, <3>5 DEF FindOrphans
  <2> QED BY <1>17, <2>1, SameEntries, QuietCall DEF FindOrphans
<1>18. CASE Abort(c)
  BY <1>2, <1>18, SameEntries, QuietCall DEF Abort
<1> QED
  BY <1>3, <1>4, <1>5, <1>6, <1>7, <1>8, <1>9, <1>10, <1>11, <1>12, <1>13, <1>14, <1>15, <1>16,
     <1>17, <1>18 DEF CallStep

\* A request begins.
LEMMA BeginningKeeps ==
  ASSUME NotificationsInv, NEW c \in Calls,
         \/ \E s \in Sources, users \in SUBSET Users : Upsert(c, s, users)
         \/ \E s \in Sources : CascadeDelete(c, s)
         \/ \E ids \in SUBSET Ids : DeleteSent(c, ids)
         \/ \E u \in Users, ids \in SUBSET Ids : DeleteOwn(c, u, ids)
         \/ \E u \in Users : DeleteAllOwn(c, u)
  PROVE  NotificationsInv' /\ calls'[c].pc \in DeletePc \cup {"find"}
<1> USE DEF UpsertPc, DeletePc
<1> DEFINE Begun == \E k \in Call : /\ Becomes(c, k) /\ Fits(k, used)
                                    /\ k.pc \in DeletePc \cup {"find"}
<1>0. \A n \in Ids : notifications[n] # None => n \in used
  BY DEF NotificationsInv, NotificationsTypeOK
<1>1. ASSUME NEW s \in Sources, NEW users \in SUBSET Users, Upsert(c, s, users) PROVE Begun
  <2>1. PICK k : k = [IdleCall EXCEPT !.pc = "find", !.source = s, !.users = users]
    OBVIOUS
  <2>2. k \in Call /\ Fits(k, used) /\ k.pc = "find"
    BY <2>1, NotificationsAssumption DEF Fits, Call, IdleCall
  <2>3. Becomes(c, k)
    BY <1>1, <2>1 DEF Upsert, Becomes
  <2> QED BY <2>2, <2>3
<1>2. ASSUME NEW s \in Sources, CascadeDelete(c, s) PROVE Begun
  <2>1. PICK n \in Ids : /\ notifications[n] = s
                         /\ calls' = [calls EXCEPT ![c] =
                              [IdleCall EXCEPT !.pc = "cascade", !.source = s, !.ids = {n}]]
    BY <1>2 DEF CascadeDelete
  <2>2. PICK k : k = [IdleCall EXCEPT !.pc = "cascade", !.source = s, !.ids = {n}]
    OBVIOUS
  <2>3. n \in used
    BY <1>0, <2>1, NotificationsAssumption
  <2>4. k \in Call /\ Fits(k, used) /\ k.pc = "cascade"
    BY <2>2, <2>3 DEF Fits, Call, IdleCall
  <2>5. Becomes(c, k)
    BY <2>1, <2>2 DEF Becomes
  <2> QED BY <2>4, <2>5
<1>3. ASSUME NEW ids \in SUBSET Ids, DeleteSent(c, ids) PROVE Begun
  <2>1. PICK k : k = [IdleCall EXCEPT !.pc = "dropEntries", !.ids = ids]
    OBVIOUS
  <2>2. ids \subseteq used
    BY <1>0, <1>3 DEF DeleteSent, Existing
  <2>3. k \in Call /\ Fits(k, used) /\ k.pc = "dropEntries"
    BY <2>1, <2>2 DEF Fits, Call, IdleCall
  <2>4. Becomes(c, k)
    BY <1>3, <2>1 DEF DeleteSent, Becomes
  <2> QED BY <2>3, <2>4
<1>4. ASSUME NEW u \in Users, NEW ids \in SUBSET Ids, DeleteOwn(c, u, ids) PROVE Begun
  <2>1. PICK k : k = [IdleCall EXCEPT !.pc = "dropOwn", !.ids = ids, !.users = {u}]
    OBVIOUS
  <2>2. ids \subseteq used
    BY <1>4 DEF DeleteOwn, NotificationsInv, IdsUsed
  <2>3. k \in Call /\ Fits(k, used) /\ k.pc = "dropOwn"
    BY <2>1, <2>2 DEF Fits, Call, IdleCall
  <2>4. Becomes(c, k)
    BY <1>4, <2>1 DEF DeleteOwn, Becomes
  <2> QED BY <2>3, <2>4
<1>5. ASSUME NEW u \in Users, DeleteAllOwn(c, u) PROVE Begun
  <2>1. PICK ids : ids = {n \in Ids : <<n, u>> \in inbox}
    OBVIOUS
  <2>2. PICK k : k = [IdleCall EXCEPT !.pc = "dropAllOwn", !.ids = ids, !.users = {u}]
    OBVIOUS
  <2>3. ids \subseteq used /\ ids \subseteq Ids
    BY <2>1 DEF NotificationsInv, IdsUsed
  <2>4. k \in Call /\ Fits(k, used) /\ k.pc = "dropAllOwn"
    BY <2>2, <2>3 DEF Fits, Call, IdleCall
  <2>5. Becomes(c, k)
    BY <1>5, <2>1, <2>2 DEF DeleteAllOwn, Becomes
  <2> QED BY <2>4, <2>5
<1>6. Begun
  BY <1>1, <1>2, <1>3, <1>4, <1>5
<1>7. UNCHANGED <<notifications, used, inbox, read, sweep>>
  BY DEF Upsert, CascadeDelete, DeleteSent, DeleteOwn, DeleteAllOwn
<1>8. PICK k \in Call : /\ Becomes(c, k) /\ Fits(k, used)
                        /\ k.pc \in DeletePc \cup {"find"}
  BY <1>6
<1>9. calls'[c] = k
  BY <1>8 DEF Becomes, NotificationsInv, NotificationsTypeOK
<1> QED BY <1>7, <1>8, <1>9, SameEntries, QuietCall

\* What runs beside the requests leaves the entries of a notification that
\* stays as they are.
LEMMA BesideKeeps ==
  ASSUME NotificationsInv,
         \/ \E u \in Users, ids \in SUBSET Ids : MarkAsRead(u, ids)
         \/ \E n \in Ids : Expire(n)
         \/ SweepFind \/ SweepDelete \/ UNCHANGED vars
  PROVE  /\ NotificationsInv' /\ calls' = calls
         /\ \A n \in Ids : notifications'[n] # None =>
              notifications[n] # None /\ Recipients(n)' = Recipients(n)
<1> USE DEF NotificationsInv, NotificationsTypeOK, IdsUsed
<1>1. CASE \E u \in Users, ids \in SUBSET Ids : MarkAsRead(u, ids)
  BY <1>1 DEF MarkAsRead, Marked, Recipients
<1>2. CASE \E n \in Ids : Expire(n)
  BY <1>2 DEF Expire, DropNotifications, Recipients
<1>3. CASE SweepFind
  BY <1>3 DEF SweepFind, Sweepable, Orphaned, Existing, Recipients
<1>4. CASE SweepDelete
  BY <1>4 DEF SweepDelete, DropEntries, Recipients
<1>5. CASE UNCHANGED vars
  BY <1>5 DEF vars, Recipients
<1> QED BY <1>1, <1>2, <1>3, <1>4, <1>5

LEMMA NextKeeps == NotificationsInv /\ [Next]_vars => NotificationsInv'
BY CallKeeps, BeginningKeeps, BesideKeeps DEF Next

LEMMA InitInv == Init => DeliveryInv
BY DEF Init, DeliveryInv, NotificationsInv, NotificationsTypeOK, IdsUsed, Fits, Stands, Call, IdleCall

\* Documents, entries, read marks and requests have their types, whatever runs
\* at the same time; read marks belong to entries.
THEOREM NotificationsTypeCorrect == Spec => []NotificationsTypeOK
<1>1. Init => NotificationsInv
  BY InitInv DEF DeliveryInv
<1>2. NotificationsInv /\ [Next]_vars => NotificationsInv'
  BY NextKeeps
<1>3. NotificationsInv => NotificationsTypeOK
  BY DEF NotificationsInv
<1> QED BY <1>1, <1>2, <1>3, PTL DEF Spec

\* The commands of a request that is alone.
LEMMA AloneStands ==
  ASSUME NotificationsInv, NEW c \in Calls, Stands(c), CallStep(c)
  PROVE  Stands(c)'
<1> USE DEF UpsertPc, DeletePc
<1>1. /\ calls[c] \in Call /\ calls[c].ids \subseteq Ids
      /\ calls \in [Calls -> Call]
  BY DEF NotificationsInv, NotificationsTypeOK, Call
<1>2. CASE calls'[c].pc \notin {"update", "sync", "syncRemove", "syncAdd", "syncReset"}
  BY <1>2 DEF Stands
<1>3. CASE UpsertFind(c)
  <2>1. CASE Goto(c, "create")
    BY <1>1, <1>2, <2>1 DEF Goto
  <2>2. CASE \E n \in Ids : calls' = [calls EXCEPT ![c].pc = "update", ![c].ids = {n}]
    <3>1. PICK n \in Ids : calls' = [calls EXCEPT ![c].pc = "update", ![c].ids = {n}]
      BY <2>2
    <3>2. calls'[c].pc = "update" /\ calls'[c].ids = {n}
      BY <1>1, <3>1 DEF Call
    <3> QED BY <3>2 DEF Stands
  <2> QED BY <1>3, <2>1, <2>2 DEF UpsertFind
<1>4. CASE UpdateExisting(c)
  BY <1>1, <1>4 DEF UpdateExisting, Goto, Stands
<1>5. CASE SyncFind(c)
  BY <1>1, <1>5 DEF SyncFind, Stands, Recipients
<1>6. CASE SyncRemove(c)
  BY <1>1, <1>6 DEF SyncRemove, Goto, Stands, Recipients, DropEntries, ToRemove, Call
<1>7. CASE SyncAdd(c)
  <2>1. PICK n \in Ids : calls[c].ids = {n}
    BY <1>7 DEF SyncAdd, Stands
  <2>2. PICK inserted \in SUBSET (calls[c].users \ calls[c].existing) :
          /\ InsertEntries(n, inserted)
          /\ calls' = [calls EXCEPT ![c].pc = "syncReset",
                                   ![c].failed = (calls[c].users \ calls[c].existing) \ inserted]
    BY <1>7, <2>1 DEF SyncAdd
  <2>3. /\ calls'[c].pc = "syncReset" /\ calls'[c].ids = {n} /\ calls'[c].users = calls[c].users
        /\ calls'[c].failed = (calls[c].users \ calls[c].existing) \ inserted
    BY <1>1, <2>1, <2>2 DEF Call
  <2>4. Recipients(n)' = Recipients(n) \cup inserted
    BY <1>1, <2>2 DEF Recipients, InsertEntries, Call
  <2>5. notifications[n] # None => Recipients(n) = calls[c].existing \cap calls[c].users
    BY <1>7, <2>1 DEF SyncAdd, Stands
  <2>6. notifications' = notifications
    BY <1>7 DEF SyncAdd
  <2> QED BY <2>3, <2>4, <2>5, <2>6 DEF Stands
<1>8. CASE Create(c)
  <2>1. PICK n \in Ids : calls' = [calls EXCEPT ![c].pc = "insert", ![c].ids = {n}]
    BY <1>8 DEF Create
  <2>2. calls'[c].pc = "insert"
    BY <1>1, <2>1 DEF Call
  <2> QED BY <1>2, <2>2
<1>9. CASE FindOrphans(c)
  <2>1. PICK orphans : orphans = {n \in calls[c].ids \cap Existing : Recipients(n) = {}}
    OBVIOUS
  <2>2. CASE calls' = [calls EXCEPT ![c].pc = "dropOrphans", ![c].ids = orphans]
    <3>1. calls'[c].pc = "dropOrphans"
      BY <1>1, <2>2 DEF Call
    <3> QED BY <1>2, <3>1
  <2>3. CASE Finish(c)
    BY <1>1, <1>2, <2>3 DEF Finish, IdleCall
  <2> QED BY <1>9, <2>1, <2>2, <2>3 DEF FindOrphans
<1>10. CASE InsertUsers(c) \/ PushFails(c) \/ Rollback(c) \/ SyncReset(c) \/ DropAllEntries(c) \/ DropOwn(c)
  <2>1. PICK pc \in {"push", "rollback", "rollbackUsers", "pushUpdate", "dropNotifications", "orphans"} :
          Goto(c, pc)
    BY <1>10 DEF InsertUsers, PushFails, Rollback, SyncReset, DropAllEntries, DropOwn
  <2>2. calls'[c].pc = pc
    BY <1>1, <2>1 DEF Goto, Call
  <2> QED BY <1>2, <2>1, <2>2
<1>11. CASE Push(c) \/ RollbackUsers(c) \/ DropFound(c) \/ Abort(c)
  <2>1. Finish(c)
    BY <1>11 DEF Push, RollbackUsers, DropFound, Abort
  <2>2. calls'[c].pc = "idle"
    BY <1>1, <2>1 DEF Finish, IdleCall
  <2> QED BY <1>2, <2>2
<1> QED BY <1>3, <1>4, <1>5, <1>6, <1>7, <1>8, <1>9, <1>10, <1>11 DEF CallStep

LEMMA DeliveryStep == DeliveryInv /\ [Next]_vars => DeliveryInv'
<1> SUFFICES ASSUME DeliveryInv, [Next]_vars PROVE DeliveryInv'
  OBVIOUS
<1>1. NotificationsInv /\ NotificationsInv'
  BY NextKeeps DEF DeliveryInv
<1>2. ASSUME NEW c \in Calls, Calls = {c} PROVE Stands(c)'
  <2>1. Stands(c)
    BY <1>2 DEF DeliveryInv
  <2>2. CASE CallStep(c)
    BY <1>1, <2>1, <2>2, AloneStands
  <2>3. CASE \/ \E s \in Sources, users \in SUBSET Users : Upsert(c, s, users)
             \/ \E s \in Sources : CascadeDelete(c, s)
             \/ \E ids \in SUBSET Ids : DeleteSent(c, ids)
             \/ \E u \in Users, ids \in SUBSET Ids : DeleteOwn(c, u, ids)
             \/ \E u \in Users : DeleteAllOwn(c, u)
    <3>1. calls'[c].pc \in DeletePc \cup {"find"}
      BY <1>1, <2>3, BeginningKeeps
    <3> QED BY <3>1 DEF Stands, DeletePc
  <2>4. CASE \/ \E u \in Users, ids \in SUBSET Ids : MarkAsRead(u, ids)
             \/ \E n \in Ids : Expire(n)
             \/ SweepFind \/ SweepDelete \/ UNCHANGED vars
    <3>1. /\ calls' = calls
          /\ \A n \in Ids : notifications'[n] # None =>
               notifications[n] # None /\ Recipients(n)' = Recipients(n)
      BY <1>1, <2>4, BesideKeeps
    <3>2. calls[c].ids \subseteq Ids
      BY <1>1 DEF NotificationsInv, NotificationsTypeOK, Call
    <3> QED BY <2>1, <3>1, <3>2 DEF Stands
  <2> QED BY <1>2, <2>2, <2>3, <2>4 DEF Next
<1> QED BY <1>1, <1>2 DEF DeliveryInv

\* An upsert of an existing notification that runs alone leaves entries exactly
\* for its recipients but those Mongo did not insert, whatever expires, is read
\* or is swept meanwhile (syncUserNotifications).
THEOREM AloneDelivers == Spec => SyncDelivers
<1> DEFINE Delivered == \A c \in Calls :
             (calls[c].pc = "syncReset" /\ calls'[c].pc = "pushUpdate" /\ Calls = {c}) =>
               \A n \in calls[c].ids \cap Existing : Recipients(n) = calls[c].users \ calls[c].failed
<1>1. DeliveryInv /\ [Next]_vars => [Delivered]_vars
  BY DEF DeliveryInv, Stands, Existing
<1> QED BY <1>1, InitInv, DeliveryStep, PTL DEF Spec, SyncDelivers
=============================================================================
