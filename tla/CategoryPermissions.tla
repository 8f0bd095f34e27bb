-------------------------- MODULE CategoryPermissions --------------------------
(***************************************************************************)
(* BulletinCategoryService: who may see (or edit) a bulletin category is   *)
(* worked out from the category and the cached groups, and cached for an   *)
(* hour.  An update of the category drops the cached list and works it out *)
(* again; a check that found no list fills it too, with what it read       *)
(* before.  An empty list counts as no list.                                 *)
(*                                                                         *)
(* One permission is modelled; "view" and "edit" have a list each.         *)
(***************************************************************************)
CONSTANTS
  Categories,
  Members,      \* users who may be in a list
  PermCalls,    \* requests at a time (a bound)
  NoCategory

ASSUME PermAssumption == NoCategory \notin Categories

VARIABLES
  categories,   \* categories there are
  permitted,    \* the users resolveUsersWithPermission works out
  listCache,    \* the cached lists
  permCalls,    \* requests that need or change a list
  outdated      \* categories whose list may be old: one that was read before a
                \* change was stored after it, or groups changed (history)

permVars == <<categories, permitted, listCache, permCalls, outdated>>

-----------------------------------------------------------------------------
(* Types.  pc names the next step; users: what the call read; raced: the     *)
(* permission changed since.                                                *)

PermCall == [pc: {"idle", "save", "drop", "read", "store"},
             category: Categories \cup {NoCategory}, users: SUBSET Members, raced: BOOLEAN]

IdlePerm == [pc |-> "idle", category |-> NoCategory, users |-> {}, raced |-> FALSE]

PermTypeOK ==
  /\ categories \in SUBSET Categories
  /\ permitted \in [Categories -> SUBSET Members]
  /\ listCache \in [Categories -> SUBSET Members]
  /\ permCalls \in [PermCalls -> PermCall]
  /\ \A c \in PermCalls : permCalls[c].pc # "idle" => permCalls[c].category \in Categories
  /\ outdated \in SUBSET Categories

\* The calls once the permission of g has changed.
Raced(g) ==
  [c \in PermCalls |->
    IF permCalls[c].pc = "store" /\ permCalls[c].category = g
    THEN [permCalls[c] EXCEPT !.raced = TRUE]
    ELSE permCalls[c]]

PermGoes(c, g, pc) ==
  permCalls' = [permCalls EXCEPT ![c] = [pc |-> pc, category |-> g, users |-> {}, raced |-> FALSE]]

PermInit ==
  /\ categories = {}
  /\ permitted = [g \in Categories |-> {}]
  /\ listCache = [g \in Categories |-> {}]
  /\ permCalls = [c \in PermCalls |-> IdlePerm]
  /\ outdated = {}

-----------------------------------------------------------------------------
(* Operations *)

\* create: the lists of the new category are worked out at once.
CreateCategory(c, g, users) ==
  /\ permCalls[c].pc = "idle"
  /\ g \notin categories /\ listCache[g] = {}
  /\ \A d \in PermCalls : permCalls[d].category # g
  /\ categories' = categories \cup {g}
  /\ permitted' = [permitted EXCEPT ![g] = users]
  /\ PermGoes(c, g, "read")
  /\ UNCHANGED <<listCache, outdated>>

\* getUsersWithPermissionCached, for hasUserPermission and findAll: a list that is
\* cached and not empty is used.
CheckPermission(c, g) ==
  /\ permCalls[c].pc = "idle"
  /\ g \in categories
  /\ listCache[g] = {}
  /\ PermGoes(c, g, "read")
  /\ UNCHANGED <<categories, permitted, listCache, outdated>>

\* update finds the category.
UpdateCategory(c, g) ==
  /\ permCalls[c].pc = "idle"
  /\ g \in categories
  /\ PermGoes(c, g, "save")
  /\ UNCHANGED <<categories, permitted, listCache, outdated>>

\* The changed category is saved; until its list is dropped the old one is used.
\* A category that was removed meanwhile is not saved.
SaveCategory(c, users) ==
  LET g == permCalls[c].category IN
  /\ permCalls[c].pc = "save"
  /\ IF g \in categories
     THEN /\ permitted' = [permitted EXCEPT ![g] = users]
          /\ permCalls' = [Raced(g) EXCEPT ![c].pc = "drop"]
     ELSE /\ permCalls' = [permCalls EXCEPT ![c] = IdlePerm]
          /\ UNCHANGED permitted
  /\ UNCHANGED <<categories, listCache, outdated>>

\* Faulty variant: an update drops no list.
DroppedNot(g) == listCache

\* invalidatePermissionCache.
Dropped(g) == [listCache EXCEPT ![g] = {}]

DropList(c) ==
  LET g == permCalls[c].category IN
  /\ permCalls[c].pc = "drop"
  /\ listCache' = Dropped(g)
  /\ outdated' = outdated \ {g}
  /\ PermGoes(c, g, "read")
  /\ UNCHANGED <<categories, permitted>>

\* resolveUsersWithPermission reads the category and its groups.
ReadMembers(c) ==
  LET g == permCalls[c].category IN
  /\ permCalls[c].pc = "read"
  /\ permCalls' = [permCalls EXCEPT ![c] =
       IF g \in categories THEN [pc |-> "store", category |-> g, users |-> permitted[g], raced |-> FALSE]
       ELSE IdlePerm]
  /\ UNCHANGED <<categories, permitted, listCache, outdated>>

\* It stores the list: an older one overwrites a newer one.
StoreList(c) ==
  LET call == permCalls[c] IN
  /\ call.pc = "store"
  /\ listCache' = [listCache EXCEPT ![call.category] = call.users]
  /\ outdated' = IF call.raced THEN outdated \cup {call.category} ELSE outdated \ {call.category}
  /\ permCalls' = [permCalls EXCEPT ![c] = IdlePerm]
  /\ UNCHANGED <<categories, permitted>>

\* The list reaches its time to live.
ListExpires(g) ==
  /\ listCache[g] # {}
  /\ listCache' = [listCache EXCEPT ![g] = {}]
  /\ outdated' = outdated \ {g}
  /\ UNCHANGED <<categories, permitted, permCalls>>

\* The cached groups change: the list is not worked out again.
GroupsChange(g, users) ==
  /\ g \in categories /\ users # permitted[g]
  /\ permitted' = [permitted EXCEPT ![g] = users]
  /\ permCalls' = Raced(g)
  /\ outdated' = IF listCache[g] = {} THEN outdated ELSE outdated \cup {g}
  /\ UNCHANGED <<categories, listCache>>

\* remove: the list stays until its time to live.
RemoveCategory(g) ==
  /\ g \in categories
  /\ categories' = categories \ {g}
  /\ UNCHANGED <<permitted, listCache, permCalls, outdated>>

\* A command fails, or the process restarts: what the call has not done stays undone.
PermCallEnds(c) ==
  /\ permCalls[c].pc # "idle"
  /\ permCalls' = [permCalls EXCEPT ![c] = IdlePerm]
  /\ outdated' = IF permCalls[c].pc = "drop" THEN outdated \cup {permCalls[c].category} ELSE outdated
  /\ UNCHANGED <<categories, permitted, listCache>>

PermNext ==
  \/ \E c \in PermCalls, g \in Categories, users \in SUBSET Members : CreateCategory(c, g, users)
  \/ \E c \in PermCalls, g \in Categories : CheckPermission(c, g) \/ UpdateCategory(c, g)
  \/ \E c \in PermCalls, users \in SUBSET Members : SaveCategory(c, users)
  \/ \E c \in PermCalls : DropList(c) \/ ReadMembers(c) \/ StoreList(c) \/ PermCallEnds(c)
  \/ \E g \in Categories : ListExpires(g) \/ RemoveCategory(g)
  \/ \E g \in Categories, users \in SUBSET Members : GroupsChange(g, users)

PermSpec == PermInit /\ [][PermNext]_permVars

-----------------------------------------------------------------------------
(* Properties *)

\* The cached list of a category is the one that would be worked out now, but for
\* an update that is about to drop it, a list that was read before a change and
\* stored after it, groups that changed, and an update that ended half-way
\* (update, resolveUsersWithPermission, invalidatePermissionCache).
ListCurrentUnlessOutdated ==
  \A g \in Categories : g \in categories /\ listCache[g] # {} =>
    \/ listCache[g] = permitted[g]
    \/ g \in outdated
    \/ \E c \in PermCalls : permCalls[c].pc = "drop" /\ permCalls[c].category = g
=============================================================================
