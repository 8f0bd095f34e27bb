------------------------------- MODULE AppAccess -------------------------------
(***************************************************************************)
(* Who may use an app: the stored configuration says which groups may;     *)
(* AppConfigService keeps a map of it in memory, read anew after an app is *)
(* inserted, updated or deleted, but not when a single field is patched;   *)
(* the guards keep the decisions they took from the map, until the map is  *)
(* replaced or a minute is over.  The model is about one user, with fixed  *)
(* groups, who is no administrator.                                        *)
(***************************************************************************)
CONSTANTS
  Domains,      \* names of apps
  AccessCalls   \* changes of the configuration at a time (a bound)

VARIABLES
  granted,       \* apps that are stored and open to a group of the user
  appAccessMap,  \* those according to the map
  accessCache,   \* decisions of the guards
  accessCalls,   \* insertConfig, updateConfig and deleteConfig after their write
  unread         \* the map was last read before a change, or not read after one (history)

accessVars == <<granted, appAccessMap, accessCache, accessCalls, unread>>

-----------------------------------------------------------------------------
(* Types.  raced: the configuration changed since the call read it.         *)

AccessCall == [pc: {"idle", "find", "assign"}, read: SUBSET Domains, raced: BOOLEAN]

IdleAccess == [pc |-> "idle", read |-> {}, raced |-> FALSE]

AccessTypeOK ==
  /\ granted \in SUBSET Domains /\ appAccessMap \in SUBSET Domains
  /\ accessCache \in [Domains -> {"none", "yes", "no"}]
  /\ accessCalls \in [AccessCalls -> AccessCall]
  /\ unread \in BOOLEAN

Undecided == [a \in Domains |-> "none"]

\* The map is about to become what is stored now.
Refreshing(c) == accessCalls[c].pc = "find" \/ (accessCalls[c].pc = "assign" /\ ~accessCalls[c].raced)

AccessEnds(c) == accessCalls' = [accessCalls EXCEPT ![c] = IdleAccess]

AccessInit ==
  /\ granted = {} /\ appAccessMap = {}
  /\ accessCache = Undecided
  /\ accessCalls = [c \in AccessCalls |-> IdleAccess]
  /\ unread = FALSE

-----------------------------------------------------------------------------
(* Operations *)

\* An app is inserted, updated or deleted; the map is read anew in the finally block.
ChangeConfig(c, a, open) ==
  /\ accessCalls[c].pc = "idle"
  /\ granted' = IF open THEN granted \cup {a} ELSE granted \ {a}
  /\ accessCalls' = [d \in AccessCalls |->
       IF d = c THEN [IdleAccess EXCEPT !.pc = "find"]
       ELSE [accessCalls[d] EXCEPT !.raced = accessCalls[d].pc = "assign"]]
  /\ UNCHANGED <<appAccessMap, accessCache, unread>>

\* patchSingleFieldInConfig changes the groups of a stored app: nobody reads the map anew.
PatchAccessGroups(a, open) ==
  /\ open # (a \in granted)
  /\ granted' = IF open THEN granted \cup {a} ELSE granted \ {a}
  /\ accessCalls' = [d \in AccessCalls |->
       [accessCalls[d] EXCEPT !.raced = accessCalls[d].pc = "assign"]]
  /\ unread' = TRUE
  /\ UNCHANGED <<appAccessMap, accessCache>>

\* The write fails: the finally block runs as well.
ChangeFails(c) ==
  /\ accessCalls[c].pc = "idle"
  /\ accessCalls' = [accessCalls EXCEPT ![c].pc = "find"]
  /\ UNCHANGED <<granted, appAccessMap, accessCache, unread>>

\* updateAppAccessMap: all apps are read.
FindConfigs(c) ==
  /\ accessCalls[c].pc = "find"
  /\ accessCalls' = [accessCalls EXCEPT ![c].pc = "assign", ![c].read = granted]
  /\ UNCHANGED <<granted, appAccessMap, accessCache, unread>>

\* The proxy file cannot be written or deleted before, or the read fails: the map stays.
FindFails(c) ==
  /\ accessCalls[c].pc = "find"
  /\ AccessEnds(c)
  /\ unread' = TRUE
  /\ UNCHANGED <<granted, appAccessMap, accessCache>>

\* Faulty variant: the guards are not told that the map was replaced.
DecisionsKept == accessCache

\* handleAppAccessMapUpdated: clearAccessCache.
DecisionsCleared == Undecided

\* The answer replaces the map, whatever was changed or read since.
AssignMap(c) ==
  /\ accessCalls[c].pc = "assign"
  /\ appAccessMap' = accessCalls[c].read
  /\ accessCache' = DecisionsCleared
  /\ unread' = accessCalls[c].raced
  /\ AccessEnds(c)
  /\ UNCHANGED granted

\* AccessGuard and DynamicAppAccessGuard: without a decision in the cache, and once the
\* admin groups were read, the map decides.  Two requests may both do this.
Decide(a) ==
  /\ accessCache' = [accessCache EXCEPT ![a] = IF a \in appAccessMap THEN "yes" ELSE "no"]
  /\ UNCHANGED <<granted, appAccessMap, accessCalls, unread>>

\* A decision is older than CACHE_TTL_MS, or is evicted.
DecisionExpires(a) ==
  /\ accessCache[a] # "none"
  /\ accessCache' = [accessCache EXCEPT ![a] = "none"]
  /\ UNCHANGED <<granted, appAccessMap, accessCalls, unread>>

\* The API process restarts and reads the map before it serves requests (onModuleInit).
AccessRestart ==
  /\ appAccessMap' = granted
  /\ accessCache' = Undecided
  /\ accessCalls' = [c \in AccessCalls |-> IdleAccess]
  /\ unread' = FALSE
  /\ UNCHANGED granted

AccessNext ==
  \/ \E c \in AccessCalls :
       \/ \E a \in Domains, open \in BOOLEAN : ChangeConfig(c, a, open)
       \/ ChangeFails(c) \/ FindConfigs(c) \/ FindFails(c) \/ AssignMap(c)
  \/ \E a \in Domains, open \in BOOLEAN : PatchAccessGroups(a, open)
  \/ \E a \in Domains : Decide(a) \/ DecisionExpires(a)
  \/ AccessRestart

AccessSpec == AccessInit /\ [][AccessNext]_accessVars

-----------------------------------------------------------------------------
(* Properties *)

\* A decision of a guard is the one the stored configuration asks for, unless a change
\* is yet to be read, or the map was last replaced by an answer from before a change,
\* or was not read after one: the read failed, or the groups were patched
\* (updateAppAccessMap, patchSingleFieldInConfig, canActivate).
DecisionsFollowConfig ==
  \A a \in Domains : accessCache[a] # "none" =>
    \/ accessCache[a] = "yes" <=> a \in granted
    \/ unread
    \/ \E c \in AccessCalls : Refreshing(c)
=============================================================================
