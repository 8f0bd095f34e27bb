-------------------------- MODULE LdapGroupSyncProofs --------------------------
(***************************************************************************)
(* For any number of groups, users, overlapping calls and failures: types, *)
(* that no admin group is deleted, and that an undisturbed sync leaves     *)
(* Keycloak as the directory has it and the cache as Keycloak is.  For the *)
(* admin groups the invariant is about the tasks: one that will delete is  *)
(* never one of an admin group, whatever its call read.  For the sync it   *)
(* says at each command how the updates collected so far relate to         *)
(* Keycloak, the cache and the directory.                                  *)
(***************************************************************************)
EXTENDS LdapGroupSync, TLAPS

LEMMA Constants ==
  /\ NoTask \in Task /\ NoPollTask \in PollTask /\ IdleSync \in Sync /\ IdlePoll \in Poll
  /\ NoDirect \in Direct
<1>1. NoTask \in Task
  BY DEF NoTask, Task, TaskPc, Group
<1>2. 1 \in 1..MaximumRetries
  BY LdapGroupSyncAssumption
<1>3. NoPollTask \in PollTask
  BY <1>2 DEF NoPollTask, PollTask, Group
<1>4. IdleSync \in Sync
  <2>1. {} \in Updates
    BY DEF Updates
  <2> QED BY <2>1 DEF IdleSync, Sync, Phase
<1>5. [p \in Paths |-> NoPollTask] \in [Paths -> PollTask]
  BY <1>3
<1>6. IdlePoll \in Poll
  BY <1>5 DEF IdlePoll, Poll
<1>7. NoDirect \in Direct
  BY DEF NoDirect, Direct
<1> QED BY <1>1, <1>3, <1>4, <1>6, <1>7

LEMMA FailureTypes ==
  ASSUME GroupSyncTypeOK, failures' = failures \/ FailureHappens
  PROVE  failures' \in 0..MaxFailures
BY LdapGroupSyncAssumption DEF FailureHappens, GroupSyncTypeOK

LEMMA InitTypes == Init => GroupSyncTypeOK
<1> SUFFICES ASSUME Init PROVE GroupSyncTypeOK
  OBVIOUS
<1> USE DEF Init
<1>1. /\ sync \in [Calls -> Sync] /\ task \in [Calls -> [Paths -> Task]] /\ poll \in Poll
      /\ direct \in [Paths -> Direct]
  BY Constants
<1>2. members \in [Paths -> Group] /\ list \in SUBSET Paths
  BY DEF Group
<1>3. failures \in 0..MaxFailures /\ changes \in 0..MaxChanges
  BY LdapGroupSyncAssumption
<1>4. clean \in [Calls -> BOOLEAN] /\ quiet \in [Calls -> BOOLEAN]
  OBVIOUS
<1> QED BY <1>1, <1>2, <1>3, <1>4 DEF GroupSyncTypeOK

\* The tasks of a call.
LEMMA TaskTypes ==
  ASSUME GroupSyncTypeOK, NEW s \in Calls, NEW p \in Paths, TaskStep(s, p)
  PROVE  task' \in [Calls -> [Paths -> Task]]
<1> USE DEF GroupSyncTypeOK
<1>1. task[s][p] \in Task
  OBVIOUS
<1>2. \A t \in Task : [task EXCEPT ![s][p] = t] \in [Calls -> [Paths -> Task]]
  OBVIOUS
<1>3. \A pc \in TaskPc : [task[s][p] EXCEPT !.pc = pc] \in Task
  BY <1>1 DEF Task
<1>4. ASSUME NEW pc \in TaskPc, TaskGoto(s, p, pc)
      PROVE  task' \in [Calls -> [Paths -> Task]]
  <2>1. task' = [task EXCEPT ![s][p] = [task[s][p] EXCEPT !.pc = pc]]
    BY <1>4 DEF TaskGoto
  <2> QED BY <2>1, <1>2, <1>3
<1>5. TaskEnds(s, p) => task' \in [Calls -> [Paths -> Task]]
  BY <1>2, Constants DEF TaskEnds
<1>6. ASSUME NEW pc \in TaskPc, NEW l \in SUBSET Paths, task' = [task EXCEPT ![s][p].pc = pc, ![s][p].list = l]
      PROVE  task' \in [Calls -> [Paths -> Task]]
  <2>1. [task[s][p] EXCEPT !.pc = pc, !.list = l] \in Task
    BY <1>1 DEF Task
  <2>2. task' = [task EXCEPT ![s][p] = [task[s][p] EXCEPT !.pc = pc, !.list = l]]
    BY <1>6
  <2> QED BY <2>1, <2>2, <1>2
<1>7. ASSUME NEW pc \in TaskPc, NEW m \in Group, task' = [task EXCEPT ![s][p].pc = pc, ![s][p].members = m]
      PROVE  task' \in [Calls -> [Paths -> Task]]
  <2>1. [task[s][p] EXCEPT !.pc = pc, !.members = m] \in Task
    BY <1>1 DEF Task
  <2>2. task' = [task EXCEPT ![s][p] = [task[s][p] EXCEPT !.pc = pc, !.members = m]]
    BY <1>7
  <2> QED BY <2>1, <2>2, <1>2
<1>8. CASE TaskEnsure(s, p)
  BY <1>8, <1>4 DEF TaskEnsure, TaskPc
<1>9. CASE TaskCreate(s, p)
  BY <1>9, <1>4, <1>5 DEF TaskCreate, TaskThrows, TaskPc
<1>10. CASE TaskSearch(s, p)
  BY <1>10, <1>5, <1>6 DEF TaskSearch, TaskThrows, TaskPc
<1>11. CASE TaskAddList(s, p)
  BY <1>11, <1>4 DEF TaskAddList, TaskPc
<1>12. CASE TaskAttributes(s, p)
  BY <1>12, <1>7 DEF TaskAttributes, TaskPc
<1>13. CASE TaskAttributesWrite(s, p)
  BY <1>13, <1>4 DEF TaskAttributesWrite, TaskPc
<1>14. CASE TaskDiff(s, p)
  BY <1>14, <1>5, <1>7 DEF TaskDiff, TaskThrows, TaskPc
<1>15. CASE TaskWrite(s, p)
  BY <1>15, <1>5 DEF TaskWrite
<1>16. CASE TaskDelete(s, p)
  BY <1>16, <1>5, <1>6 DEF TaskDelete, TaskThrows, TaskPc
<1>17. CASE TaskDrop(s, p)
  BY <1>17, <1>5 DEF TaskDrop
<1>18. CASE TaskFails(s, p)
  BY <1>18, <1>5 DEF TaskFails, TaskThrows
<1> QED BY <1>8, <1>9, <1>10, <1>11, <1>12, <1>13, <1>14, <1>15, <1>16, <1>17, <1>18 DEF TaskStep

\* What the catch and the finally of a call leave.
LEMMA ThrowTypes ==
  ASSUME GroupSyncTypeOK, NEW s \in Calls, Throw(s)
  PROVE  /\ sync' \in [Calls -> Sync] /\ clean' \in [Calls -> BOOLEAN] /\ quiet' \in [Calls -> BOOLEAN]
         /\ ldapSyncActive' \in BOOLEAN /\ isSyncRunning' \in BOOLEAN
         /\ initialized' \in BOOLEAN /\ targetKnown' \in BOOLEAN
<1> USE DEF GroupSyncTypeOK, Throw
<1>1. [sync[s] EXCEPT !.pc = "idle"] \in Sync
  <2>1. sync[s] \in Sync
    OBVIOUS
  <2> QED BY <2>1 DEF Sync, Phase
<1>2. sync' \in [Calls -> Sync]
  <2>1. CASE Running(s)
    <3>1. sync' = [sync EXCEPT ![s] = [sync[s] EXCEPT !.pc = "idle"]]
      BY <2>1 DEF Goto
    <3> QED BY <1>1, <3>1
  <2>2. CASE ~Running(s)
    BY <2>2
  <2> QED BY <2>1, <2>2
<1>3. clean' \in [Calls -> BOOLEAN] /\ quiet' \in [Calls -> BOOLEAN]
  BY DEF Disturb
<1>4. ldapSyncActive' \in BOOLEAN /\ isSyncRunning' \in BOOLEAN
  OBVIOUS
<1>5. initialized' \in BOOLEAN /\ targetKnown' \in BOOLEAN
  OBVIOUS
<1> QED BY <1>2, <1>3, <1>4, <1>5

LEMMA TaskKeepsTypes ==
  ASSUME GroupSyncTypeOK, NEW s \in Calls, NEW p \in Paths, TaskStep(s, p)
  PROVE  GroupSyncTypeOK'
<1>1. task' \in [Calls -> [Paths -> Task]]
  BY TaskTypes
<1>2. ldap' = ldap /\ direct' = direct /\ changes' = changes /\ poll' = poll
  BY DEF TaskStep, TaskEnsure, TaskCreate, TaskSearch, TaskAddList, TaskAttributes,
         TaskAttributesWrite, TaskDiff, TaskWrite, TaskDelete, TaskDrop, TaskFails, world
<1>3. failures' \in 0..MaxFailures
  BY LdapGroupSyncAssumption
     DEF TaskStep, TaskEnsure, TaskCreate, TaskSearch, TaskAddList, TaskAttributes,
         TaskAttributesWrite, TaskDiff, TaskWrite, TaskDelete, TaskDrop, TaskFails,
         FailureHappens, GroupSyncTypeOK
<1>4. task[s][p].list \in SUBSET Paths /\ task[s][p].members \in Group
  BY DEF GroupSyncTypeOK, Task
<1>5. list' \in SUBSET Paths
  <2>1. CASE TaskAddList(s, p)
    BY <2>1, <1>4 DEF TaskAddList
  <2>2. CASE TaskDrop(s, p)
    BY <2>2, <1>4 DEF TaskDrop
  <2>3. CASE list' = list
    BY <2>3 DEF GroupSyncTypeOK
  <2> QED
    BY <2>1, <2>2, <2>3 DEF TaskStep, TaskEnsure, TaskCreate, TaskSearch, TaskAttributes,
         TaskAttributesWrite, TaskDiff, TaskWrite, TaskDelete, TaskFails
<1>6. members' \in [Paths -> Group]
  <2>1. \A g \in Group : [members EXCEPT ![p] = g] \in [Paths -> Group]
    BY DEF GroupSyncTypeOK
  <2>2. {} \in Group /\ NoGroup \in Group
    BY DEF Group
  <2>3. members' = members \/ \E g \in Group : members' = [members EXCEPT ![p] = g]
    BY <1>4, <2>2 DEF TaskStep, TaskEnsure, TaskCreate, TaskSearch, TaskAddList, TaskAttributes,
         TaskAttributesWrite, TaskDiff, TaskWrite, TaskDelete, TaskDrop, TaskFails
  <2> QED BY <2>1, <2>3 DEF GroupSyncTypeOK
<1>7. keycloak' \in [Paths -> Group]
  <2>1. {} \in Group /\ NoGroup \in Group
    BY DEF Group
  <2>2. CASE TaskCreate(s, p)
    BY <2>1, <2>2 DEF TaskCreate, GroupSyncTypeOK
  <2>3. CASE TaskDelete(s, p)
    BY <2>1, <2>3 DEF TaskDelete, GroupSyncTypeOK
  <2>4. CASE keycloak' = keycloak
    BY <2>4 DEF GroupSyncTypeOK
  <2> QED
    BY <2>2, <2>3, <2>4 DEF TaskStep, TaskEnsure, TaskSearch, TaskAddList, TaskAttributes,
         TaskAttributesWrite, TaskDiff, TaskWrite, TaskDrop, TaskFails
<1>8. /\ sync' \in [Calls -> Sync] /\ clean' \in [Calls -> BOOLEAN] /\ quiet' \in [Calls -> BOOLEAN]
      /\ ldapSyncActive' \in BOOLEAN /\ isSyncRunning' \in BOOLEAN
      /\ initialized' \in BOOLEAN /\ targetKnown' \in BOOLEAN
  <2>1. CASE Throw(s)
    BY <2>1, ThrowTypes
  <2>2. CASE UNCHANGED <<flags, sync, clean, quiet>>
    BY <2>2 DEF flags, GroupSyncTypeOK
  <2>3. CASE TaskSearch(s, p) /\ ~Throw(s)
    <3>1. [sync[s] EXCEPT !.byPath = @ \cup {p}] \in Sync
      <4>1. sync[s] \in Sync
        BY DEF GroupSyncTypeOK
      <4> QED BY <4>1 DEF Sync
    <3>2. sync' = [sync EXCEPT ![s] = [sync[s] EXCEPT !.byPath = @ \cup {p}]]
      BY <2>3 DEF TaskSearch, TaskThrows
    <3>3. UNCHANGED <<flags, clean, quiet>>
      BY <2>3 DEF TaskSearch, TaskThrows
    <3> QED BY <3>1, <3>2, <3>3 DEF GroupSyncTypeOK, flags
  <2>4. CASE TaskDiff(s, p) /\ ~Throw(s)
    <3> DEFINE missing == Missing(p, ldap[p])
               surplus == Cached(p) \ ldap[p]
    <3>1. ldap[p] # NoGroup /\ ldap[p] \in SUBSET Users
      BY <2>4 DEF TaskDiff, TaskThrows, GroupSyncTypeOK, Group
    <3>2. missing \subseteq Users /\ surplus \subseteq Users
      BY <3>1 DEF Missing, Cached, GroupSyncTypeOK, Group
    <3>3. missing \X {p} \subseteq Users \X Paths /\ surplus \X {p} \subseteq Users \X Paths
      BY <3>2
    <3>4. sync' = [sync EXCEPT ![s] = [sync[s] EXCEPT !.adds = @ \cup (missing \X {p}),
                                                     !.removes = @ \cup (surplus \X {p})]]
      BY <2>4 DEF TaskDiff, TaskThrows
    <3> HIDE DEF missing, surplus
    <3>5. [sync[s] EXCEPT !.adds = @ \cup (missing \X {p}),
                         !.removes = @ \cup (surplus \X {p})] \in Sync
      <4>1. sync[s] \in Sync
        BY DEF GroupSyncTypeOK
      <4>2. sync[s].adds \in Updates /\ sync[s].removes \in Updates
        BY <4>1 DEF Sync
      <4>3. /\ sync[s].adds \cup (missing \X {p}) \in Updates
            /\ sync[s].removes \cup (surplus \X {p}) \in Updates
        BY <3>3, <4>2 DEF Updates
      <4> QED BY <4>1, <4>3 DEF Sync
    <3>6. sync' \in [Calls -> Sync]
      BY <3>4, <3>5 DEF GroupSyncTypeOK
    <3>7. UNCHANGED <<flags, clean, quiet>>
      BY <2>4 DEF TaskDiff, TaskThrows
    <3> QED BY <3>6, <3>7 DEF GroupSyncTypeOK, flags
  <2> QED
    BY <2>1, <2>2, <2>3, <2>4 DEF TaskStep, TaskEnsure, TaskCreate, TaskSearch, TaskAddList,
         TaskAttributes, TaskAttributesWrite, TaskDiff, TaskWrite, TaskDelete, TaskDrop, TaskFails,
         TaskThrows
<1> QED
  BY <1>1, <1>2, <1>3, <1>5, <1>6, <1>7, <1>8 DEF GroupSyncTypeOK

\* Only the call itself.
LEMMA SyncRecords ==
  ASSUME GroupSyncTypeOK, NEW s \in Calls, NEW pc \in Phase, NEW l \in SUBSET Paths
  PROVE  /\ [sync EXCEPT ![s] = [IdleSync EXCEPT !.pc = pc]] \in [Calls -> Sync]
         /\ [sync EXCEPT ![s].pc = pc] \in [Calls -> Sync]
         /\ [sync EXCEPT ![s].pc = pc, ![s].list = l] \in [Calls -> Sync]
<1>1. sync[s] \in Sync /\ IdleSync \in Sync
  BY Constants DEF GroupSyncTypeOK
<1>2. /\ [IdleSync EXCEPT !.pc = pc] \in Sync
      /\ [sync[s] EXCEPT !.pc = pc] \in Sync
      /\ [sync[s] EXCEPT !.pc = pc, !.list = l] \in Sync
  BY <1>1 DEF Sync
<1>3. \A r \in Sync : [sync EXCEPT ![s] = r] \in [Calls -> Sync]
  BY DEF GroupSyncTypeOK
<1>4. [sync EXCEPT ![s].pc = pc] = [sync EXCEPT ![s] = [sync[s] EXCEPT !.pc = pc]]
  OBVIOUS
<1>5. [sync EXCEPT ![s].pc = pc, ![s].list = l] = [sync EXCEPT ![s] = [sync[s] EXCEPT !.pc = pc, !.list = l]]
  OBVIOUS
<1> QED BY <1>2, <1>3, <1>4, <1>5

LEMMA SyncKeepsTypes ==
  ASSUME GroupSyncTypeOK, NEW s \in Calls, SyncStep(s)
  PROVE  GroupSyncTypeOK'
<1>1. /\ UNCHANGED <<ldap, direct, changes, poll, keycloak, members>>
      /\ list' \in SUBSET Paths
      /\ failures' \in 0..MaxFailures
  <2>1. sync[s].list \in SUBSET Paths
    BY DEF GroupSyncTypeOK, Sync
  <2>2. list' \in SUBSET Paths
    BY <2>1 DEF SyncStep, SyncNoConfig, SyncStart, SyncTarget, SyncSearch, SyncFails,
         SyncAttributes, SyncAttributesWrite, SyncDelete, SyncDeleted, SyncFinish, GroupSyncTypeOK
  <2>3. failures' \in 0..MaxFailures
    <3>1. failures' = failures \/ FailureHappens
      BY DEF SyncStep, SyncNoConfig, SyncStart, SyncTarget, SyncSearch, SyncFails,
         SyncAttributes, SyncAttributesWrite, SyncDelete, SyncDeleted, SyncFinish
    <3> QED BY <3>1, FailureTypes
  <2>4. UNCHANGED <<ldap, direct, changes, poll, keycloak, members>>
    BY DEF SyncStep, SyncNoConfig, SyncStart, SyncTarget, SyncSearch, SyncFails,
         SyncAttributes, SyncAttributesWrite, SyncDelete, SyncDeleted, SyncFinish, world
  <2> QED BY <2>2, <2>3, <2>4
<1>2. task' \in [Calls -> [Paths -> Task]]
  <2>1. \A pc \in TaskPc : [NoTask EXCEPT !.pc = pc] \in Task
    BY Constants DEF Task
  <2>2. [NoTask EXCEPT !.pc = "ensure"] \in Task /\ [NoTask EXCEPT !.pc = "delete"] \in Task
    BY <2>1 DEF TaskPc
  <2> DEFINE row(P, t) == [p \in Paths |-> IF p \in P THEN t ELSE NoTask]
  <2>6. \A P, t : t \in Task => row(P, t) \in [Paths -> Task]
    BY Constants
  <2>7. \A r \in [Paths -> Task] : [task EXCEPT ![s] = r] \in [Calls -> [Paths -> Task]]
    BY DEF GroupSyncTypeOK
  <2>3. CASE SyncSearch(s)
    <3>1. CASE list = {}
      BY <2>3, <3>1 DEF SyncSearch, GroupSyncTypeOK
    <3>2. CASE list # {}
      <4>1. task' = [task EXCEPT ![s] = row({p \in Paths : ldap[p] # NoGroup}, [NoTask EXCEPT !.pc = "ensure"])]
        BY <2>3, <3>2 DEF SyncSearch
      <4> HIDE DEF row
      <4> QED BY <4>1, <2>2, <2>6, <2>7
    <3> QED BY <3>1, <3>2
  <2>4. CASE SyncDelete(s)
    <3>1. task' = [task EXCEPT ![s] = row(ToDelete(s), [NoTask EXCEPT !.pc = "delete"])]
      BY <2>4 DEF SyncDelete
    <3> HIDE DEF row
    <3> QED BY <3>1, <2>2, <2>6, <2>7
  <2>5. CASE task' = task
    BY <2>5 DEF GroupSyncTypeOK
  <2> QED BY <2>3, <2>4, <2>5 DEF SyncStep, SyncNoConfig, SyncStart, SyncTarget, SyncFails,
         SyncAttributes, SyncAttributesWrite, SyncDeleted, SyncFinish
<1>3. sync' \in [Calls -> Sync]
  <2>1. CASE Throw(s)
    BY <2>1, ThrowTypes
  <2>2. CASE SyncSearch(s)
    <3>1. CASE list = {}
      <4>1. Goto(s, "idle")
        BY <2>2, <3>1 DEF SyncSearch
      <4> QED BY <4>1, SyncRecords DEF Goto, Phase
    <3>2. CASE list # {}
      <4> DEFINE dns == {p \in Paths : ldap[p] # NoGroup}
      <4>1. sync' = [sync EXCEPT ![s] = [sync[s] EXCEPT !.pc = "groups", !.dns = dns, !.byPath = list]]
        BY <2>2, <3>2 DEF SyncSearch
      <4>2. sync[s] \in Sync /\ list \in SUBSET Paths /\ dns \in SUBSET Paths
        BY DEF GroupSyncTypeOK
      <4> HIDE DEF dns
      <4>3. [sync[s] EXCEPT !.pc = "groups", !.dns = dns, !.byPath = list] \in Sync
        BY <4>2 DEF Sync, Phase
      <4> QED BY <4>1, <4>3 DEF GroupSyncTypeOK
    <3> QED BY <3>1, <3>2
  <2>3. CASE SyncFinish(s)
    BY <2>3, Constants DEF SyncFinish, GroupSyncTypeOK
  <2>4. CASE SyncStart(s)
    <3>1. PICK pc \in {"search", "target"} : sync' = [sync EXCEPT ![s] = [IdleSync EXCEPT !.pc = pc]]
      BY <2>4 DEF SyncStart
    <3> QED BY <3>1, SyncRecords DEF Phase
  <2>5. CASE SyncTarget(s)
    BY <2>5, SyncRecords DEF SyncTarget, Goto, Phase
  <2>6. CASE SyncAttributes(s)
    <3>1. list \in SUBSET Paths
      BY DEF GroupSyncTypeOK
    <3> QED BY <2>6, <3>1, SyncRecords DEF SyncAttributes, Phase
  <2>7. CASE SyncAttributesWrite(s)
    BY <2>7, SyncRecords DEF SyncAttributesWrite, Phase
  <2>8. CASE SyncDelete(s)
    BY <2>8, SyncRecords DEF SyncDelete, Goto, Phase
  <2>9. CASE SyncDeleted(s)
    BY <2>9, SyncRecords DEF SyncDeleted, Goto, Phase
  <2>10. CASE SyncNoConfig(s)
    BY <2>10 DEF SyncNoConfig, GroupSyncTypeOK
  <2> QED BY <2>1, <2>2, <2>3, <2>4, <2>5, <2>6, <2>7, <2>8, <2>9, <2>10 DEF SyncStep, SyncFails
<1>4. clean' \in [Calls -> BOOLEAN] /\ quiet' \in [Calls -> BOOLEAN]
  <2>1. CASE Throw(s)
    BY <2>1, ThrowTypes
  <2>2. CASE SyncSearch(s)
    <3>1. StartsClean(s) \in BOOLEAN
      BY DEF StartsClean
    <3> HIDE DEF StartsClean
    <3> QED BY <2>2, <3>1 DEF SyncSearch, GroupSyncTypeOK
  <2>3. CASE quiet' = quiet /\ (clean' = clean \/ Disturb)
    BY <2>3 DEF Disturb, GroupSyncTypeOK
  <2> QED BY <2>1, <2>2, <2>3 DEF SyncStep, SyncNoConfig, SyncStart, SyncTarget, SyncFails,
         SyncAttributes, SyncAttributesWrite, SyncDelete, SyncDeleted, SyncFinish, SetRunning
<1>5. /\ ldapSyncActive' \in BOOLEAN /\ isSyncRunning' \in BOOLEAN
      /\ initialized' \in BOOLEAN /\ targetKnown' \in BOOLEAN
  <2>1. CASE Throw(s)
    BY <2>1, ThrowTypes
  <2>2. CASE ~Throw(s)
    BY <2>2 DEF SyncStep, SyncNoConfig, SyncStart, SyncTarget, SyncSearch, SyncFails,
         SyncAttributes, SyncAttributesWrite, SyncDelete, SyncDeleted, SyncFinish, SetRunning,
         flags, GroupSyncTypeOK
  <2> QED BY <2>1, <2>2
<1> QED
  BY <1>1, <1>2, <1>3, <1>4, <1>5 DEF GroupSyncTypeOK

LEMMA AppliedTypes ==
  ASSUME keycloak \in [Paths -> Group], NEW u, NEW added, NEW removed, u \in Users, Applied(u, added, removed)
  PROVE  /\ keycloak' \in [Paths -> Group]
         /\ \A p \in Paths : keycloak[p] # NoGroup => keycloak'[p] # NoGroup
<1>1. ASSUME NEW p \in Paths
      PROVE  keycloak'[p] \in Group /\ (keycloak[p] # NoGroup => keycloak'[p] # NoGroup)
  <2>1. CASE keycloak[p] = NoGroup
    BY <2>1 DEF Applied, Group
  <2>2. CASE keycloak[p] # NoGroup
    <3>1. keycloak[p] \in SUBSET Users
      BY <2>2 DEF Group
    <3>2. keycloak'[p] \in SUBSET Users
      BY <2>2, <3>1 DEF Applied
    <3> QED BY <3>2, LdapGroupSyncAssumption DEF Group
  <2> QED BY <2>1, <2>2
<1> QED BY <1>1 DEF Applied

LEMMA ApplyKeepsTypes ==
  ASSUME GroupSyncTypeOK, NEW s \in Calls, NEW u \in Users, SyncApply(s, u)
  PROVE  /\ GroupSyncTypeOK'
         /\ \A p \in Paths : keycloak[p] # NoGroup => keycloak'[p] # NoGroup
<1>1. UNCHANGED <<world, list, members, flags, task, poll, quiet>>
  BY DEF SyncApply
<1>2. PICK added, removed : Applied(u, added, removed)
  BY DEF SyncApply
<1>3. /\ keycloak' \in [Paths -> Group]
      /\ \A p \in Paths : keycloak[p] # NoGroup => keycloak'[p] # NoGroup
  BY <1>2, AppliedTypes DEF GroupSyncTypeOK
<1>4. failures' \in 0..MaxFailures /\ clean' \in [Calls -> BOOLEAN]
  <2>1. (failures' = failures \/ FailureHappens) /\ (clean' = clean \/ Disturb)
    BY DEF SyncApply
  <2>2. clean' \in [Calls -> BOOLEAN]
    BY <2>1 DEF Disturb, GroupSyncTypeOK
  <2> QED BY <2>1, <2>2, FailureTypes
<1>5. sync' \in [Calls -> Sync]
  <2> DEFINE adds == sync[s].adds \ ({u} \X Paths)
             removes == sync[s].removes \ ({u} \X Paths)
  <2>1. sync[s] \in Sync
    BY DEF GroupSyncTypeOK
  <2>2. sync[s].adds \in Updates /\ sync[s].removes \in Updates
    BY <2>1 DEF Sync
  <2>3. adds \in Updates /\ removes \in Updates
    BY <2>2 DEF Updates
  <2>4. sync' = [sync EXCEPT ![s] = [sync[s] EXCEPT !.adds = adds, !.removes = removes]]
    BY DEF SyncApply
  <2> HIDE DEF adds, removes
  <2>5. [sync[s] EXCEPT !.adds = adds, !.removes = removes] \in Sync
    BY <2>1, <2>3 DEF Sync
  <2> QED BY <2>4, <2>5 DEF GroupSyncTypeOK
<1> QED
  BY <1>1, <1>3, <1>4, <1>5 DEF world, flags, GroupSyncTypeOK

LEMMA PollKeepsTypes ==
  ASSUME GroupSyncTypeOK, PollStep
  PROVE  GroupSyncTypeOK'
<1>1. /\ UNCHANGED <<world, keycloak, sync, task, quiet, ldapSyncActive, isSyncRunning, targetKnown>>
      /\ initialized' \in BOOLEAN
      /\ clean' = clean \/ Disturb
      /\ failures' = failures \/ FailureHappens
  BY DEF PollStep, PollStart, PollFetch, PollList, PollMembers, PollMembersFail, PollWrite,
         PollDone, PollFails, flags, GroupSyncTypeOK
<1>2. failures' \in 0..MaxFailures /\ clean' \in [Calls -> BOOLEAN]
  BY <1>1, FailureTypes DEF Disturb, GroupSyncTypeOK
<1>3. poll \in Poll /\ poll.groups \in SUBSET Paths /\ poll.task \in [Paths -> PollTask]
  BY DEF GroupSyncTypeOK, Poll
<1>4. list' \in SUBSET Paths
  BY <1>3 DEF PollStep, PollStart, PollFetch, PollList, PollMembers, PollMembersFail, PollWrite,
         PollDone, PollFails, GroupSyncTypeOK
<1>5. members' \in [Paths -> Group]
  <2>1. CASE members' = members
    BY <2>1 DEF GroupSyncTypeOK
  <2>2. ASSUME NEW p \in Paths, PollWrite(p)
        PROVE  members' \in [Paths -> Group]
    <3>1. poll.task[p].members \in Group
      BY <1>3 DEF PollTask
    <3> QED BY <2>2, <3>1 DEF PollWrite, GroupSyncTypeOK
  <2> QED BY <2>1, <2>2 DEF PollStep, PollStart, PollFetch, PollList, PollMembers,
         PollMembersFail, PollDone, PollFails
<1>6. poll' \in Poll
  <2>1. \A pc \in {"fetch", "list"}, g \in SUBSET Paths :
          [poll EXCEPT !.pc = pc] \in Poll /\ [poll EXCEPT !.pc = pc, !.groups = g] \in Poll
    BY <1>3 DEF Poll
  <2>2. CASE PollStart
    <3>1. {} \in SUBSET Paths
      OBVIOUS
    <3> QED BY <2>1, <2>2, <3>1 DEF PollStart
  <2>3. CASE PollFetch
    <3>1. Groups \in SUBSET Paths
      BY DEF Groups
    <3> QED BY <2>1, <2>3, <3>1 DEF PollFetch
  <2>4. CASE PollList
    <3> DEFINE row == [p \in Paths |->
                IF p \in poll.groups THEN [NoPollTask EXCEPT !.pc = "fetch"] ELSE NoPollTask]
    <3>1. [NoPollTask EXCEPT !.pc = "fetch"] \in PollTask
      BY Constants DEF PollTask
    <3>2. row \in [Paths -> PollTask]
      BY <3>1, Constants
    <3>3. poll' = [poll EXCEPT !.pc = "members", !.groups = {}, !.task = row]
      BY <2>4 DEF PollList
    <3> HIDE DEF row
    <3> QED BY <1>3, <3>2, <3>3 DEF Poll
  <2>5. CASE poll' = IdlePoll
    BY <2>5, Constants
  <2>6. ASSUME NEW p \in Paths, NEW t \in PollTask, poll' = [poll EXCEPT !.task[p] = t]
        PROVE  poll' \in Poll
    <3>1. [poll.task EXCEPT ![p] = t] \in [Paths -> PollTask]
      BY <1>3
    <3>2. poll' = [poll EXCEPT !.task = [poll.task EXCEPT ![p] = t]]
      BY <2>6
    <3> QED BY <1>3, <3>1, <3>2 DEF Poll
  <2>7. ASSUME NEW p \in Paths, PollMembers(p)
        PROVE  poll' \in Poll
    <3>1. CASE keycloak[p] # NoGroup
      <4>1. keycloak[p] \in Group /\ poll.task[p] \in PollTask
        BY <1>3 DEF GroupSyncTypeOK
      <4>2. [poll.task[p] EXCEPT !.pc = "write", !.members = keycloak[p]] \in PollTask
        BY <4>1 DEF PollTask
      <4>3. poll' = [poll EXCEPT !.task[p] = [poll.task[p] EXCEPT !.pc = "write", !.members = keycloak[p]]]
        <5>1. poll' = [poll EXCEPT !.task[p].pc = "write", !.task[p].members = keycloak[p]]
          BY <2>7, <3>1 DEF PollMembers
        <5> QED BY <5>1, <1>3 DEF Poll, PollTask
      <4> QED BY <2>6, <4>2, <4>3
    <3>2. CASE keycloak[p] = NoGroup
      BY <2>6, <2>7, <3>2, Constants DEF PollMembers
    <3> QED BY <3>1, <3>2
  <2>8. ASSUME NEW p \in Paths, PollMembersFail(p)
        PROVE  poll' \in Poll
    <3>1. poll.task[p] \in PollTask
      BY <1>3
    <3>2. CASE Retries(poll.task[p].attempt)
      <4>1. poll.task[p].attempt + 1 \in 1..MaximumRetries
        BY <3>1, <3>2, LdapGroupSyncAssumption DEF Retries, PollTask
      <4>2. [poll.task[p] EXCEPT !.attempt = @ + 1] \in PollTask
        BY <3>1, <4>1 DEF PollTask
      <4>3. poll' = [poll EXCEPT !.task[p] = [poll.task[p] EXCEPT !.attempt = @ + 1]]
        BY <2>8, <3>2 DEF PollMembersFail
      <4> QED BY <2>6, <4>2, <4>3
    <3>3. CASE ~Retries(poll.task[p].attempt)
      BY <2>6, <2>8, <3>3, Constants DEF PollMembersFail
    <3> QED BY <3>2, <3>3
  <2>9. ASSUME NEW p \in Paths, PollWrite(p)
        PROVE  poll' \in Poll
    BY <2>6, <2>9, Constants DEF PollWrite
  <2> QED BY <2>2, <2>3, <2>4, <2>5, <2>7, <2>8, <2>9 DEF PollStep, PollDone, PollFails
<1> QED
  BY <1>1, <1>2, <1>4, <1>5, <1>6 DEF world, GroupSyncTypeOK

\* A step of a direct update touches what it is about, and disturbs the calls then.
LEMMA DirectEffects ==
  ASSUME NEW p \in Paths, DirectStep(p)
  PROVE  /\ UNCHANGED <<ldap, ldapSyncActive, initialized, targetKnown, isSyncRunning>>
         /\ UNCHANGED <<sync, task, poll, quiet>>
         /\ UNCHANGED <<keycloak, list, members, clean>> \/ Disturb
BY DEF DirectStep, DirectBegin, DirectCreate, DirectSearch, DirectAddList, UpdateMembership, Reconcile,
       DirectApply, DirectFails, flags

\* It only adds groups.
LEMMA DirectKeepsTypes ==
  ASSUME GroupSyncTypeOK, NEW p \in Paths, DirectStep(p)
  PROVE  /\ GroupSyncTypeOK'
         /\ \A q \in Paths : keycloak[q] # NoGroup => keycloak'[q] # NoGroup
<1>1. /\ direct[p] \in Direct /\ keycloak[p] \in Group /\ list \in SUBSET Paths
      /\ direct \in [Paths -> Direct] /\ keycloak \in [Paths -> Group] /\ members \in [Paths -> Group]
  BY DEF GroupSyncTypeOK
<1>2. \A d \in Direct : [direct EXCEPT ![p] = d] \in [Paths -> Direct]
  BY <1>1
<1>3. \A pc \in {"none", "create", "search", "addList", "apply"} : [direct[p] EXCEPT !.pc = pc] \in Direct
  BY <1>1 DEF Direct
<1>4. direct' \in [Paths -> Direct]
  <2>1. ASSUME NEW pc \in {"none", "create", "search", "addList", "apply"}, DirectGoto(p, pc)
        PROVE  direct' \in [Paths -> Direct]
    BY <2>1, <1>2, <1>3 DEF DirectGoto
  <2>2. CASE DirectEnds(p)
    BY <2>2, <1>2, Constants DEF DirectEnds
  <2>3. CASE DirectBegin(p)
    BY <2>1, <2>3 DEF DirectBegin
  <2>4. CASE DirectCreate(p)
    BY <2>1, <2>2, <2>4 DEF DirectCreate
  <2>5. CASE DirectSearch(p)
    <3>1. [pc |-> "addList", list |-> list] \in Direct
      BY <1>1 DEF Direct
    <3> QED BY <2>2, <2>5, <3>1, <1>2 DEF DirectSearch
  <2>6. CASE DirectAddList(p)
    <3>1. [NoDirect EXCEPT !.pc = "apply"] \in Direct
      BY Constants DEF Direct
    <3> QED BY <2>6, <3>1, <1>2 DEF DirectAddList
  <2> QED BY <2>2, <2>3, <2>4, <2>5, <2>6
          DEF DirectStep, UpdateMembership, Reconcile, DirectApply, DirectFails
<1>5. keycloak' \in [Paths -> Group] /\ \A q \in Paths : keycloak[q] # NoGroup => keycloak'[q] # NoGroup
  <2>1. ASSUME NEW add \in SUBSET Users, NEW remove, DirectApply(p, add, remove)
        PROVE  keycloak' \in [Paths -> Group] /\ \A q \in Paths : keycloak[q] # NoGroup => keycloak'[q] # NoGroup
    <3>1. CASE keycloak[p] = NoGroup
      BY <2>1, <3>1, <1>1 DEF DirectApply
    <3>2. CASE keycloak[p] # NoGroup
      <4>1. (keycloak[p] \cup add) \ remove \in SUBSET Users
        BY <1>1, <3>2 DEF Group
      <4>2. keycloak' = [keycloak EXCEPT ![p] = (keycloak[p] \cup add) \ remove]
        BY <2>1, <3>2 DEF DirectApply
      <4> QED BY <4>1, <4>2, <1>1, LdapGroupSyncAssumption DEF Group
    <3> QED BY <3>1, <3>2
  <2>2. CASE DirectCreate(p)
    <3>1. {} \in Group /\ {} # NoGroup
      BY LdapGroupSyncAssumption DEF Group
    <3> QED BY <2>2, <3>1, <1>1 DEF DirectCreate
  <2>3. \A desired \in SUBSET Users : desired \ Cached(p) \in SUBSET Users
    OBVIOUS
  <2>4. CASE UpdateMembership(p) \/ Reconcile(p)
    BY <2>1, <2>3, <2>4 DEF UpdateMembership, Reconcile
  <2>5. CASE keycloak' = keycloak
    BY <2>5, <1>1
  <2> QED BY <2>2, <2>4, <2>5 DEF DirectStep, DirectBegin, DirectSearch, DirectAddList, DirectFails
<1>6. list' \in SUBSET Paths /\ members' \in [Paths -> Group]
  <2>1. CASE DirectAddList(p)
    BY <1>1, <2>1 DEF DirectAddList, Direct, Group
  <2>2. CASE UNCHANGED <<list, members>>
    BY <1>1, <2>2
  <2> QED BY <2>1, <2>2 DEF DirectStep, DirectBegin, DirectCreate, DirectSearch, UpdateMembership, Reconcile,
                            DirectApply, DirectFails
<1>7. failures' \in 0..MaxFailures
  <2>1. failures' = failures \/ FailureHappens
    BY DEF DirectStep, DirectBegin, DirectCreate, DirectSearch, DirectAddList, UpdateMembership, Reconcile,
           DirectApply, DirectFails
  <2> QED BY <2>1, FailureTypes
<1>8. changes' \in 0..MaxChanges
  <2>1. changes' = changes \/ (changes < MaxChanges /\ changes' = changes + 1)
    BY DEF DirectStep, DirectBegin, DirectCreate, DirectSearch, DirectAddList, UpdateMembership, Reconcile,
           DirectApply, DirectFails
  <2> QED BY <2>1, LdapGroupSyncAssumption DEF GroupSyncTypeOK
<1>9. clean' \in [Calls -> BOOLEAN]
  BY DirectEffects DEF Disturb, GroupSyncTypeOK
<1> QED BY <1>4, <1>5, <1>6, <1>7, <1>8, <1>9, DirectEffects DEF GroupSyncTypeOK

LEMMA EnvironmentKeepsTypes ==
  ASSUME GroupSyncTypeOK,
         NEW p \in Paths, LdapChange(p) \/ DirectStep(p)
  PROVE  /\ GroupSyncTypeOK'
         /\ \A q \in Paths : keycloak[q] # NoGroup => keycloak'[q] # NoGroup
<1>1. CASE LdapChange(p)
  <2>1. ldap' \in [Paths -> Group] /\ changes' \in 0..MaxChanges /\ quiet' \in [Calls -> BOOLEAN]
    BY <1>1, LdapGroupSyncAssumption DEF LdapChange, GroupSyncTypeOK
  <2>2. UNCHANGED <<keycloak, list, members, flags, sync, task, poll, failures, clean>>
    BY <1>1 DEF LdapChange
  <2>3. direct' = direct
    BY <1>1 DEF LdapChange
  <2> QED BY <2>1, <2>2, <2>3 DEF flags, GroupSyncTypeOK
<1>2. CASE DirectStep(p)
  BY <1>2, DirectKeepsTypes
<1> QED BY <1>1, <1>2

\* The types are an invariant of Next.
LEMMA NextKeepsTypes == GroupSyncTypeOK /\ [Next]_vars => GroupSyncTypeOK'
<1> SUFFICES ASSUME GroupSyncTypeOK, [Next]_vars PROVE GroupSyncTypeOK'
  OBVIOUS
<1>1. CASE LdapInit
  BY <1>1 DEF LdapInit, world, GroupSyncTypeOK
<1>2. ASSUME NEW s \in Calls, SyncStep(s) PROVE GroupSyncTypeOK'
  BY <1>2, SyncKeepsTypes
<1>3. ASSUME NEW s \in Calls, NEW p \in Paths, TaskStep(s, p) PROVE GroupSyncTypeOK'
  BY <1>3, TaskKeepsTypes
<1>4. ASSUME NEW s \in Calls, NEW u \in Users, SyncApply(s, u) PROVE GroupSyncTypeOK'
  BY <1>4, ApplyKeepsTypes
<1>5. CASE PollStep
  BY <1>5, PollKeepsTypes
<1>6. ASSUME NEW p \in Paths, LdapChange(p) \/ DirectStep(p)
      PROVE GroupSyncTypeOK'
  BY <1>6, EnvironmentKeepsTypes
<1>7. CASE UNCHANGED vars
  BY <1>7 DEF vars, world, flags, GroupSyncTypeOK
<1> QED BY <1>1, <1>2, <1>3, <1>4, <1>5, <1>6, <1>7 DEF Next

\* Every variable of the sync and of polling holds what the code can put there,
\* in particular polling tries a group no more than maximumRetries times.
THEOREM GroupSyncTypeCorrect == Spec => []GroupSyncTypeOK
BY InitTypes, NextKeepsTypes, PTL DEF Spec

-----------------------------------------------------------------------------
(* Admin groups *)

\* A task that is about to delete is not one of an admin group.
NoAdminDoomed ==
  \A s \in Calls, p \in AdminPaths : task[s][p].pc # "delete"

LEMMA NoAdminDoomedStays ==
  GroupSyncTypeOK /\ NoAdminDoomed /\ [Next]_vars => NoAdminDoomed'
<1> SUFFICES ASSUME GroupSyncTypeOK, NoAdminDoomed, [Next]_vars PROVE NoAdminDoomed'
  OBVIOUS
<1> USE DEF NoAdminDoomed
<1>0. AdminPaths \subseteq Paths
  BY LdapGroupSyncAssumption
<1>1. CASE task' = task
  BY <1>1
<1>2. ASSUME NEW s \in Calls, NEW p \in Paths, TaskStep(s, p) PROVE NoAdminDoomed'
  <2>1. task'[s][p].pc # "delete" \/ task'[s][p] = task[s][p]
    BY <1>2, SMTT(40) DEF TaskStep, TaskEnsure, TaskCreate, TaskSearch, TaskAddList, TaskAttributes,
         TaskAttributesWrite, TaskDiff, TaskWrite, TaskDelete, TaskDrop, TaskFails, TaskGoto,
         TaskEnds, TaskThrows, NoTask, GroupSyncTypeOK, Task
  <2>2. \A c \in Calls, q \in Paths : c # s \/ q # p => task'[c][q] = task[c][q]
    BY <1>2, SMTT(40) DEF TaskStep, TaskEnsure, TaskCreate, TaskSearch, TaskAddList, TaskAttributes,
         TaskAttributesWrite, TaskDiff, TaskWrite, TaskDelete, TaskDrop, TaskFails, TaskGoto,
         TaskEnds, TaskThrows, GroupSyncTypeOK
  <2> QED BY <2>1, <2>2, <1>0
<1>3. ASSUME NEW s \in Calls, SyncSearch(s) PROVE NoAdminDoomed'
  <2>1. CASE task' = task
    BY <2>1
  <2>2. CASE task' # task
    <3>1. \A c \in Calls, p \in Paths :
            task'[c][p] = IF c # s THEN task[c][p]
                          ELSE IF ldap[p] # NoGroup THEN [NoTask EXCEPT !.pc = "ensure"] ELSE NoTask
      <4>1. task' = [task EXCEPT ![s] = [p \in Paths |->
                       IF p \in {q \in Paths : ldap[q] # NoGroup}
                       THEN [NoTask EXCEPT !.pc = "ensure"] ELSE NoTask]]
        BY <1>3, <2>2 DEF SyncSearch
      <4> QED BY <4>1 DEF GroupSyncTypeOK
    <3> QED BY <3>1, <1>0 DEF NoTask
  <2> QED BY <2>1, <2>2
<1>4. ASSUME NEW s \in Calls, SyncDelete(s) PROVE NoAdminDoomed'
  <2>1. \A c \in Calls, p \in Paths :
          task'[c][p] = IF c # s THEN task[c][p]
                        ELSE IF p \in ToDelete(s) THEN [NoTask EXCEPT !.pc = "delete"] ELSE NoTask
    BY <1>4 DEF SyncDelete, GroupSyncTypeOK
  <2>2. \A p \in AdminPaths : p \notin ToDelete(s)
    BY DEF ToDelete
  <2> QED BY <2>1, <2>2, <1>0 DEF NoTask
<1>5. CASE LdapInit \/ PollStep \/ UNCHANGED vars
  BY <1>5, <1>1 DEF LdapInit, PollStep, PollStart, PollFetch, PollList, PollMembers,
         PollMembersFail, PollWrite, PollDone, PollFails, vars
<1>6. ASSUME NEW s \in Calls, SyncStep(s) PROVE NoAdminDoomed'
  BY <1>1, <1>3, <1>4, <1>6 DEF SyncStep, SyncNoConfig, SyncStart, SyncTarget, SyncFails,
         SyncAttributes, SyncAttributesWrite, SyncDeleted, SyncFinish
<1>7. ASSUME NEW s \in Calls, NEW u \in Users, SyncApply(s, u) PROVE NoAdminDoomed'
  BY <1>1, <1>7 DEF SyncApply
<1>8. ASSUME NEW p \in Paths, LdapChange(p) \/ DirectStep(p)
      PROVE NoAdminDoomed'
  BY <1>1, <1>8, DirectEffects DEF LdapChange
<1> QED BY <1>2, <1>5, <1>6, <1>7, <1>8 DEF Next

\* No step takes an admin group out of Keycloak.
LEMMA AdminGroupsStep ==
  ASSUME GroupSyncTypeOK, NoAdminDoomed, [Next]_vars, NEW p \in AdminPaths, keycloak[p] # NoGroup
  PROVE  keycloak'[p] # NoGroup
<1>0. p \in Paths
  BY LdapGroupSyncAssumption
<1>1. CASE keycloak' = keycloak
  BY <1>1
<1>2. ASSUME NEW s \in Calls, NEW q \in Paths, TaskStep(s, q) PROVE keycloak'[p] # NoGroup
  <2>1. CASE TaskCreate(s, q)
    BY <2>1, <1>0 DEF TaskCreate, GroupSyncTypeOK
  <2>2. CASE TaskDelete(s, q)
    <3>1. q # p
      BY <2>2 DEF TaskDelete, NoAdminDoomed
    <3> QED BY <2>2, <3>1, <1>0 DEF TaskDelete, GroupSyncTypeOK
  <2> QED BY <1>1, <1>2, <2>1, <2>2 DEF TaskStep, TaskEnsure, TaskSearch, TaskAddList,
         TaskAttributes, TaskAttributesWrite, TaskDiff, TaskWrite, TaskDrop, TaskFails
<1>3. ASSUME NEW s \in Calls, SyncStep(s) PROVE keycloak'[p] # NoGroup
  BY <1>1, <1>3 DEF SyncStep, SyncNoConfig, SyncStart, SyncTarget, SyncSearch, SyncFails,
         SyncAttributes, SyncAttributesWrite, SyncDelete, SyncDeleted, SyncFinish
<1>4. ASSUME NEW s \in Calls, NEW u \in Users, SyncApply(s, u) PROVE keycloak'[p] # NoGroup
  BY <1>0, <1>4, ApplyKeepsTypes
<1>5. CASE LdapInit \/ PollStep \/ UNCHANGED vars
  BY <1>5, <1>1 DEF LdapInit, PollStep, PollStart, PollFetch, PollList, PollMembers,
         PollMembersFail, PollWrite, PollDone, PollFails, vars
<1>6. ASSUME NEW q \in Paths, LdapChange(q) \/ DirectStep(q)
      PROVE keycloak'[p] # NoGroup
  BY <1>0, <1>6, EnvironmentKeepsTypes
<1> QED BY <1>2, <1>3, <1>4, <1>5, <1>6 DEF Next

\* Whatever fails, overlaps or arrives late, no admin group is deleted.
THEOREM AdminGroupsStay == Spec => AdminGroupsKept
<1>1. Init => NoAdminDoomed
  BY LdapGroupSyncAssumption DEF Init, NoAdminDoomed, NoTask
<1>2. GroupSyncTypeOK /\ NoAdminDoomed /\ [Next]_vars =>
        [\A p \in AdminPaths : keycloak[p] # NoGroup => keycloak'[p] # NoGroup]_vars
  BY AdminGroupsStep
<1> QED BY <1>1, <1>2, NoAdminDoomedStays, GroupSyncTypeCorrect, PTL DEF Spec, AdminGroupsKept

-----------------------------------------------------------------------------
(* What an undisturbed sync has collected, and what it will find *)

\* The call is past its search of the directory, and nothing interfered.
Undisturbed(s) ==
  clean[s] /\ sync[s].pc \in {"groups", "attributesWrite", "apply", "delete", "finish"}

\* No other call works on the groups, and neither does polling.
Alone(s) ==
  /\ poll.pc = "idle"
  /\ \A c \in Calls \ {s} : ~Running(c) /\ TasksDone(c)

Adds(s, p) == {u \in Users : <<u, p>> \in sync[s].adds}
Removes(s, p) == {u \in Users : <<u, p>> \in sync[s].removes}

\* The updates collected for p would make Keycloak hold 'group'.
Due(s, p, group) ==
  /\ keycloak[p] # NoGroup
  /\ Adds(s, p) = group \ keycloak[p]
  /\ Removes(s, p) = keycloak[p] \ group

\* Where the task of a group of the directory stands.
TaskStands(s, p) ==
  LET t == task[s][p] IN
  /\ t.pc \notin {"write", "none"} => Adds(s, p) = {} /\ Removes(s, p) = {}
  /\ t.pc = "ensure" => keycloak[p] = NoGroup \/ Cached(p) = keycloak[p]
  /\ t.pc \in {"search", "addList"} => keycloak[p] = {}
  /\ t.pc \in {"attributes", "attributesWrite", "diff"} => Cached(p) = keycloak[p]
  /\ t.pc = "attributesWrite" => t.members = members[p]
  /\ t.pc = "write" => t.members # NoGroup /\ Due(s, p, t.members)
  /\ t.pc = "none" => Due(s, p, Cached(p))
  /\ quiet[s] => /\ ldap[p] # NoGroup
                 /\ t.pc = "write" => t.members = ldap[p]
                 /\ t.pc = "none" => Cached(p) = ldap[p]

\* While the tasks run, the lists show groups that Keycloak holds.
ListsKnown(s) ==
  /\ list \subseteq Groups /\ sync[s].byPath \subseteq Groups
  /\ \A p \in Paths : task[s][p].pc = "addList" => task[s][p].list \subseteq Groups

TasksStand(s) ==
  /\ ListsKnown(s)
  /\ \A p \in Paths : task[s][p].pc \notin {"delete", "drop"}
  /\ \A p \in Paths \ sync[s].dns : task[s][p].pc = "none"
  /\ \A p \in sync[s].dns : TaskStands(s, p)

\* All tasks have ended; the updates are collected, or partly applied.
UpdatesStand(s) ==
  TasksDone(s) /\ \A p \in sync[s].dns : TaskStands(s, p)

\* The updates are applied; only groups the directory lacks are worked on.
DeletionsStand(s) ==
  /\ \A p \in Paths : task[s][p].pc \in {"none", "delete", "drop"}
  /\ sync[s].pc = "finish" => TasksDone(s)
  /\ \A p \in sync[s].dns : /\ task[s][p].pc = "none" /\ Cached(p) = keycloak[p]
                            /\ quiet[s] => Cached(p) = ldap[p] /\ ldap[p] # NoGroup

\* In a quiet call the directory has the groups the call found, and what else
\* Keycloak holds was listed; from the deletion on, it will be or is deleted.
OthersStand(s) ==
  quiet[s] =>
    /\ \A p \in Paths : ldap[p] = NoGroup => p \notin sync[s].dns
    /\ \A p \in Paths : ldap[p] # NoGroup => p \in sync[s].dns
    /\ sync[s].pc \in {"groups", "attributesWrite", "apply"} =>
         Groups \subseteq sync[s].byPath \cup sync[s].dns
    /\ sync[s].pc \in {"delete", "finish"} =>
         \A p \in Groups \ (sync[s].dns \cup AdminPaths) : task[s][p].pc = "delete"

CallStands(s) ==
  Undisturbed(s) =>
    /\ Alone(s)
    /\ sync[s].pc = "groups" => TasksStand(s)
    /\ sync[s].pc \in {"attributesWrite", "apply"} => UpdatesStand(s)
    /\ sync[s].pc \in {"delete", "finish"} => DeletionsStand(s)
    /\ OthersStand(s)

\* A call that has not searched yet holds nothing of an earlier one.
Fresh(s) ==
  sync[s].pc \in {"target", "search"} => sync[s].adds = {} /\ sync[s].removes = {} /\ TasksDone(s)

SyncInv == GroupSyncTypeOK /\ \A s \in Calls : Fresh(s) /\ CallStands(s)

LEMMA SyncFinds == SyncInv => CacheFollows /\ SyncDelivers
<1> SUFFICES ASSUME SyncInv, NEW s \in Calls, sync[s].pc = "finish", clean[s]
    PROVE  /\ \A p \in sync[s].dns : Cached(p) = keycloak[p]
           /\ quiet[s] => \A p \in Paths :
                /\ ldap[p] # NoGroup => keycloak[p] = ldap[p]
                /\ ldap[p] = NoGroup /\ p \notin AdminPaths => keycloak[p] = NoGroup
  BY DEF CacheFollows, SyncDelivers
<1>1. DeletionsStand(s) /\ OthersStand(s)
  BY DEF SyncInv, CallStands, Undisturbed
<1>2. \A p \in sync[s].dns : Cached(p) = keycloak[p]
  BY <1>1 DEF DeletionsStand
<1>3. ASSUME quiet[s], NEW p \in Paths, ldap[p] # NoGroup PROVE keycloak[p] = ldap[p]
  BY <1>1, <1>2, <1>3 DEF DeletionsStand, OthersStand
<1>4. ASSUME quiet[s], NEW p \in Paths, ldap[p] = NoGroup, p \notin AdminPaths PROVE keycloak[p] = NoGroup
  BY <1>1, <1>4 DEF DeletionsStand, OthersStand, TasksDone, Groups
<1> QED BY <1>2, <1>3, <1>4

-----------------------------------------------------------------------------
(* One task of an undisturbed call *)

LEMMA NotThrown ==
  ASSUME ~Disturb, NEW s \in Calls, NEW p \in Paths
  PROVE  ~Throw(s) /\ ~TaskThrows(s, p)
BY DEF Throw, TaskThrows

LEMMA NotDisturbed ==
  ASSUME NEW s \in Calls, clean'[s]
  PROVE  ~Disturb
BY DEF Disturb

\* What a task that does not fail leaves alone.
LEMMA TaskFrame ==
  ASSUME GroupSyncTypeOK, NEW s \in Calls, NEW p \in Paths, TaskStep(s, p), ~Disturb
  PROVE  /\ \A q \in Paths : q # p => /\ task'[s][q] = task[s][q]
                                      /\ keycloak'[q] = keycloak[q] /\ members'[q] = members[q]
                                      /\ Adds(s, q)' = Adds(s, q) /\ Removes(s, q)' = Removes(s, q)
         /\ \A c \in Calls : c # s => task'[c] = task[c] /\ sync'[c] = sync[c]
         /\ sync'[s].pc = sync[s].pc /\ sync'[s].dns = sync[s].dns
         /\ UNCHANGED <<poll, ldap, quiet, clean>>
<1>0. ~TaskThrows(s, p)
  BY NotThrown
<1>1. /\ \A q \in Paths : q # p => task'[s][q] = task[s][q]
      /\ \A c \in Calls : c # s => task'[c] = task[c]
  BY <1>0 DEF TaskStep, TaskEnsure, TaskCreate, TaskSearch, TaskAddList, TaskAttributes,
         TaskAttributesWrite, TaskDiff, TaskWrite, TaskDelete, TaskDrop, TaskFails, TaskGoto,
         TaskEnds, GroupSyncTypeOK
<1>2. \A q \in Paths : q # p => keycloak'[q] = keycloak[q] /\ members'[q] = members[q]
  BY <1>0 DEF TaskStep, TaskEnsure, TaskCreate, TaskSearch, TaskAddList, TaskAttributes,
         TaskAttributesWrite, TaskDiff, TaskWrite, TaskDelete, TaskDrop, TaskFails, GroupSyncTypeOK
<1>3. UNCHANGED <<poll, ldap, quiet, clean>>
  BY <1>0 DEF TaskStep, TaskEnsure, TaskCreate, TaskSearch, TaskAddList, TaskAttributes,
         TaskAttributesWrite, TaskDiff, TaskWrite, TaskDelete, TaskDrop, TaskFails, world
<1>4. /\ \A c \in Calls : c # s => sync'[c] = sync[c]
      /\ sync'[s].pc = sync[s].pc /\ sync'[s].dns = sync[s].dns
      /\ \A q \in Paths : q # p => \A u : /\ <<u, q>> \in sync'[s].adds <=> <<u, q>> \in sync[s].adds
                                          /\ <<u, q>> \in sync'[s].removes <=> <<u, q>> \in sync[s].removes
  <2>0. sync[s] \in Sync /\ sync \in [Calls -> Sync]
    BY DEF GroupSyncTypeOK
  <2>1. CASE sync' = sync
    BY <2>1
  <2>2. CASE TaskSearch(s, p)
    <3>1. sync' = [sync EXCEPT ![s].byPath = @ \cup {p}]
      BY <1>0, <2>2 DEF TaskSearch
    <3> QED BY <2>0, <3>1 DEF Sync
  <2>3. CASE TaskDiff(s, p)
    <3>1. PICK missing, surplus : sync' = [sync EXCEPT ![s].adds = @ \cup (missing \X {p}),
                                                       ![s].removes = @ \cup (surplus \X {p})]
      BY <1>0, <2>3 DEF TaskDiff
    <3>2. PICK k : k = [sync[s] EXCEPT !.adds = @ \cup (missing \X {p}), !.removes = @ \cup (surplus \X {p})]
      OBVIOUS
    <3>3. sync' = [sync EXCEPT ![s] = k]
      BY <3>1, <3>2
    <3>4. /\ k.pc = sync[s].pc /\ k.dns = sync[s].dns
          /\ k.adds = sync[s].adds \cup (missing \X {p}) /\ k.removes = sync[s].removes \cup (surplus \X {p})
      BY <2>0, <3>2 DEF Sync
    <3> QED BY <2>0, <3>3, <3>4
  <2> QED BY <1>0, <2>1, <2>2, <2>3 DEF TaskStep, TaskEnsure, TaskCreate, TaskAddList, TaskAttributes,
         TaskAttributesWrite, TaskWrite, TaskDelete, TaskDrop, TaskFails, flags
<1> QED BY <1>1, <1>2, <1>3, <1>4 DEF Adds, Removes

\* What one task changes is its own group, and lists that stay known.
LEMMA TaskMoves ==
  ASSUME GroupSyncTypeOK, NEW s \in Calls, NEW p \in Paths, TaskStep(s, p), ~Disturb, TasksStand(s)
  PROVE  /\ p \in sync[s].dns
         /\ TaskStands(s, p)' /\ ListsKnown(s)'
         /\ task'[s][p].pc \notin {"delete", "drop"}
         /\ sync[s].byPath \subseteq sync'[s].byPath
         /\ Groups' \subseteq Groups \cup {p}
<1> DEFINE t == task[s][p]
<1>0. ~TaskThrows(s, p)
  BY NotThrown
<1>1. t \in Task /\ task \in [Calls -> [Paths -> Task]] /\ sync[s] \in Sync /\ sync \in [Calls -> Sync]
  BY DEF GroupSyncTypeOK
<1>2. t.pc # "none" /\ t.pc \notin {"delete", "drop"}
  BY DEF TasksStand, TaskStep, TaskEnsure, TaskCreate, TaskSearch, TaskAddList, TaskAttributes,
         TaskAttributesWrite, TaskDiff, TaskWrite, TaskDelete, TaskDrop, TaskFails
<1>3. p \in sync[s].dns /\ TaskStands(s, p) /\ ListsKnown(s)
  BY <1>2 DEF TasksStand
<1>4. /\ \A q \in Paths : q # p => task'[s][q] = task[s][q]
      /\ UNCHANGED <<ldap, quiet>>
  BY TaskFrame
<1>5. members \in [Paths -> Group] /\ keycloak \in [Paths -> Group] /\ ldap[p] \in Group
  BY DEF GroupSyncTypeOK
<1>6. {} # NoGroup /\ {} \in Group /\ (\A group \in Group : group # NoGroup => group \in SUBSET Users)
  BY LdapGroupSyncAssumption DEF Group
<1> DEFINE Calm == /\ sync' = sync /\ keycloak' = keycloak
           Goal == /\ TaskStands(s, p)' /\ ListsKnown(s)'
                   /\ task'[s][p].pc \notin {"delete", "drop"}
                   /\ sync[s].byPath \subseteq sync'[s].byPath
                   /\ Groups' \subseteq Groups \cup {p}
<1> SUFFICES Goal
  BY <1>3
<1>7. ASSUME Calm, list' = list,
             task'[s][p].pc # "addList" \/ task'[s][p].list = list
      PROVE  /\ ListsKnown(s)' /\ Groups' \subseteq Groups \cup {p}
             /\ sync[s].byPath \subseteq sync'[s].byPath
  BY <1>3, <1>4, <1>7 DEF ListsKnown, Groups
<1>8. CASE TaskEnsure(s, p)
  <2>1. Calm /\ members' = members /\ list' = list
    BY <1>8 DEF TaskEnsure, flags
  <2>2. PICK pc \in {"attributes", "create"} :
          /\ TaskGoto(s, p, pc)
          /\ pc = "attributes" => p \in Groups
    BY <1>3, <1>8 DEF TaskEnsure, ListsKnown
  <2>3. task'[s][p].pc = pc
    BY <1>1, <2>2 DEF TaskGoto, Task
  <2>4. TaskStands(s, p)'
    BY <1>3, <1>4, <1>8, <2>1, <2>2, <2>3 DEF TaskEnsure, TaskStands, Adds, Removes, Groups, Cached
  <2> QED BY <1>7, <2>1, <2>2, <2>3, <2>4
<1>9. CASE TaskCreate(s, p)
  <2>1. /\ keycloak[p] = NoGroup /\ keycloak' = [keycloak EXCEPT ![p] = {}]
        /\ TaskGoto(s, p, "search") /\ sync' = sync /\ members' = members /\ list' = list
    BY <1>0, <1>9 DEF TaskCreate
  <2>2. task'[s][p].pc = "search"
    BY <1>1, <2>1 DEF TaskGoto, Task
  <2>3. Groups' = Groups \cup {p}
    BY <1>5, <1>6, <2>1 DEF Groups
  <2>4. ListsKnown(s)'
    BY <1>3, <1>4, <2>1, <2>2, <2>3 DEF ListsKnown
  <2>5. TaskStands(s, p)'
    BY <1>3, <1>4, <1>5, <1>9, <2>1, <2>2 DEF TaskCreate, TaskStands, Adds, Removes
  <2> QED BY <2>1, <2>2, <2>3, <2>4, <2>5
<1>10. CASE TaskSearch(s, p)
  <2>1. /\ task' = [task EXCEPT ![s][p].pc = "addList", ![s][p].list = list]
        /\ sync' = [sync EXCEPT ![s].byPath = @ \cup {p}]
        /\ keycloak[p] # NoGroup /\ UNCHANGED <<keycloak, members, list>>
    BY <1>0, <1>10 DEF TaskSearch
  <2>2. task'[s][p].pc = "addList" /\ task'[s][p].list = list
    BY <1>1, <2>1 DEF Task
  <2>3. /\ sync'[s].byPath = sync[s].byPath \cup {p}
        /\ sync'[s].adds = sync[s].adds /\ sync'[s].removes = sync[s].removes
    BY <1>1, <2>1 DEF Sync
  <2>4. ListsKnown(s)'
    BY <1>3, <1>4, <2>1, <2>2, <2>3 DEF ListsKnown, Groups
  <2>5. TaskStands(s, p)'
    BY <1>3, <1>4, <1>10, <2>1, <2>2, <2>3 DEF TaskSearch, TaskStands, Adds, Removes
  <2> QED BY <2>1, <2>2, <2>3, <2>4, <2>5 DEF Groups
<1>11. CASE TaskAddList(s, p)
  <2>1. /\ Calm /\ TaskGoto(s, p, "attributes")
        /\ list' = task[s][p].list \cup {p} /\ members' = [members EXCEPT ![p] = {}]
    BY <1>11 DEF TaskAddList, flags
  <2>2. task'[s][p].pc = "attributes"
    BY <1>1, <2>1 DEF TaskGoto, Task
  <2>3. keycloak[p] = {} /\ list' \subseteq Groups
    BY <1>3, <1>6, <1>11, <2>1 DEF TaskAddList, TaskStands, ListsKnown, Groups
  <2>4. ListsKnown(s)' /\ Groups' = Groups
    BY <1>3, <1>4, <2>1, <2>2, <2>3 DEF ListsKnown, Groups
  <2>5. TaskStands(s, p)'
    BY <1>3, <1>4, <1>5, <1>6, <1>11, <2>1, <2>2, <2>3 DEF TaskAddList, TaskStands, Adds, Removes, Cached
  <2> QED BY <2>1, <2>2, <2>4, <2>5
<1>12. CASE TaskAttributes(s, p)
  <2>1. /\ Calm /\ members' = members /\ list' = list
        /\ task' = [task EXCEPT ![s][p].pc = IF members[p] = NoGroup THEN "diff" ELSE "attributesWrite",
                                ![s][p].members = members[p]]
    BY <1>12 DEF TaskAttributes, flags
  <2>2. task'[s][p].pc \in {"diff", "attributesWrite"} /\ task'[s][p].members = members[p]
    BY <1>1, <2>1 DEF Task
  <2>3. TaskStands(s, p)'
    BY <1>3, <1>4, <1>12, <2>1, <2>2 DEF TaskAttributes, TaskStands, Adds, Removes, Cached
  <2> QED BY <1>7, <2>1, <2>2, <2>3
<1>13. CASE TaskAttributesWrite(s, p)
  <2>1. /\ Calm /\ members' = [members EXCEPT ![p] = task[s][p].members] /\ list' = list
        /\ TaskGoto(s, p, "diff")
    BY <1>13 DEF TaskAttributesWrite, flags
  <2>2. task'[s][p].pc = "diff" /\ members' = members
    BY <1>1, <1>3, <1>5, <1>13, <2>1 DEF TaskGoto, Task, TaskAttributesWrite, TaskStands
  <2>3. TaskStands(s, p)'
    BY <1>3, <1>4, <1>13, <2>1, <2>2 DEF TaskAttributesWrite, TaskStands, Adds, Removes, Cached
  <2> QED BY <1>7, <2>1, <2>2, <2>3
<1>14. CASE TaskDiff(s, p)
  <2>1. PICK desired, missing, surplus :
          desired = ldap[p] /\ missing = desired \ Cached(p) /\ surplus = Cached(p) \ desired
    OBVIOUS
  <2>2. /\ desired # NoGroup /\ keycloak' = keycloak /\ members' = members /\ list' = list
        /\ sync' = [sync EXCEPT ![s].adds = @ \cup (missing \X {p}),
                                ![s].removes = @ \cup (surplus \X {p})]
        /\ IF missing \cup surplus = {}
           THEN TaskEnds(s, p)
           ELSE task' = [task EXCEPT ![s][p].pc = "write", ![s][p].members = desired]
    BY <1>0, <1>14, <2>1 DEF TaskDiff, Missing
  <2>3. desired \in SUBSET Users /\ Cached(p) = keycloak[p] /\ Cached(p) \in SUBSET Users
    BY <1>3, <1>5, <1>6, <1>14, <2>1, <2>2 DEF TaskDiff, TaskStands, Cached
  <2>4. PICK k : k = [sync[s] EXCEPT !.adds = @ \cup (missing \X {p}),
                                     !.removes = @ \cup (surplus \X {p})]
    OBVIOUS
  <2>5. sync' = [sync EXCEPT ![s] = k]
    BY <2>2, <2>4
  <2>6. /\ sync'[s].adds = sync[s].adds \cup (missing \X {p})
        /\ sync'[s].removes = sync[s].removes \cup (surplus \X {p})
        /\ sync'[s].byPath = sync[s].byPath
    BY <1>1, <2>4, <2>5 DEF Sync
  <2>7. Adds(s, p) = {} /\ Removes(s, p) = {}
    BY <1>3, <1>14 DEF TaskDiff, TaskStands
  <2>8. Adds(s, p)' = missing /\ Removes(s, p)' = surplus
    BY <2>1, <2>3, <2>6, <2>7 DEF Adds, Removes
  <2>9. keycloak[p] # NoGroup
    BY <2>3, LdapGroupSyncAssumption
  <2>10. Due(s, p, desired)'
    BY <2>1, <2>2, <2>3, <2>8, <2>9 DEF Due
  <2>11. CASE missing \cup surplus = {}
    <3>1. task'[s][p].pc = "none" /\ task'[s][p].pc # "addList"
      BY <1>1, <2>2, <2>11 DEF TaskEnds, NoTask
    <3>2. Cached(p) = desired
      BY <2>1, <2>3, <2>11
    <3>3. TaskStands(s, p)'
      BY <1>4, <2>1, <2>2, <2>10, <3>1, <3>2 DEF TaskStands, Cached
    <3> QED BY <1>3, <1>4, <2>2, <2>6, <3>1, <3>3 DEF ListsKnown, Groups
  <2>12. CASE missing \cup surplus # {}
    <3>1. task'[s][p].pc = "write" /\ task'[s][p].members = desired
      BY <1>1, <2>2, <2>12 DEF Task
    <3>2. TaskStands(s, p)'
      BY <1>4, <2>1, <2>2, <2>10, <3>1 DEF TaskStands
    <3> QED BY <1>3, <1>4, <2>2, <2>6, <3>1, <3>2 DEF ListsKnown, Groups
  <2> QED BY <2>11, <2>12
<1>15. CASE TaskWrite(s, p)
  <2>1. /\ Calm /\ members' = [members EXCEPT ![p] = task[s][p].members] /\ list' = list
        /\ TaskEnds(s, p)
    BY <1>15 DEF TaskWrite, flags
  <2>2. task'[s][p].pc = "none"
    BY <1>1, <2>1 DEF TaskEnds, NoTask
  <2>3. /\ task[s][p].members # NoGroup /\ Due(s, p, task[s][p].members)
        /\ quiet[s] => ldap[p] # NoGroup /\ task[s][p].members = ldap[p]
    BY <1>3, <1>15 DEF TaskWrite, TaskStands
  <2>4. Cached(p)' = task[s][p].members
    BY <1>5, <2>1, <2>3 DEF Cached
  <2>5. TaskStands(s, p)'
    BY <1>4, <2>1, <2>2, <2>3, <2>4 DEF TaskStands, Due, Adds, Removes
  <2> QED BY <1>7, <2>1, <2>2, <2>5
<1> QED BY <1>0, <1>2, <1>8, <1>9, <1>10, <1>11, <1>12, <1>13, <1>14, <1>15
      DEF TaskStep, TaskDelete, TaskDrop, TaskFails

\* While a call that deletes is undisturbed, a task takes its own group away.
LEMMA TaskDeletes ==
  ASSUME GroupSyncTypeOK, NEW s \in Calls, NEW p \in Paths, TaskStep(s, p), ~Disturb,
         DeletionsStand(s), sync[s].pc = "delete", sync[s].dns \in SUBSET Paths,
         OthersStand(s)
  PROVE  DeletionsStand(s)' /\ OthersStand(s)'
<1>0. ~TaskThrows(s, p)
  BY NotThrown
<1>1. task[s][p] \in Task /\ task \in [Calls -> [Paths -> Task]] /\ keycloak \in [Paths -> Group]
  BY DEF GroupSyncTypeOK
<1>2. /\ \A q \in Paths : q # p => /\ task'[s][q] = task[s][q]
                                   /\ keycloak'[q] = keycloak[q] /\ members'[q] = members[q]
      /\ sync'[s].pc = sync[s].pc /\ sync'[s].dns = sync[s].dns
      /\ UNCHANGED <<ldap, quiet>>
  BY TaskFrame
<1>3. task[s][p].pc \in {"delete", "drop"}
  BY DEF DeletionsStand, TaskStep, TaskEnsure, TaskCreate, TaskSearch, TaskAddList, TaskAttributes,
         TaskAttributesWrite, TaskDiff, TaskWrite, TaskDelete, TaskDrop, TaskFails
<1>4. p \notin sync[s].dns
  BY <1>3 DEF DeletionsStand
<1>5. /\ task'[s][p].pc \in {"none", "drop"}
      /\ task[s][p].pc = "delete" => keycloak'[p] = NoGroup
      /\ task[s][p].pc = "drop" => keycloak' = keycloak
  <2>1. CASE TaskDelete(s, p)
    <3>1. /\ task' = [task EXCEPT ![s][p].pc = "drop", ![s][p].list = list]
          /\ keycloak' = [keycloak EXCEPT ![p] = NoGroup] /\ task[s][p].pc = "delete"
      BY <1>0, <2>1 DEF TaskDelete
    <3>2. task'[s][p].pc = "drop"
      BY <1>1, <3>1 DEF Task
    <3> QED BY <1>1, <3>1, <3>2
  <2>2. CASE TaskDrop(s, p)
    BY <1>1, <2>2 DEF TaskDrop, TaskEnds, NoTask
  <2> QED BY <1>0, <1>3, <2>1, <2>2
          DEF TaskStep, TaskEnsure, TaskCreate, TaskSearch, TaskAddList, TaskAttributes,
              TaskAttributesWrite, TaskDiff, TaskWrite, TaskFails
<1>6. DeletionsStand(s)'
  BY <1>2, <1>4, <1>5 DEF DeletionsStand, Cached
<1>7. OthersStand(s)'
  BY <1>2, <1>3, <1>4, <1>5 DEF OthersStand, Groups
<1> QED BY <1>6, <1>7

\* Every step of a task.
LEMMA TaskKeepsCalls ==
  ASSUME SyncInv, NEW s \in Calls, NEW p \in Paths, TaskStep(s, p)
  PROVE  \A c \in Calls : CallStands(c)'
<1> SUFFICES ASSUME NEW c \in Calls, Undisturbed(c)'
             PROVE  /\ Alone(c)'
                    /\ sync'[c].pc = "groups" => TasksStand(c)'
                    /\ sync'[c].pc \in {"attributesWrite", "apply"} => UpdatesStand(c)'
                    /\ sync'[c].pc \in {"delete", "finish"} => DeletionsStand(c)'
                    /\ OthersStand(c)'
  BY DEF CallStands
<1>0. GroupSyncTypeOK /\ ~Disturb
  BY NotDisturbed DEF Undisturbed, SyncInv
<1>1. /\ \A q \in Paths : q # p => /\ task'[s][q] = task[s][q]
                                   /\ keycloak'[q] = keycloak[q] /\ members'[q] = members[q]
                                   /\ Adds(s, q)' = Adds(s, q) /\ Removes(s, q)' = Removes(s, q)
      /\ \A d \in Calls : d # s => task'[d] = task[d] /\ sync'[d] = sync[d]
      /\ sync'[s].pc = sync[s].pc /\ sync'[s].dns = sync[s].dns
      /\ UNCHANGED <<poll, ldap, quiet, clean>>
  BY <1>0, TaskFrame
<1>2. Undisturbed(c)
  BY <1>1 DEF Undisturbed
<1>3. /\ Alone(c)
      /\ sync[c].pc = "groups" => TasksStand(c)
      /\ sync[c].pc \in {"attributesWrite", "apply"} => UpdatesStand(c)
      /\ sync[c].pc \in {"delete", "finish"} => DeletionsStand(c)
      /\ OthersStand(c)
  BY <1>2 DEF SyncInv, CallStands
<1>4. task[s][p].pc # "none"
  BY DEF TaskStep, TaskEnsure, TaskCreate, TaskSearch, TaskAddList, TaskAttributes,
         TaskAttributesWrite, TaskDiff, TaskWrite, TaskDelete, TaskDrop, TaskFails
<1>5. c = s
  BY <1>3, <1>4 DEF Alone, TasksDone
<1>6. Alone(s)'
  BY <1>1, <1>3, <1>5 DEF Alone, Running, TasksDone
<1>7. sync[s].pc \notin {"attributesWrite", "apply", "finish"}
  BY <1>3, <1>4, <1>5 DEF UpdatesStand, DeletionsStand, TasksDone
<1>8. sync[s].dns \in SUBSET Paths
  BY <1>0 DEF GroupSyncTypeOK, Sync
<1>9. CASE sync[s].pc = "delete"
  <2>1. DeletionsStand(s)' /\ OthersStand(s)'
    BY <1>0, <1>3, <1>5, <1>8, <1>9, TaskDeletes
  <2> QED BY <1>1, <1>5, <1>6, <1>9, <2>1
<1>10. CASE sync[s].pc = "groups"
  <2>1. TasksStand(s)
    BY <1>3, <1>5, <1>10
  <2>2. /\ p \in sync[s].dns
        /\ TaskStands(s, p)' /\ ListsKnown(s)'
        /\ task'[s][p].pc \notin {"delete", "drop"}
        /\ sync[s].byPath \subseteq sync'[s].byPath
        /\ Groups' \subseteq Groups \cup {p}
    BY <1>0, <2>1, TaskMoves
  <2>3. \A q \in sync[s].dns : TaskStands(s, q)'
    <3>1. ASSUME NEW q \in sync[s].dns, q # p PROVE TaskStands(s, q)'
      <4>1. q \in Paths /\ TaskStands(s, q)
        BY <1>8, <2>1 DEF TasksStand
      <4>2. /\ task'[s][q] = task[s][q] /\ keycloak'[q] = keycloak[q] /\ members'[q] = members[q]
            /\ Adds(s, q)' = Adds(s, q) /\ Removes(s, q)' = Removes(s, q)
            /\ ldap'[q] = ldap[q] /\ quiet'[s] = quiet[s]
        BY <1>1, <3>1, <4>1
      <4> QED BY <4>1, <4>2 DEF TaskStands, Due, Cached
    <3> QED BY <2>2, <3>1
  <2>4. TasksStand(s)'
    BY <1>1, <2>1, <2>2, <2>3 DEF TasksStand
  <2>5. OthersStand(s)'
    BY <1>1, <1>3, <1>5, <1>10, <2>2 DEF OthersStand
  <2> QED BY <1>1, <1>5, <1>6, <1>10, <2>4, <2>5
<1>11. sync[s].pc \in {"groups", "attributesWrite", "apply", "delete", "finish"}
  BY <1>2, <1>5 DEF Undisturbed
<1> QED BY <1>7, <1>9, <1>10, <1>11

-----------------------------------------------------------------------------
(* The steps of a call around its tasks *)

LEMMA FreshStays ==
  ASSUME SyncInv, [Next]_vars, NEW c \in Calls
  PROVE  Fresh(c)'
<1>0. /\ GroupSyncTypeOK /\ Fresh(c) /\ sync \in [Calls -> Sync] /\ task \in [Calls -> [Paths -> Task]]
      /\ \A s \in Calls : sync[s] \in Sync
  BY DEF SyncInv, GroupSyncTypeOK
<1>1. CASE sync'[c] = sync[c] /\ task'[c] = task[c]
  BY <1>0, <1>1 DEF Fresh, TasksDone
<1>2. CASE sync'[c].pc \notin {"target", "search"}
  BY <1>2 DEF Fresh
<1>3. ASSUME NEW s \in Calls, NEW p \in Paths, TaskStep(s, p) PROVE Fresh(c)'
  <2>1. task[s][p].pc # "none"
    BY <1>3 DEF TaskStep, TaskEnsure, TaskCreate, TaskSearch, TaskAddList, TaskAttributes,
           TaskAttributesWrite, TaskDiff, TaskWrite, TaskDelete, TaskDrop, TaskFails
  <2>2. CASE c # s
    <3>1. task'[c] = task[c]
      BY <1>0, <1>3, <2>2 DEF TaskStep, TaskEnsure, TaskCreate, TaskSearch, TaskAddList, TaskAttributes,
         TaskAttributesWrite, TaskDiff, TaskWrite, TaskDelete, TaskDrop, TaskFails, TaskGoto,
         TaskEnds, TaskThrows
    <3>2. sync'[c] = sync[c]
      BY <1>0, <1>3, <2>2 DEF TaskStep, TaskEnsure, TaskCreate, TaskSearch, TaskAddList, TaskAttributes,
         TaskAttributesWrite, TaskDiff, TaskWrite, TaskDelete, TaskDrop, TaskFails,
         TaskThrows, Throw, Goto, flags
    <3> QED BY <1>1, <3>1, <3>2
  <2>3. CASE c = s
    <3>1. sync[s].pc \notin {"target", "search"}
      BY <1>0, <2>1, <2>3 DEF Fresh, TasksDone
    <3>2. CASE Throw(s)
      <4>1. sync'[s] = sync[s] \/ sync'[s].pc = "idle"
        BY <1>0, <3>2 DEF Throw, Goto, Sync
      <4> QED BY <1>2, <2>3, <3>1, <4>1
    <3>3. CASE ~Throw(s)
      <4>1. sync'[s].pc = sync[s].pc
        BY <1>0, <1>3, <3>3 DEF TaskStep, TaskEnsure, TaskCreate, TaskSearch, TaskAddList, TaskAttributes,
           TaskAttributesWrite, TaskDiff, TaskWrite, TaskDelete, TaskDrop, TaskFails,
           TaskThrows, flags, Sync
      <4> QED BY <1>2, <2>3, <3>1, <4>1
    <3> QED BY <3>2, <3>3
  <2> QED BY <2>2, <2>3
<1>4. ASSUME NEW s \in Calls, SyncStep(s) PROVE Fresh(c)'
  <2>1. CASE c # s
    <3>1. task'[c] = task[c]
      BY <1>0, <1>4, <2>1 DEF SyncStep, SyncNoConfig, SyncStart, SyncTarget, SyncSearch, SyncFails,
         SyncAttributes, SyncAttributesWrite, SyncDelete, SyncDeleted, SyncFinish
    <3>2. sync'[c] = sync[c]
      BY <1>0, <1>4, <2>1 DEF SyncStep, SyncNoConfig, SyncStart, SyncTarget, SyncSearch, SyncFails,
         SyncAttributes, SyncAttributesWrite, SyncDelete, SyncDeleted, SyncFinish, Throw, Goto
    <3> QED BY <1>1, <3>1, <3>2
  <2>2. CASE c = s /\ SyncStart(s)
    <3>1. PICK pc \in {"target", "search"} : sync' = [sync EXCEPT ![s] = [IdleSync EXCEPT !.pc = pc]]
      BY <2>2 DEF SyncStart
    <3>2. sync'[s].adds = {} /\ sync'[s].removes = {}
      BY <1>0, <3>1 DEF IdleSync
    <3>3. TasksDone(s)'
      BY <2>2 DEF SyncStart, TasksDone
    <3> QED BY <2>2, <3>2, <3>3 DEF Fresh
  <2>3. CASE c = s /\ SyncTarget(s)
    <3>1. PICK k : k = [sync[s] EXCEPT !.pc = "search"]
      OBVIOUS
    <3>2. sync'[s] = k /\ task' = task
      BY <1>0, <2>3, <3>1 DEF SyncTarget, Goto
    <3>3. k.adds = sync[s].adds /\ k.removes = sync[s].removes
      BY <1>0, <3>1 DEF Sync
    <3> QED BY <1>0, <2>3, <3>2, <3>3 DEF Fresh, TasksDone, SyncTarget
  <2>4. CASE c = s /\ ~SyncStart(s) /\ ~SyncTarget(s)
    <3>1. sync'[s].pc \notin {"target", "search"} \/ (sync' = sync /\ task' = task)
      <4>1. CASE SyncFails(s)
        BY <1>0, <4>1 DEF SyncFails, Throw, Goto, Running, Sync
      <4>2. CASE SyncSearch(s)
        <5>1. PICK k : k = [sync[s] EXCEPT !.pc = "groups", !.dns = {p \in Paths : ldap[p] # NoGroup},
                                           !.byPath = list]
          OBVIOUS
        <5>2. k.pc = "groups"
          BY <1>0, <5>1 DEF Sync
        <5>3. sync' = [sync EXCEPT ![s] = k] \/ Goto(s, "idle")
          BY <4>2, <5>1 DEF SyncSearch
        <5> QED BY <1>0, <5>2, <5>3 DEF Goto, Sync
      <4>3. CASE SyncAttributes(s)
        BY <1>0, <4>3 DEF SyncAttributes, Sync
      <4>4. CASE SyncAttributesWrite(s)
        BY <1>0, <4>4 DEF SyncAttributesWrite, Sync
      <4>5. CASE SyncFinish(s)
        BY <1>0, <4>5 DEF SyncFinish, IdleSync
      <4>6. CASE SyncNoConfig(s) \/ SyncDelete(s) \/ SyncDeleted(s)
        BY <1>0, <4>6 DEF SyncNoConfig, SyncDelete, SyncDeleted, Goto, Sync
      <4> QED BY <1>4, <2>4, <4>1, <4>2, <4>3, <4>4, <4>5, <4>6 DEF SyncStep
    <3> QED BY <1>1, <1>2, <2>4, <3>1
  <2> QED BY <2>1, <2>2, <2>3, <2>4
<1>5. ASSUME NEW s \in Calls, NEW u \in Users, SyncApply(s, u) PROVE Fresh(c)'
  <2>1. PICK k : k = [sync[s] EXCEPT !.adds = @ \ ({u} \X Paths), !.removes = @ \ ({u} \X Paths)]
    OBVIOUS
  <2>2. sync' = [sync EXCEPT ![s] = k] /\ task' = task /\ sync[s].pc = "apply"
    BY <1>5, <2>1 DEF SyncApply
  <2>3. k.pc = "apply"
    BY <1>0, <2>1, <2>2 DEF Sync
  <2> QED BY <1>0, <1>1, <1>2, <2>2, <2>3
<1>6. CASE \/ LdapInit \/ PollStep \/ UNCHANGED vars
           \/ \E p \in Paths : LdapChange(p) \/ DirectStep(p)
  <2>1. sync' = sync /\ task' = task
    BY <1>6, DirectEffects DEF LdapInit, PollStep, PollStart, PollFetch, PollList, PollMembers,
         PollMembersFail, PollWrite, PollDone, PollFails, LdapChange, vars
  <2> QED BY <1>1, <2>1
<1> QED BY <1>3, <1>4, <1>5, <1>6 DEF Next

\* A call that found the directory and the lists as they are.
LEMMA SearchStands ==
  ASSUME GroupSyncTypeOK, NEW s \in Calls, Fresh(s), SyncSearch(s), Undisturbed(s)'
  PROVE  /\ sync'[s].pc = "groups" /\ Alone(s)' /\ TasksStand(s)' /\ OthersStand(s)'
<1> DEFINE dns == {p \in Paths : ldap[p] # NoGroup}
<1>1. sync[s] \in Sync /\ sync \in [Calls -> Sync] /\ task \in [Calls -> [Paths -> Task]]
  BY DEF GroupSyncTypeOK
<1>2. list # {}
  <2> SUFFICES ASSUME list = {} PROVE FALSE
    OBVIOUS
  <2>1. Goto(s, "idle")
    BY DEF SyncSearch
  <2>2. sync'[s].pc = "idle"
    BY <1>1, <2>1 DEF Goto, Sync
  <2> QED BY <2>2 DEF Undisturbed
<1>3. /\ sync' = [sync EXCEPT ![s].pc = "groups", ![s].dns = dns, ![s].byPath = list]
      /\ task' = [task EXCEPT ![s] = [p \in Paths |->
                        IF p \in dns THEN [NoTask EXCEPT !.pc = "ensure"] ELSE NoTask]]
      /\ clean' = [clean EXCEPT ![s] = StartsClean(s)]
      /\ UNCHANGED <<ldap, keycloak, list, members, poll>>
  BY <1>2 DEF SyncSearch, world
<1>4. StartsClean(s)
  BY <1>3 DEF Undisturbed, GroupSyncTypeOK
<1>5. PICK k : k = [sync[s] EXCEPT !.pc = "groups", !.dns = dns, !.byPath = list]
  OBVIOUS
<1>6. sync' = [sync EXCEPT ![s] = k]
  BY <1>3, <1>5
<1>7. /\ k.pc = "groups" /\ k.dns = dns /\ k.byPath = list
      /\ k.adds = {} /\ k.removes = {}
  BY <1>1, <1>5 DEF Sync, Fresh, SyncSearch
<1>8. sync'[s] = k /\ \A c \in Calls : c # s => sync'[c] = sync[c] /\ task'[c] = task[c]
  BY <1>1, <1>3, <1>6
<1>9. \A p \in Paths : task'[s][p] = IF p \in dns THEN [NoTask EXCEPT !.pc = "ensure"] ELSE NoTask
  BY <1>1, <1>3
<1>10. \A p \in Paths : task'[s][p].pc = IF p \in dns THEN "ensure" ELSE "none"
  BY <1>9 DEF NoTask
<1> HIDE DEF dns
<1>11. Alone(s)'
  <2>1. poll'.pc = "idle"
    BY <1>3, <1>4 DEF StartsClean
  <2>2. ASSUME NEW c \in Calls, c # s PROVE ~Running(c)' /\ TasksDone(c)'
    <3>1. sync'[c] = sync[c] /\ task'[c] = task[c] /\ ~Running(c) /\ TasksDone(c)
      BY <1>4, <1>8, <2>2 DEF StartsClean
    <3> QED BY <3>1 DEF Running, TasksDone
  <2> QED BY <2>1, <2>2 DEF Alone
<1>12. /\ list' = Groups /\ Groups' = Groups /\ \A p \in Paths : keycloak'[p] = keycloak[p]
       /\ \A p \in Groups : Cached(p)' = keycloak[p]
  BY <1>3, <1>4 DEF StartsClean, Groups, Cached
<1>13. ListsKnown(s)'
  BY <1>3, <1>7, <1>8, <1>10, <1>12 DEF ListsKnown
<1>14. ASSUME NEW p \in dns PROVE TaskStands(s, p)'
  <2>1. p \in Paths /\ ldap'[p] # NoGroup
    BY <1>3 DEF dns
  <2>2. task'[s][p].pc = "ensure" /\ Adds(s, p)' = {} /\ Removes(s, p)' = {}
    BY <1>7, <1>8, <1>10, <2>1 DEF Adds, Removes
  <2>3. keycloak'[p] = NoGroup \/ Cached(p)' = keycloak'[p]
    BY <1>12, <2>1 DEF Groups
  <2> QED BY <2>1, <2>2, <2>3 DEF TaskStands
<1>15. TasksStand(s)'
  BY <1>7, <1>8, <1>10, <1>13, <1>14 DEF TasksStand
<1>16. OthersStand(s)'
  <2>1. \A p \in Paths : p \in dns <=> ldap'[p] # NoGroup
    BY <1>3 DEF dns
  <2> QED BY <1>3, <1>7, <1>8, <1>12, <2>1 DEF OthersStand
<1> QED BY <1>7, <1>8, <1>11, <1>15, <1>16

\* The steps of other calls that leave an undisturbed one undisturbed.
LEMMA OtherCallKeeps ==
  ASSUME SyncInv, NEW s \in Calls, SyncStep(s), NEW c \in Calls, c # s
  PROVE  CallStands(c)'
<1> SUFFICES ASSUME Undisturbed(c)'
             PROVE  /\ Alone(c)'
                    /\ sync'[c].pc = "groups" => TasksStand(c)'
                    /\ sync'[c].pc \in {"attributesWrite", "apply"} => UpdatesStand(c)'
                    /\ sync'[c].pc \in {"delete", "finish"} => DeletionsStand(c)'
                    /\ OthersStand(c)'
  BY DEF CallStands
<1>1. /\ ~Disturb /\ ~Throw(s) /\ ~SetRunning
      /\ sync[s] \in Sync /\ sync \in [Calls -> Sync] /\ task \in [Calls -> [Paths -> Task]]
      /\ clean \in [Calls -> BOOLEAN] /\ quiet \in [Calls -> BOOLEAN]
  BY NotDisturbed DEF Undisturbed, SyncInv, GroupSyncTypeOK, Throw, SetRunning
<1>2. sync'[c] = sync[c] /\ clean[c]
  BY <1>1 DEF SyncStep, SyncNoConfig, SyncStart, SyncTarget, SyncSearch, SyncFails,
         SyncAttributes, SyncAttributesWrite, SyncDelete, SyncDeleted, SyncFinish, Goto, Undisturbed
<1>3. Undisturbed(c)
  BY <1>2 DEF Undisturbed
<1>4. /\ Alone(c)
      /\ sync[c].pc = "groups" => TasksStand(c)
      /\ sync[c].pc \in {"attributesWrite", "apply"} => UpdatesStand(c)
      /\ sync[c].pc \in {"delete", "finish"} => DeletionsStand(c)
      /\ OthersStand(c)
  BY <1>3 DEF SyncInv, CallStands
<1>5. sync[s].pc \in {"idle", "target"}
  BY <1>4 DEF Alone, Running
<1>6. SyncNoConfig(s) \/ SyncStart(s)
  BY <1>1, <1>5 DEF SyncStep, SyncTarget, SyncSearch, SyncFails,
         SyncAttributes, SyncAttributesWrite, SyncDelete, SyncDeleted, SyncFinish
<1>7. UNCHANGED <<ldap, keycloak, list, members, task, poll, quiet>>
  BY <1>6 DEF SyncNoConfig, SyncStart, world
<1>8. sync'[s].pc \in {"idle", "target"} /\ \A d \in Calls : d # s => sync'[d] = sync[d]
  <2>1. CASE SyncNoConfig(s)
    BY <1>5, <2>1 DEF SyncNoConfig
  <2>2. CASE SyncStart(s)
    <3>1. sync' = [sync EXCEPT ![s] = [IdleSync EXCEPT !.pc = "target"]]
      BY <1>1, <2>2 DEF SyncStart
    <3> QED BY <1>1, <3>1 DEF IdleSync
  <2> QED BY <1>6, <2>1, <2>2
<1>9. Alone(c)'
  BY <1>4, <1>7, <1>8 DEF Alone, Running, TasksDone
<1>10. \A p \in Paths : task'[c][p] = task[c][p]
  BY <1>7
<1>11. \A p : TaskStands(c, p) => TaskStands(c, p)'
  BY <1>2, <1>7 DEF TaskStands, Due, Adds, Removes, Cached
<1>12. Groups' = Groups /\ (ListsKnown(c) => ListsKnown(c)') /\ (TasksDone(c) => TasksDone(c)')
  BY <1>2, <1>7 DEF Groups, ListsKnown, TasksDone
<1>13. sync[c].pc = "groups" => TasksStand(c)'
  BY <1>2, <1>4, <1>7, <1>11, <1>12 DEF TasksStand
<1>14. sync[c].pc \in {"attributesWrite", "apply"} => UpdatesStand(c)'
  BY <1>2, <1>4, <1>11, <1>12 DEF UpdatesStand
<1>15. sync[c].pc \in {"delete", "finish"} => DeletionsStand(c)'
  BY <1>2, <1>4, <1>7, <1>12 DEF DeletionsStand, Cached
<1>16. OthersStand(c)'
  BY <1>2, <1>4, <1>7, <1>12 DEF OthersStand
<1> QED BY <1>2, <1>9, <1>13, <1>14, <1>15, <1>16

\* The steps of an undisturbed call itself.
LEMMA OwnStepKeeps ==
  ASSUME SyncInv, NEW s \in Calls, SyncStep(s)
  PROVE  CallStands(s)'
<1> SUFFICES ASSUME Undisturbed(s)'
             PROVE  /\ Alone(s)'
                    /\ sync'[s].pc = "groups" => TasksStand(s)'
                    /\ sync'[s].pc \in {"attributesWrite", "apply"} => UpdatesStand(s)'
                    /\ sync'[s].pc \in {"delete", "finish"} => DeletionsStand(s)'
                    /\ OthersStand(s)'
  BY DEF CallStands
<1>1. /\ GroupSyncTypeOK /\ Fresh(s) /\ ~Disturb /\ ~Throw(s) /\ ~SetRunning
      /\ sync[s] \in Sync /\ sync \in [Calls -> Sync] /\ task \in [Calls -> [Paths -> Task]]
  BY NotDisturbed DEF Undisturbed, SyncInv, GroupSyncTypeOK, Throw, SetRunning
<1>2. sync[s].dns \in SUBSET Paths
  BY <1>1 DEF Sync
<1>3. CASE SyncSearch(s)
  BY <1>1, <1>3, SearchStands
<1>4. CASE SyncNoConfig(s) \/ SyncStart(s) \/ SyncTarget(s) \/ SyncFails(s) \/ SyncFinish(s)
  <2>1. sync'[s].pc \in {"idle", "target"}
    <3>1. CASE SyncNoConfig(s)
      BY <3>1 DEF SyncNoConfig
    <3>2. CASE SyncStart(s)
      <4>1. sync' = [sync EXCEPT ![s] = [IdleSync EXCEPT !.pc = "target"]]
        BY <1>1, <3>2 DEF SyncStart
      <4> QED BY <1>1, <4>1 DEF IdleSync
    <3>3. CASE SyncFinish(s)
      BY <1>1, <3>3 DEF SyncFinish, IdleSync
    <3> QED BY <1>1, <1>4, <3>1, <3>2, <3>3 DEF SyncTarget, SyncFails
  <2> QED BY <2>1 DEF Undisturbed
<1>5. ASSUME Undisturbed(s)
      PROVE  /\ Alone(s)
             /\ sync[s].pc = "groups" => TasksStand(s)
             /\ sync[s].pc \in {"attributesWrite", "apply"} => UpdatesStand(s)
             /\ sync[s].pc \in {"delete", "finish"} => DeletionsStand(s)
             /\ OthersStand(s)
  BY <1>5 DEF SyncInv, CallStands
<1>6. ASSUME sync'[s].dns = sync[s].dns,
             \A p \in Paths : Adds(s, p)' = Adds(s, p) /\ Removes(s, p)' = Removes(s, p),
             UNCHANGED <<ldap, keycloak, members, task, quiet>>
      PROVE  \A p \in sync[s].dns : TaskStands(s, p) => TaskStands(s, p)'
  BY <1>2, <1>6 DEF TaskStands, Due, Cached
<1>7. ASSUME \A c \in Calls : c # s => sync'[c] = sync[c] /\ task'[c] = task[c],
             poll' = poll, Alone(s)
      PROVE  Alone(s)'
  <2>1. ASSUME NEW c \in Calls, c # s PROVE ~Running(c)' /\ TasksDone(c)'
    <3>1. sync'[c] = sync[c] /\ task'[c] = task[c] /\ ~Running(c) /\ TasksDone(c)
      BY <1>7, <2>1 DEF Alone
    <3> QED BY <3>1 DEF Running, TasksDone
  <2> QED BY <1>7, <2>1 DEF Alone
<1>8. CASE SyncAttributes(s)
  <2>1. PICK pc \in {"apply", "attributesWrite"} : sync' = [sync EXCEPT ![s].pc = pc, ![s].list = list]
    BY <1>8 DEF SyncAttributes
  <2>2. PICK k : k = [sync[s] EXCEPT !.pc = pc, !.list = list]
    OBVIOUS
  <2>3. /\ k.pc = pc /\ k.dns = sync[s].dns /\ k.byPath = sync[s].byPath
        /\ k.adds = sync[s].adds /\ k.removes = sync[s].removes
    BY <1>1, <2>2 DEF Sync
  <2>4. sync'[s] = k /\ \A c \in Calls : c # s => sync'[c] = sync[c]
    BY <1>1, <2>1, <2>2
  <2>5. UNCHANGED <<ldap, keycloak, members, task, quiet, poll, clean>> /\ sync[s].pc = "groups" /\ TasksDone(s)
    BY <1>8 DEF SyncAttributes, world
  <2>6. Undisturbed(s)
    BY <2>5 DEF Undisturbed
  <2>7. TasksStand(s) /\ Alone(s) /\ OthersStand(s)
    BY <1>5, <2>5, <2>6
  <2>8. \A p \in sync[s].dns : TaskStands(s, p)'
    BY <1>6, <2>3, <2>4, <2>5, <2>7 DEF TasksStand, Adds, Removes
  <2>9. UpdatesStand(s)'
    BY <2>3, <2>4, <2>5, <2>8 DEF UpdatesStand, TasksDone
  <2>10. Alone(s)'
    BY <1>7, <2>4, <2>5, <2>7
  <2>11. OthersStand(s)'
    BY <2>3, <2>4, <2>5, <2>7 DEF OthersStand, Groups
  <2> QED BY <2>3, <2>4, <2>9, <2>10, <2>11
<1>9. CASE SyncAttributesWrite(s)
  <2>1. sync' = [sync EXCEPT ![s].pc = "apply", ![s].list = {}]
    BY <1>9 DEF SyncAttributesWrite
  <2>2. PICK k : k = [sync[s] EXCEPT !.pc = "apply", !.list = {}]
    OBVIOUS
  <2>3. /\ k.pc = "apply" /\ k.dns = sync[s].dns /\ k.byPath = sync[s].byPath
        /\ k.adds = sync[s].adds /\ k.removes = sync[s].removes
    BY <1>1, <2>2 DEF Sync
  <2>4. sync'[s] = k /\ \A c \in Calls : c # s => sync'[c] = sync[c]
    BY <1>1, <2>1, <2>2
  <2>5. UNCHANGED <<ldap, keycloak, members, task, quiet, poll, clean>> /\ sync[s].pc = "attributesWrite"
    BY <1>9 DEF SyncAttributesWrite, world
  <2>6. Undisturbed(s)
    BY <2>5 DEF Undisturbed
  <2>7. UpdatesStand(s) /\ Alone(s) /\ OthersStand(s)
    BY <1>5, <2>5, <2>6
  <2>8. \A p \in sync[s].dns : TaskStands(s, p)'
    BY <1>6, <2>3, <2>4, <2>5, <2>7 DEF UpdatesStand, Adds, Removes
  <2>9. UpdatesStand(s)'
    BY <2>3, <2>4, <2>5, <2>7, <2>8 DEF UpdatesStand, TasksDone
  <2>10. Alone(s)'
    BY <1>7, <2>4, <2>5, <2>7
  <2>11. OthersStand(s)'
    BY <2>3, <2>4, <2>5, <2>7 DEF OthersStand, Groups
  <2> QED BY <2>3, <2>4, <2>9, <2>10, <2>11
<1>10. CASE SyncDelete(s)
  <2>1. PICK k : k = [sync[s] EXCEPT !.pc = "delete"]
    OBVIOUS
  <2>2. k.pc = "delete" /\ k.dns = sync[s].dns /\ k.byPath = sync[s].byPath
    BY <1>1, <2>1 DEF Sync
  <2>3. sync'[s] = k /\ \A c \in Calls : c # s => sync'[c] = sync[c] /\ task'[c] = task[c]
    BY <1>1, <1>10, <2>1 DEF SyncDelete, Goto
  <2>4. /\ UNCHANGED <<ldap, keycloak, members, quiet, poll, clean>>
        /\ sync[s].pc = "apply" /\ sync[s].adds = {} /\ sync[s].removes = {}
    BY <1>10 DEF SyncDelete, world
  <2>5. UpdatesStand(s) /\ Alone(s) /\ OthersStand(s)
    BY <1>5, <2>4 DEF Undisturbed
  <2>6. \A p \in Paths : task'[s][p].pc = IF p \in ToDelete(s) THEN "delete" ELSE "none"
    BY <1>1, <1>10 DEF SyncDelete, NoTask
  <2>7. ASSUME NEW p \in sync[s].dns
        PROVE  /\ task'[s][p].pc = "none" /\ Cached(p)' = keycloak'[p]
               /\ quiet'[s] => Cached(p)' = ldap'[p] /\ ldap'[p] # NoGroup
    <3>1. p \in Paths /\ p \notin ToDelete(s)
      BY <1>2 DEF ToDelete
    <3>2. Due(s, p, Cached(p)) /\ (quiet[s] => Cached(p) = ldap[p] /\ ldap[p] # NoGroup)
      BY <2>5, <3>1 DEF UpdatesStand, TasksDone, TaskStands
    <3>3. Adds(s, p) = {} /\ Removes(s, p) = {}
      BY <2>4 DEF Adds, Removes
    <3>4. Cached(p) \in SUBSET Users /\ keycloak[p] \in SUBSET Users
      BY <1>1, <3>1, <3>2 DEF Cached, Due, GroupSyncTypeOK, Group
    <3>5. Cached(p) = keycloak[p]
      BY <3>2, <3>3, <3>4 DEF Due
    <3> QED BY <2>4, <2>6, <3>1, <3>2, <3>5 DEF Cached
  <2>8. DeletionsStand(s)'
    BY <2>2, <2>3, <2>6, <2>7 DEF DeletionsStand
  <2>9. Alone(s)'
    BY <1>7, <2>3, <2>4, <2>5
  <2>10. OthersStand(s)'
    BY <2>2, <2>3, <2>4, <2>5, <2>6 DEF OthersStand, Groups, ToDelete
  <2> QED BY <2>2, <2>3, <2>8, <2>9, <2>10
<1>11. CASE SyncDeleted(s)
  <2>1. PICK k : k = [sync[s] EXCEPT !.pc = "finish"]
    OBVIOUS
  <2>2. k.pc = "finish" /\ k.dns = sync[s].dns
    BY <1>1, <2>1 DEF Sync
  <2>3. sync'[s] = k /\ \A c \in Calls : c # s => sync'[c] = sync[c]
    BY <1>1, <1>11, <2>1 DEF SyncDeleted, Goto
  <2>4. /\ UNCHANGED <<ldap, keycloak, members, task, quiet, poll, clean>>
        /\ sync[s].pc = "delete" /\ TasksDone(s)
    BY <1>11 DEF SyncDeleted, world
  <2>5. DeletionsStand(s) /\ Alone(s) /\ OthersStand(s)
    BY <1>5, <2>4 DEF Undisturbed
  <2>6. DeletionsStand(s)'
    BY <2>2, <2>3, <2>4, <2>5 DEF DeletionsStand, TasksDone, Cached
  <2>7. Alone(s)'
    BY <1>7, <2>3, <2>4, <2>5
  <2>8. OthersStand(s)'
    BY <2>2, <2>3, <2>4, <2>5 DEF OthersStand, Groups
  <2> QED BY <2>2, <2>3, <2>6, <2>7, <2>8
<1> QED BY <1>3, <1>4, <1>8, <1>9, <1>10, <1>11 DEF SyncStep

-----------------------------------------------------------------------------
(* Updates, polling and the environment *)

\* The updates of one user bring Keycloak nearer to the cached members.
LEMMA ApplyKeepsCalls ==
  ASSUME SyncInv, NEW s \in Calls, NEW u \in Users, SyncApply(s, u), NEW c \in Calls
  PROVE  CallStands(c)'
<1> SUFFICES ASSUME Undisturbed(c)'
             PROVE  /\ Alone(c)'
                    /\ sync'[c].pc = "groups" => TasksStand(c)'
                    /\ sync'[c].pc \in {"attributesWrite", "apply"} => UpdatesStand(c)'
                    /\ sync'[c].pc \in {"delete", "finish"} => DeletionsStand(c)'
                    /\ OthersStand(c)'
  BY DEF CallStands
<1> DEFINE adds == {p \in Paths : <<u, p>> \in sync[s].adds}
           removes == {p \in Paths : <<u, p>> \in sync[s].removes}
<1>1. /\ GroupSyncTypeOK /\ ~Disturb
      /\ sync[s] \in Sync /\ sync \in [Calls -> Sync] /\ keycloak \in [Paths -> Group]
  BY NotDisturbed DEF Undisturbed, SyncInv, GroupSyncTypeOK
<1>2. /\ sync[s].pc = "apply" /\ \A p \in adds : keycloak[p] # NoGroup
      /\ Applied(u, adds \ removes, removes \ adds)
      /\ UNCHANGED <<clean, ldap, members, task, poll, quiet>>
      /\ sync' = [sync EXCEPT ![s].adds = @ \ ({u} \X Paths), ![s].removes = @ \ ({u} \X Paths)]
  BY <1>1 DEF SyncApply, world
<1>3. PICK k : k = [sync[s] EXCEPT !.adds = @ \ ({u} \X Paths), !.removes = @ \ ({u} \X Paths)]
  OBVIOUS
<1>4. /\ k.pc = "apply" /\ k.dns = sync[s].dns /\ k.byPath = sync[s].byPath
      /\ k.adds = sync[s].adds \ ({u} \X Paths) /\ k.removes = sync[s].removes \ ({u} \X Paths)
  BY <1>1, <1>2, <1>3 DEF Sync
<1>5. sync'[s] = k /\ \A d \in Calls : d # s => sync'[d] = sync[d]
  BY <1>1, <1>2, <1>3
<1>6. Undisturbed(c)
  BY <1>2, <1>4, <1>5 DEF Undisturbed
<1>7. /\ Alone(c)
      /\ sync[c].pc \in {"attributesWrite", "apply"} => UpdatesStand(c)
      /\ OthersStand(c)
  BY <1>6 DEF SyncInv, CallStands
<1>8. c = s
  BY <1>2, <1>7 DEF Alone, Running
<1>9. UpdatesStand(s) /\ sync[s].dns \in SUBSET Paths
  BY <1>1, <1>2, <1>7, <1>8 DEF Sync
<1>10. Alone(s)'
  <2>1. ASSUME NEW d \in Calls, d # s PROVE ~Running(d)' /\ TasksDone(d)'
    <3>1. sync'[d] = sync[d] /\ task'[d] = task[d] /\ ~Running(d) /\ TasksDone(d)
      BY <1>2, <1>5, <1>7, <1>8, <2>1 DEF Alone
    <3> QED BY <3>1 DEF Running, TasksDone
  <2> QED BY <1>2, <1>7, <1>8, <2>1 DEF Alone
<1>11. \A p \in Paths : keycloak'[p] = NoGroup <=> keycloak[p] = NoGroup
  <2>1. \A p \in Paths : keycloak[p] # NoGroup => keycloak'[p] # NoGroup
    BY <1>1, <1>2, AppliedTypes
  <2>2. \A p \in Paths : keycloak[p] = NoGroup => keycloak'[p] = NoGroup
    BY <1>2 DEF Applied
  <2> QED BY <2>1, <2>2
<1>12. ASSUME NEW p \in sync[s].dns PROVE TaskStands(s, p)'
  <2>1. /\ p \in Paths /\ task[s][p].pc = "none" /\ Due(s, p, Cached(p))
        /\ quiet[s] => ldap[p] # NoGroup /\ Cached(p) = ldap[p]
    BY <1>9 DEF UpdatesStand, TasksDone, TaskStands
  <2>2. keycloak[p] \in SUBSET Users /\ Cached(p) \in SUBSET Users
    BY <1>1, <2>1 DEF Due, Cached, GroupSyncTypeOK, Group
  <2>3. Cached(p)' = Cached(p)
    BY <1>2 DEF Cached
  <2>4. /\ Adds(s, p)' = Adds(s, p) \ {u}
        /\ Removes(s, p)' = Removes(s, p) \ {u}
    BY <1>4, <1>5, <2>1 DEF Adds, Removes
  <2>5. keycloak'[p] = IF p \in removes \ adds THEN keycloak[p] \ {u}
                       ELSE IF p \in adds \ removes THEN keycloak[p] \cup {u} ELSE keycloak[p]
    BY <1>2, <2>1 DEF Applied, Due
  <2>6. (p \in adds <=> u \in Adds(s, p)) /\ (p \in removes <=> u \in Removes(s, p))
    BY <2>1 DEF Adds, Removes
  <2> HIDE DEF adds, removes
  <2>7. /\ Adds(s, p) = Cached(p) \ keycloak[p]
        /\ Removes(s, p) = keycloak[p] \ Cached(p)
    BY <2>1 DEF Due
  <2>8. /\ Cached(p) \ keycloak'[p] = Adds(s, p) \ {u}
        /\ keycloak'[p] \ Cached(p) = Removes(s, p) \ {u}
    BY <2>2, <2>5, <2>6, <2>7
  <2>9. keycloak'[p] # NoGroup
    BY <1>11, <2>1 DEF Due
  <2>10. Due(s, p, Cached(p))'
    BY <2>3, <2>4, <2>8, <2>9 DEF Due
  <2>11. task'[s][p].pc = "none" /\ (quiet'[s] => ldap'[p] # NoGroup /\ Cached(p)' = ldap'[p])
    BY <1>2, <2>1, <2>3
  <2> QED BY <2>10, <2>11 DEF TaskStands
<1>13. UpdatesStand(s)'
  BY <1>2, <1>4, <1>5, <1>9, <1>12 DEF UpdatesStand, TasksDone
<1>14. OthersStand(s)'
  BY <1>2, <1>4, <1>5, <1>7, <1>8, <1>11 DEF OthersStand, Groups
<1> QED BY <1>4, <1>5, <1>8, <1>10, <1>13, <1>14

\* What polling and others do either disturbs every call or leaves it alone.
LEMMA BesideKeepsCalls ==
  ASSUME SyncInv, NEW c \in Calls,
         \/ LdapInit \/ PollStep \/ UNCHANGED vars
         \/ \E p \in Paths : LdapChange(p) \/ DirectStep(p)
  PROVE  CallStands(c)'
<1> SUFFICES ASSUME Undisturbed(c)'
             PROVE  /\ Alone(c)'
                    /\ sync'[c].pc = "groups" => TasksStand(c)'
                    /\ sync'[c].pc \in {"attributesWrite", "apply"} => UpdatesStand(c)'
                    /\ sync'[c].pc \in {"delete", "finish"} => DeletionsStand(c)'
                    /\ OthersStand(c)'
  BY DEF CallStands
<1>1. ~Disturb
  BY NotDisturbed DEF Undisturbed
<1>2. UNCHANGED <<sync, task, clean>>
  BY <1>1, DirectEffects DEF LdapInit, PollStep, PollStart, PollFetch, PollList, PollMembers,
         PollMembersFail, PollWrite, PollDone, PollFails, LdapChange, vars
<1>3. Undisturbed(c)
  BY <1>2 DEF Undisturbed
<1>4. /\ Alone(c)
      /\ sync[c].pc = "groups" => TasksStand(c)
      /\ sync[c].pc \in {"attributesWrite", "apply"} => UpdatesStand(c)
      /\ sync[c].pc \in {"delete", "finish"} => DeletionsStand(c)
      /\ OthersStand(c)
  BY <1>3 DEF SyncInv, CallStands
<1>5. UNCHANGED <<keycloak, list, members, poll>> /\ (quiet'[c] => quiet[c] /\ ldap' = ldap)
  <2>1. CASE LdapInit \/ UNCHANGED vars
    BY <2>1 DEF LdapInit, world, vars
  <2>2. CASE PollStep
    BY <1>1, <1>4, <2>2 DEF Alone, PollStep, PollStart, PollFetch, PollList, PollMembers,
         PollMembersFail, PollWrite, PollDone, PollFails
  <2>3. CASE \E p \in Paths : LdapChange(p)
    BY <2>3 DEF LdapChange
  <2>4. CASE \E p \in Paths : DirectStep(p)
    BY <1>1, <2>4, DirectEffects
  <2> QED BY <2>1, <2>2, <2>3, <2>4
<1>6. Alone(c)'
  BY <1>2, <1>4, <1>5 DEF Alone, Running, TasksDone
<1>7. \A p : TaskStands(c, p) => TaskStands(c, p)'
  BY <1>2, <1>5 DEF TaskStands, Due, Adds, Removes, Cached
<1>8. Groups' = Groups /\ (ListsKnown(c) => ListsKnown(c)') /\ (TasksDone(c) => TasksDone(c)')
  BY <1>2, <1>5 DEF Groups, ListsKnown, TasksDone
<1>9. sync[c].pc = "groups" => TasksStand(c)'
  BY <1>2, <1>4, <1>7, <1>8 DEF TasksStand
<1>10. sync[c].pc \in {"attributesWrite", "apply"} => UpdatesStand(c)'
  BY <1>2, <1>4, <1>7, <1>8 DEF UpdatesStand
<1>11. sync[c].pc \in {"delete", "finish"} => DeletionsStand(c)'
  BY <1>2, <1>4, <1>5, <1>8 DEF DeletionsStand, Cached
<1>12. OthersStand(c)'
  BY <1>2, <1>4, <1>5, <1>8 DEF OthersStand
<1> QED BY <1>2, <1>6, <1>9, <1>10, <1>11, <1>12

LEMMA SyncInvInit == Init => SyncInv
<1>1. Init => GroupSyncTypeOK
  BY InitTypes
<1> QED BY <1>1 DEF Init, SyncInv, Fresh, CallStands, Undisturbed, IdleSync

LEMMA SyncInvStays == SyncInv /\ [Next]_vars => SyncInv'
<1> SUFFICES ASSUME SyncInv, [Next]_vars PROVE SyncInv'
  OBVIOUS
<1>1. GroupSyncTypeOK'
  BY NextKeepsTypes DEF SyncInv
<1>2. ASSUME NEW c \in Calls PROVE Fresh(c)'
  BY FreshStays
<1>3. ASSUME NEW c \in Calls PROVE CallStands(c)'
  <2>1. ASSUME NEW s \in Calls, SyncStep(s) PROVE CallStands(c)'
    BY <2>1, OtherCallKeeps, OwnStepKeeps
  <2>2. ASSUME NEW s \in Calls, NEW p \in Paths, TaskStep(s, p) PROVE CallStands(c)'
    BY <2>2, TaskKeepsCalls
  <2>3. ASSUME NEW s \in Calls, NEW u \in Users, SyncApply(s, u) PROVE CallStands(c)'
    BY <2>3, ApplyKeepsCalls
  <2>4. CASE \/ LdapInit \/ PollStep \/ UNCHANGED vars
             \/ \E p \in Paths : LdapChange(p) \/ DirectStep(p)
    BY <2>4, BesideKeepsCalls
  <2> QED BY <2>1, <2>2, <2>3, <2>4 DEF Next
<1> QED BY <1>1, <1>2, <1>3 DEF SyncInv

\* An undisturbed sync leaves the cached members of the groups of the directory
\* equal to those in Keycloak, for any number of groups and users.
THEOREM CacheIsFollowed == Spec => []CacheFollows
BY SyncInvInit, SyncInvStays, SyncFinds, PTL DEF Spec

\* If the directory did not change either, Keycloak then has its groups and
\* members, and beside them only admin groups.
THEOREM SyncDoesDeliver == Spec => []SyncDelivers
BY SyncInvInit, SyncInvStays, SyncFinds, PTL DEF Spec
=============================================================================
