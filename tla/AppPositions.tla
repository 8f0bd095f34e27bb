------------------------------ MODULE AppPositions ------------------------------
(***************************************************************************)
(* AppConfigService: the apps of the portal have the positions 1, 2, ...   *)
(* in its menus.  A new app goes to the end; moving or deleting an app     *)
(* first reads its position, then shifts the apps in between and writes    *)
(* or deletes the app itself.  Each of these is a command of its own.      *)
(***************************************************************************)
EXTENDS Naturals, FiniteSets

CONSTANTS
  AppNames,     \* names of apps
  DefaultApps,  \* those a new installation has
  PosCalls,     \* requests, and settings pages somebody has open, at a time (a bound)
  NoApp

ASSUME AppNamesAssumption ==
  IsFiniteSet(AppNames) /\ NoApp \notin AppNames /\ DefaultApps \subseteq AppNames

VARIABLES
  position,     \* positions of the stored apps, 0: there is no such app
  posCalls,     \* the requests, from the page they are sent from
  disarranged   \* requests overlapped, came from an old page, or ended halfway (history)

posVars == <<position, posCalls, disarranged>>

-----------------------------------------------------------------------------
(* Types.  A call in "count" or "read" is a page somebody has yet to submit, *)
(* with the app and the position chosen; old is what the call has read.      *)

PosPcs == {"idle", "count", "insert", "read", "shift", "write", "erase", "close"}

PosKinds == {"create", "update", "delete"}

Page(app, pos, kind) ==
  [app |-> app, pos |-> pos, kind |-> kind, old |-> 0, pc |-> IF kind = "create" THEN "count" ELSE "read"]

IdlePos == [app |-> NoApp, pos |-> 0, kind |-> "create", old |-> 0, pc |-> "idle"]

PosTypeOK ==
  /\ position \in [AppNames -> Nat]
  /\ posCalls \in [PosCalls -> [app: AppNames \cup {NoApp}, pos: Nat, kind: PosKinds,
                                old: Nat, pc: PosPcs]]
  /\ \A c \in PosCalls : posCalls[c].pc # "idle" => posCalls[c].app \in AppNames
  /\ disarranged \in BOOLEAN

StoredApps == {a \in AppNames : position[a] # 0}

Count == Cardinality(StoredApps)

\* The call has read what it will act upon.
Acting(c) == posCalls[c].pc \in {"insert", "shift", "write", "erase", "close"}

\* The call has shifted the others, or deleted its app, and the rest is still to come.
Halfway(c) ==
  \/ posCalls[c].pc = "close"
  \/ posCalls[c].pc = "write" /\ posCalls[c].old \notin {0, posCalls[c].pos}

Overlaps(c) == \E d \in PosCalls \ {c} : Acting(d)

PosMoves(c, pc) == posCalls' = [posCalls EXCEPT ![c].pc = pc]

PosEnds(c) == posCalls' = [posCalls EXCEPT ![c] = IdlePos]

\* The default apps have the positions of their list.
Numbered(apps) ==
  {p \in [AppNames -> 0..Cardinality(apps)] :
    /\ {a \in AppNames : p[a] # 0} = apps
    /\ \A i \in 1..Cardinality(apps) : \E a \in apps : p[a] = i
    /\ \A a, b \in apps : p[a] = p[b] => a = b}

PosInit ==
  /\ position \in Numbered(DefaultApps)
  /\ posCalls = [c \in PosCalls |-> IdlePos]
  /\ disarranged = FALSE

-----------------------------------------------------------------------------
(* The pages *)

\* A dialog for an app that its page does not list.
OpenDialog(c, a) ==
  /\ posCalls[c].pc = "idle"
  /\ position[a] = 0
  /\ posCalls' = [posCalls EXCEPT ![c] = Page(a, 0, "create")]
  /\ UNCHANGED <<position, disarranged>>

\* The settings of an app: a position is chosen among as many as there are apps.
OpenSettings(c, a, pos) ==
  /\ posCalls[c].pc = "idle"
  /\ position[a] # 0 /\ pos \in 1..Count
  /\ posCalls' = [posCalls EXCEPT ![c] = Page(a, pos, "update")]
  /\ UNCHANGED <<position, disarranged>>

OpenDeletion(c, a) ==
  /\ posCalls[c].pc = "idle"
  /\ position[a] # 0
  /\ posCalls' = [posCalls EXCEPT ![c] = Page(a, 0, "delete")]
  /\ UNCHANGED <<position, disarranged>>

ClosePage(c) ==
  /\ posCalls[c].pc \in {"count", "read"}
  /\ PosEnds(c)
  /\ UNCHANGED <<position, disarranged>>

-----------------------------------------------------------------------------
(* insertConfig *)

\* The hook before the save counts the apps.
CountApps(c) ==
  /\ posCalls[c].pc = "count"
  /\ posCalls' = [posCalls EXCEPT ![c] = [@ EXCEPT !.pc = "insert", !.pos = Count + 1]]
  /\ disarranged' = (disarranged \/ Overlaps(c))
  /\ UNCHANGED position

\* A name is unique: nothing is inserted for one that is there.
InsertApp(c) ==
  LET a == posCalls[c].app IN
  /\ posCalls[c].pc = "insert"
  /\ position' = IF position[a] = 0 THEN [position EXCEPT ![a] = posCalls[c].pos] ELSE position
  /\ PosEnds(c)
  /\ UNCHANGED disarranged

-----------------------------------------------------------------------------
(* updateConfig and deleteConfig *)

\* The page is up to date as far as the positions need it: the app is there and has
\* no fewer neighbours, or it is gone and will be created again at the end.
UpToDate(c) ==
  IF position[posCalls[c].app] # 0 THEN posCalls[c].pos <= Count ELSE posCalls[c].pos = Count + 1

\* The app is read; one that is gone is not moved from anywhere.
ReadForUpdate(c) ==
  LET old == position[posCalls[c].app] IN
  /\ posCalls[c].pc = "read" /\ posCalls[c].kind = "update"
  /\ posCalls' = [posCalls EXCEPT ![c].old = old,
                                  ![c].pc = IF old \in {0, posCalls[c].pos} THEN "write" ELSE "shift"]
  /\ disarranged' = (disarranged \/ Overlaps(c) \/ ~UpToDate(c))
  /\ UNCHANGED position

\* Faulty variant: the last app between the two positions stays where it is.
ShiftedShort(old, new) ==
  [a \in AppNames |->
    IF position[a] > old /\ position[a] < new THEN position[a] - 1
    ELSE IF position[a] >= new /\ position[a] < old THEN position[a] + 1
    ELSE position[a]]

\* The apps between two positions make room.
Shifted(old, new) ==
  [a \in AppNames |->
    IF position[a] > old /\ position[a] <= new THEN position[a] - 1
    ELSE IF position[a] >= new /\ position[a] < old THEN position[a] + 1
    ELSE position[a]]

\* bulkWrite: updateMany.
ShiftApps(c) ==
  /\ posCalls[c].pc = "shift"
  /\ position' = Shifted(posCalls[c].old, posCalls[c].pos)
  /\ PosMoves(c, "write")
  /\ UNCHANGED disarranged

\* bulkWrite: updateOne with upsert.
WriteApp(c) ==
  /\ posCalls[c].pc = "write"
  /\ position' = [position EXCEPT ![posCalls[c].app] = posCalls[c].pos]
  /\ PosEnds(c)
  /\ UNCHANGED disarranged

ReadForDelete(c) ==
  /\ posCalls[c].pc = "read" /\ posCalls[c].kind = "delete"
  /\ posCalls' = [posCalls EXCEPT ![c].old = position[posCalls[c].app], ![c].pc = "erase"]
  /\ disarranged' = (disarranged \/ Overlaps(c))
  /\ UNCHANGED position

\* bulkWrite: deleteOne; the others move up if the app was there when it was read.
EraseApp(c) ==
  /\ posCalls[c].pc = "erase"
  /\ position' = [position EXCEPT ![posCalls[c].app] = 0]
  /\ IF posCalls[c].old = 0 THEN PosEnds(c) ELSE PosMoves(c, "close")
  /\ UNCHANGED disarranged

\* bulkWrite: updateMany.
CloseGap(c) ==
  /\ posCalls[c].pc = "close"
  /\ position' = [a \in AppNames |->
                    IF position[a] > posCalls[c].old THEN position[a] - 1 ELSE position[a]]
  /\ PosEnds(c)
  /\ UNCHANGED disarranged

\* patchSingleFieldInConfig writes a position and shifts nothing.
PatchPosition(a, pos) ==
  /\ position[a] # 0
  /\ position' = [position EXCEPT ![a] = pos]
  /\ disarranged' = TRUE
  /\ UNCHANGED posCalls

\* A command fails: the rest of the call is left out.
PosCallFails(c) ==
  /\ Acting(c)
  /\ PosEnds(c)
  /\ disarranged' = (disarranged \/ Halfway(c))
  /\ UNCHANGED position

\* The API process restarts, and inserts the default apps if there are none
\* (initializeCollection).  Pages stay open.
PosRestart ==
  /\ position' \in IF StoredApps = {} THEN Numbered(DefaultApps) ELSE {position}
  /\ posCalls' = [c \in PosCalls |-> IF Acting(c) THEN IdlePos ELSE posCalls[c]]
  /\ disarranged' = (disarranged \/ \E c \in PosCalls : Halfway(c))

PosCallStep(c) ==
  \/ ClosePage(c) \/ CountApps(c) \/ InsertApp(c)
  \/ ReadForUpdate(c) \/ ShiftApps(c) \/ WriteApp(c)
  \/ ReadForDelete(c) \/ EraseApp(c) \/ CloseGap(c)
  \/ PosCallFails(c)

PosNext ==
  \/ \E c \in PosCalls, a \in AppNames :
       OpenDialog(c, a) \/ OpenDeletion(c, a) \/ \E pos \in 1..Count : OpenSettings(c, a, pos)
  \/ \E a \in AppNames, pos \in 1..Count : PatchPosition(a, pos)
  \/ \E c \in PosCalls : PosCallStep(c)
  \/ PosRestart

PosSpec == PosInit /\ [][PosNext]_posVars

-----------------------------------------------------------------------------
(* Properties *)

\* The apps have the positions 1, 2, ... without a gap and each its own, unless two
\* changes overlapped, one ended halfway, a position was patched, or a page was submitted
\* that showed more apps, or an app that was deleted since (updateConfig, deleteConfig,
\* patchSingleFieldInConfig, countPosition).
AppsArranged ==
  ~disarranged /\ (\A c \in PosCalls : ~Halfway(c))
    => {position[a] : a \in StoredApps} = 1..Count
=============================================================================
