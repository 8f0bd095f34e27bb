------------------------------ MODULE Conferences ------------------------------
(***************************************************************************)
(* ConferencesService: the isRunning flag of a conference mirrors whether  *)
(* its meeting runs in BigBlueButton (BBB).  Toggling, listing and an      *)
(* interval ask BBB first and write the flag later; nothing orders them.   *)
(* Starting a conference creates or updates its notification at the end,   *)
(* removing one deletes it.                                                *)
(***************************************************************************)
EXTENDS Naturals

CONSTANTS
  Meetings,        \* meeting ids, one per conference ever created
  ConfCalls,       \* requests at a time (a bound)
  MaxConfRestarts, \* bound on restarts of the API process
  NoMeeting

ASSUME ConfAssumption ==
  ConfCalls \cap Meetings = {} /\ NoMeeting \notin Meetings /\ MaxConfRestarts \in Nat

VARIABLES
  conferences,     \* the documents: "none", "removed", or the flag of a stored one
  bbb,             \* meetings that run in BBB
  notified,        \* conferences with a notification
  confCalls,       \* requests, and the pass of the interval over each conference
  confRestarts,
  unswept          \* removed conferences whose notification may stay (history)

confVars == <<conferences, bbb, notified, confCalls, confRestarts, unswept>>

-----------------------------------------------------------------------------
(* Types.  pc names the next step; seen: BBB was heard to run the meeting.   *)

AllCalls == ConfCalls \cup Meetings

ConfCall == [pc: {"idle", "ask", "bbb", "update", "notify", "delete", "cascade"},
             kind: {"start", "stop", "list", "pass", "remove"},
             meeting: Meetings \cup {NoMeeting}, seen: BOOLEAN]

IdleConf == [pc |-> "idle", kind |-> "list", meeting |-> NoMeeting, seen |-> FALSE]

ConfTypeOK ==
  /\ conferences \in [Meetings -> {"none", "stopped", "running", "removed"}]
  /\ bbb \in SUBSET Meetings
  /\ notified \in SUBSET Meetings
  /\ confCalls \in [AllCalls -> ConfCall]
  /\ \A c \in AllCalls : confCalls[c].pc # "idle" => confCalls[c].meeting \in Meetings
  /\ confRestarts \in 0..MaxConfRestarts
  /\ unswept \in SUBSET Meetings

Stored(m) == conferences[m] \in {"stopped", "running"}

Starting(m) ==
  \E c \in ConfCalls : confCalls[c].meeting = m /\ confCalls[c].kind = "start" /\ confCalls[c].pc # "idle"

\* The call goes on with step pc.
At(c, pc) == confCalls[c].pc = pc

GoesTo(c, pc) == confCalls' = [confCalls EXCEPT ![c].pc = pc]

Begins(c, kind, m, pc) ==
  /\ At(c, "idle")
  /\ confCalls' = [confCalls EXCEPT ![c] = [pc |-> pc, kind |-> kind, meeting |-> m, seen |-> FALSE]]

Ends(c) == confCalls' = [confCalls EXCEPT ![c] = IdleConf]

ConfInit ==
  /\ conferences = [m \in Meetings |-> "none"]
  /\ bbb = {}
  /\ notified = {}
  /\ confCalls = [c \in AllCalls |-> IdleConf]
  /\ confRestarts = 0
  /\ unswept = {}

-----------------------------------------------------------------------------
(* Operations *)

\* create: under a new meeting id.
CreateConference(m) ==
  /\ conferences[m] = "none"
  /\ conferences' = [conferences EXCEPT ![m] = "stopped"]
  /\ UNCHANGED <<bbb, notified, confCalls, confRestarts, unswept>>

\* toggleConferenceIsRunning by the creator, who may see an old flag, or a listing.
Request(c, m, kind) ==
  /\ Stored(m)
  /\ Begins(c, kind, m, "ask")
  /\ UNCHANGED <<conferences, bbb, notified, confRestarts, unswept>>

\* Faulty variant: the pass looks at the conferences that do not run.
PassTakesStopped(m) == conferences[m] = "stopped"

\* syncRunningConferencesStatus looks at the conferences that run, each for itself.
PassTakes(m) == conferences[m] = "running"

BeginPass(m) ==
  /\ PassTakes(m)
  /\ Begins(m, "pass", m, "ask")
  /\ UNCHANGED <<conferences, bbb, notified, confRestarts, unswept>>

\* The step after BBB was asked.
NextAfterAsk(kind, runs) ==
  IF kind = "list" THEN "update"
  ELSE IF kind = "pass" THEN (IF runs THEN "idle" ELSE "update")
  ELSE IF kind = "start" THEN (IF runs THEN "update" ELSE "bbb")
  ELSE (IF runs THEN "bbb" ELSE "update")

\* isMeetingRunning or getMeetingInfo: a request that fails counts as "not running".
AskBbb(c) ==
  LET call == confCalls[c] IN
  /\ At(c, "ask")
  /\ \E runs \in BOOLEAN :
       /\ runs => call.meeting \in bbb
       /\ confCalls' = [confCalls EXCEPT ![c].seen = runs, ![c].pc = NextAfterAsk(call.kind, runs)]
  /\ UNCHANGED <<conferences, bbb, notified, confRestarts, unswept>>

\* create or end is sent to BBB; it may act though its answer is an error or is lost.
\* BBB has no meeting to end if it ended by itself.
ChangeBbb(c) ==
  LET call == confCalls[c] IN
  /\ At(c, "bbb")
  /\ \/ /\ bbb' = IF call.kind = "start" THEN bbb \cup {call.meeting} ELSE bbb \ {call.meeting}
        /\ \/ (call.kind = "stop" => call.meeting \in bbb) /\ GoesTo(c, "update")
           \/ GoesTo(c, "notify")
     \/ UNCHANGED bbb /\ GoesTo(c, "notify")
  /\ UNCHANGED <<conferences, notified, confRestarts, unswept>>

\* The flag a call writes.
Written(call) ==
  IF call.kind = "start" \/ (call.kind = "list" /\ call.seen) THEN "running" ELSE "stopped"

\* update: no document is created for a removed conference.  A toggle spreads a
\* mongoose document, whose fields are no own properties: its update may match none.
UpdateFlag(c) ==
  LET call == confCalls[c]
      toggle == call.kind \in {"start", "stop"}
  IN
  /\ At(c, "update")
  /\ \/ /\ Stored(call.meeting)
        /\ conferences' = [conferences EXCEPT ![call.meeting] = Written(call)]
     \/ (Stored(call.meeting) => toggle) /\ UNCHANGED conferences
  /\ IF toggle THEN GoesTo(c, "notify") ELSE Ends(c)
  /\ UNCHANGED <<bbb, notified, confRestarts, unswept>>

\* The finally block, after a failure as well: a start upserts the notification,
\* whether or not the conference is still there.
Notify(c) ==
  LET call == confCalls[c] IN
  /\ At(c, "notify")
  /\ \/ notified' = IF call.kind = "start" THEN notified \cup {call.meeting} ELSE notified
     \/ UNCHANGED notified
  /\ Ends(c)
  /\ UNCHANGED <<conferences, bbb, confRestarts, unswept>>

\* remove finds the conference.
BeginRemove(c, m) ==
  /\ Stored(m)
  /\ Begins(c, "remove", m, "delete")
  /\ UNCHANGED <<conferences, bbb, notified, confRestarts, unswept>>

\* deleteMany: whoever comes second is told that there is no such conference.
DeleteConference(c) ==
  LET m == confCalls[c].meeting IN
  /\ At(c, "delete")
  /\ IF Stored(m)
     THEN /\ conferences' = [conferences EXCEPT ![m] = "removed"]
          /\ unswept' = IF Starting(m) THEN unswept \cup {m} ELSE unswept
          /\ GoesTo(c, "cascade")
     ELSE /\ Ends(c)
          /\ UNCHANGED <<conferences, unswept>>
  /\ UNCHANGED <<bbb, notified, confRestarts>>

\* Faulty variant: the notifications of the meeting are kept.
CascadedNot(m) == notified

\* cascadeDeleteBySourceId.
Cascaded(m) == notified \ {m}

\* Its failure is logged only.
Cascade(c) ==
  LET m == confCalls[c].meeting IN
  /\ At(c, "cascade")
  /\ \/ notified' = Cascaded(m) /\ UNCHANGED unswept
     \/ unswept' = unswept \cup {m} /\ UNCHANGED notified
  /\ Ends(c)
  /\ UNCHANGED <<conferences, bbb, confRestarts>>

\* BBB ends a meeting by itself.
MeetingEnds(m) ==
  /\ m \in bbb
  /\ bbb' = bbb \ {m}
  /\ UNCHANGED <<conferences, notified, confCalls, confRestarts, unswept>>

\* The API process restarts: the calls are gone.
ConfRestart ==
  /\ confRestarts < MaxConfRestarts
  /\ confRestarts' = confRestarts + 1
  /\ unswept' = unswept \cup {m \in Meetings : \E c \in ConfCalls :
                                confCalls[c].meeting = m /\ At(c, "cascade")}
  /\ confCalls' = [c \in AllCalls |-> IdleConf]
  /\ UNCHANGED <<conferences, bbb, notified>>

CallStep(c) ==
  AskBbb(c) \/ ChangeBbb(c) \/ UpdateFlag(c) \/ Notify(c) \/ DeleteConference(c) \/ Cascade(c)

ConfNext ==
  \/ \E m \in Meetings : CreateConference(m) \/ BeginPass(m) \/ MeetingEnds(m)
  \/ \E c \in ConfCalls, m \in Meetings :
       (\E kind \in {"start", "stop", "list"} : Request(c, m, kind)) \/ BeginRemove(c, m)
  \/ \E c \in AllCalls : CallStep(c)
  \/ ConfRestart

\* Calls run to their end (requests to BBB are answered or fail), and the
\* interval passes again and again.
ConfFairness ==
  /\ \A c \in AllCalls : WF_confVars(CallStep(c))
  /\ \A m \in Meetings : WF_confVars(BeginPass(m))

ConfSpec == ConfInit /\ [][ConfNext]_confVars /\ ConfFairness

-----------------------------------------------------------------------------
(* Properties *)

\* A removed conference keeps no notification, unless somebody was starting it
\* when it was removed, the deletion of the notifications failed, or the process
\* was restarted before it (remove, startConference).
OrphanOnlyByOverlap ==
  \A m \in notified : conferences[m] = "removed" =>
    \/ m \in unswept
    \/ \E c \in ConfCalls : confCalls[c].meeting = m /\ At(c, "cascade")

\* Once a meeting has ended for good the conference is shown as running no more,
\* whatever late answers the calls under way had (syncRunningConferencesStatus).
MirrorRepaired ==
  \A m \in Meetings : <>[](m \notin bbb) => <>[](conferences[m] # "running")
=============================================================================
