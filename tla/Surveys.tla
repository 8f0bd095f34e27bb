-------------------------------- MODULE Surveys --------------------------------
(***************************************************************************)
(* SurveysService and SurveyAnswersService: one survey, the answers given  *)
(* to it and the requests that submit them.  A survey and its answers are  *)
(* separate documents.  The survey also lists who participated and which   *)
(* answers there are, and every request writes both lists back as a whole, *)
(* from the survey it read when it began.  So does the editor of the       *)
(* creator, which may have been open for days.  A step is one command to   *)
(* Mongo, together with what the code does before its next await.          *)
(*                                                                         *)
(* Questions, attachments, notifications and SSE messages are left out.    *)
(* Whether a user is invited and whether the survey has expired are left   *)
(* open: a request may be refused at any time (Refuse).                    *)
(***************************************************************************)
EXTENDS Naturals, FiniteSets

CONSTANTS
  Users,        \* usernames: accounts, and logins of public users who came before
  Guest,        \* a public user who gives only a first name
  Requests,     \* submissions, each made once (a bound); also the id of its answer
  Editors,      \* editor tabs of the creator, each saved once (a bound)
  MaxRemovals,  \* how often the survey is deleted (a bound)
  None

ASSUME SurveysAssumption ==
  /\ Users \cap Requests = {}  \* a fresh login is nobody's username
  /\ Guest \notin Users \cup Requests
  /\ None \notin Users \cup Requests \cup {Guest}
  /\ MaxRemovals \in Nat

VARIABLES
  survey,    \* the document of the survey
  docs,      \* id of an answer -> username of its attendee, or None
  req,       \* the submissions
  edit,      \* the editor tabs
  removals,  \* deletions left to make, and those between their two commands
  revived,   \* history: a save brought the deleted survey back
  aborted,   \* history: a deletion ended between its two commands
  strays     \* history: submissions under way when answers were deleted

vars == <<survey, docs, req, edit, removals, revived, aborted, strays>>

-----------------------------------------------------------------------------
(* Types *)

Modes == {"single", "update", "multiple", "anonymous"}

\* Anonymous and public attendees get a fresh login, named here by the request.
Names == Users \cup Requests

Survey == [status: {"none", "stored", "deleted"}, mode: Modes,
           participated: SUBSET Names, answers: SUBSET Requests]

\* mode, participated and answers are those of the survey as read; former is
\* the answer that is updated; before are the submissions that had ended.
Request == [pc: {"idle", "found", "create", "update", "created", "done", "refused"},
            user: Users \cup {Guest}, mode: Modes,
            participated: SUBSET Names, answers: SUBSET Requests,
            former: Requests \cup {None}, before: SUBSET Requests]

Editor == [pc: {"idle", "open", "saving", "saved"},
           participated: SUBSET Names, answers: SUBSET Requests, before: SUBSET Requests]

Removals == [left: Nat, pending: Nat]

SurveysTypeOK ==
  /\ survey \in Survey
  /\ docs \in [Requests -> Names \cup {None}]
  /\ req \in [Requests -> Request]
  /\ edit \in [Editors -> Editor]
  /\ removals \in Removals
  /\ revived \in BOOLEAN /\ aborted \in BOOLEAN
  /\ strays \in SUBSET Requests

-----------------------------------------------------------------------------
(* Helpers *)

Stored == survey.status = "stored"

Answered == {d \in Requests : docs[d] # None}

Ended == {r \in Requests : req[r].pc \in {"done", "refused"}}

UnderWay == {r \in Requests : req[r].pc \in {"found", "create", "update", "created"}}

\* anonymousStrategy and publicFirstStrategy: no check, and a fresh login.
Nameless(r) == req[r].mode = "anonymous" \/ req[r].user = Guest

\* Faulty variant: a guest without a fresh login.
NameOfGuest(r) == req[r].user

NameOf(r) == IF Nameless(r) THEN r ELSE req[r].user

\* Faulty variant: only the list of the survey is asked.
AnswersOfUnasked(r) == {}

\* findOne by attendee and survey.
AnswersOf(r) == {d \in Requests : docs[d] = req[r].user}

Goto(r, pc) == req' = [req EXCEPT ![r].pc = pc]

Init ==
  /\ survey = [status |-> "none", mode |-> "single", participated |-> {}, answers |-> {}]
  /\ docs = [d \in Requests |-> None]
  /\ req = [r \in Requests |-> [pc |-> "idle", user |-> Guest, mode |-> "single",
                                participated |-> {}, answers |-> {}, former |-> None, before |-> {}]]
  /\ edit = [e \in Editors |-> [pc |-> "idle", participated |-> {}, answers |-> {}, before |-> {}]]
  /\ removals = [left |-> MaxRemovals, pending |-> 0]
  /\ revived = FALSE /\ aborted = FALSE
  /\ strays = {}

-----------------------------------------------------------------------------
(* addAnswer *)

\* The survey is found; the request goes on with this copy of it.
Submit(r, u) ==
  /\ req[r].pc = "idle"
  /\ Stored
  /\ req' = [req EXCEPT ![r] = [pc |-> "found", user |-> u, mode |-> survey.mode,
                                participated |-> survey.participated, answers |-> survey.answers,
                                former |-> None, before |-> Ended]]
  /\ UNCHANGED <<survey, docs, edit, removals, revived, aborted, strays>>

\* selectStrategy: a first answer, or a further one where that is allowed...
MayCreate(r) == AnswersOf(r) = {} \/ req[r].mode = "multiple"

\* ... throwErrorIfParticipationIsNotPossible.
HasParticipated(r) == req[r].mode = "single" /\ req[r].user \in req[r].participated

LookUp(r) ==
  /\ req[r].pc = "found"
  /\ \/ Nameless(r) /\ Goto(r, "create")
     \/ ~Nameless(r) /\ MayCreate(r) /\ ~HasParticipated(r) /\ Goto(r, "create")
     \/ /\ ~Nameless(r) /\ ~MayCreate(r) /\ req[r].mode = "update"
        /\ \E d \in AnswersOf(r) : req' = [req EXCEPT ![r].pc = "update", ![r].former = d]
     \/ ~Nameless(r) /\ MayCreate(r) /\ HasParticipated(r) /\ Goto(r, "refused")
     \/ ~Nameless(r) /\ ~MayCreate(r) /\ req[r].mode = "single" /\ Goto(r, "refused")
  /\ UNCHANGED <<survey, docs, edit, removals, revived, aborted, strays>>

\* createAnswer
Create(r) ==
  /\ req[r].pc = "create"
  /\ docs' = [docs EXCEPT ![r] = NameOf(r)]
  /\ Goto(r, "created")
  /\ UNCHANGED <<survey, edit, removals, revived, aborted, strays>>

\* updatingStrategy: the answer may be gone by now.  Its content is left out.
Update(r) ==
  /\ req[r].pc = "update"
  /\ Goto(r, IF req[r].former \in Answered THEN "done" ELSE "refused")
  /\ UNCHANGED <<survey, docs, edit, removals, revived, aborted, strays>>

\* Faulty variant: the answer is listed, the participant forgotten.
ParticipatedUnnamed(r) ==
  [survey EXCEPT !.participated = req[r].participated, !.answers = req[r].answers \cup {r}]

\* updateSurveyParticipations: the lists as read, with this answer added.
Participated(r) ==
  [survey EXCEPT !.participated = req[r].participated \cup {NameOf(r)},
                 !.answers = req[r].answers \cup {r}]

\* Faulty variant: the update inserts the survey if it is gone.
ParticipateUpsert(r) ==
  /\ req[r].pc = "created"
  /\ survey' = [Participated(r) EXCEPT !.status = "stored"] /\ Goto(r, "done")
  /\ UNCHANGED <<docs, edit, removals, revived, aborted, strays>>

Participate(r) ==
  /\ req[r].pc = "created"
  /\ IF Stored THEN survey' = Participated(r) /\ Goto(r, "done")
               ELSE Goto(r, "refused") /\ UNCHANGED survey
  /\ UNCHANGED <<docs, edit, removals, revived, aborted, strays>>

\* The survey has expired, the user is not invited, an attachment cannot be
\* moved, a command fails or the process ends.  What was written stays.
Refuse(r) ==
  /\ r \in UnderWay
  /\ Goto(r, "refused")
  /\ UNCHANGED <<survey, docs, edit, removals, revived, aborted, strays>>

-----------------------------------------------------------------------------
(* The creator *)

\* updateOrCreateSurvey without an id.
CreateSurvey(m) ==
  /\ survey.status = "none"
  /\ survey' = [survey EXCEPT !.status = "stored", !.mode = m]
  /\ UNCHANGED <<docs, req, edit, removals, revived, aborted, strays>>

\* The editor takes over the survey, the two lists included.
OpenEditor(e) ==
  /\ edit[e].pc = "idle"
  /\ Stored
  /\ edit' = [edit EXCEPT ![e] = [pc |-> "open", participated |-> survey.participated,
                                  answers |-> survey.answers, before |-> Ended]]
  /\ UNCHANGED <<survey, docs, req, removals, revived, aborted, strays>>

\* updateOrCreateSurvey with an id: the survey must exist ...
SaveFind(e) ==
  /\ edit[e].pc = "open"
  /\ Stored
  /\ edit' = [edit EXCEPT ![e].pc = "saving"]
  /\ UNCHANGED <<survey, docs, req, removals, revived, aborted, strays>>

\* ... and is written, or inserted, once the formula is processed.
Save(e, m) ==
  /\ edit[e].pc = "saving"
  /\ edit' = [edit EXCEPT ![e].pc = "saved"]
  /\ survey' = [status |-> "stored", mode |-> m,
                participated |-> edit[e].participated, answers |-> edit[e].answers]
  /\ revived' = (revived \/ ~Stored)
  /\ UNCHANGED <<docs, req, removals, aborted, strays>>

\* deleteSurveys, then onSurveyRemoval.
RemoveSurvey ==
  /\ Stored
  /\ removals.left > 0
  /\ survey' = [survey EXCEPT !.status = "deleted", !.participated = {}, !.answers = {}]
  /\ removals' = [left |-> removals.left - 1, pending |-> removals.pending + 1]
  /\ UNCHANGED <<docs, req, edit, revived, aborted, strays>>

\* Faulty variant: only answers that the survey lists are deleted.
WithoutAnswersListed == [d \in Requests |-> IF d \in survey.answers THEN None ELSE docs[d]]

\* deleteMany of the answers by the id of the survey.
WithoutAnswers == [d \in Requests |-> None]

RemoveAnswers ==
  /\ removals.pending > 0
  /\ removals' = [removals EXCEPT !.pending = @ - 1]
  /\ docs' = WithoutAnswers
  /\ strays' = strays \cup UnderWay
  /\ UNCHANGED <<survey, req, edit, revived, aborted>>

\* A command fails or the process ends before the answers are deleted.
RemovalFails ==
  /\ removals.pending > 0
  /\ removals' = [removals EXCEPT !.pending = @ - 1]
  /\ aborted' = TRUE
  /\ UNCHANGED <<survey, docs, req, edit, revived, strays>>

Next ==
  \/ \E r \in Requests :
       \/ \E u \in Users \cup {Guest} : Submit(r, u)
       \/ LookUp(r)
       \/ Create(r)
       \/ Update(r)
       \/ Participate(r)
       \/ Refuse(r)
  \/ \E m \in Modes : CreateSurvey(m)
  \/ \E e \in Editors :
       \/ OpenEditor(e)
       \/ SaveFind(e)
       \/ \E m \in Modes : Save(e, m)
  \/ RemoveSurvey
  \/ RemoveAnswers
  \/ RemovalFails

Spec == Init /\ [][Next]_vars

-----------------------------------------------------------------------------
(* Properties *)

\* addAnswer: whoever answers again, after an earlier submission has ended, finds
\* a second answer beside the first only where several answers are allowed -- though
\* the list of participants may have lost the name in between.
SecondAnswerAllowed ==
  \A r, s \in Answered : s \in req[r].before /\ docs[r] = docs[s] => req[r].mode = "multiple"

\* updateSurveyParticipations: who is refused for having participated has an answer,
\* and every listed answer exists.  A survey saved again after its deletion is
\* excepted: its lists come from the editor and its answers are gone.
ListedAnswersExist ==
  Stored /\ ~revived =>
    /\ survey.answers \subseteq Answered
    /\ \A n \in survey.participated : \E d \in Answered : docs[d] = n

Overlap(r, s) ==
  /\ s # r /\ req[s].pc # "idle"
  /\ r \notin req[s].before /\ s \notin req[r].before

Overwritten(r) ==
  \/ \E s \in Requests : Overlap(r, s)
  \/ \E e \in Editors : edit[e].pc = "saved" /\ r \notin edit[e].before

\* updateSurveyParticipations: an accepted answer whose participant or id is missing
\* from the lists of the survey was submitted together with another one, or the
\* survey was saved from an editor opened before it was accepted.
LostOnlyByOverlap ==
  \A r \in Answered :
    Stored /\ req[r].pc = "done" /\ ~Overwritten(r) =>
      NameOf(r) \in survey.participated /\ r \in survey.answers

\* onSurveyRemoval: when a deletion has run to its end, the only answers left
\* are those of submissions that were under way when the answers were deleted.
OrphansOnlyByOverlap ==
  survey.status = "deleted" /\ removals.pending = 0 /\ ~aborted => Answered \subseteq strays
=============================================================================
