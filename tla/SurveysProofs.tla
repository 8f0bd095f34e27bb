----------------------------- MODULE SurveysProofs -----------------------------
(***************************************************************************)
(* The properties of Surveys, for any number of users, submissions,        *)
(* editors and deletions.  Every step of a submission only moves it on     *)
(* (Moves); what it read stays as it was.  On top of the types, History    *)
(* says how 'before' relates to the requests that have ended, and each     *)
(* property has an invariant about what is still to be written.            *)
(***************************************************************************)
EXTENDS Surveys, TLAPS

Pc == {"idle", "found", "create", "update", "created", "done", "refused"}

\* Submission r moves to pc and keeps what it read.
Moves(r, pc) ==
  /\ req' \in [Requests -> Request]
  /\ req'[r].pc = pc
  /\ req'[r].user = req[r].user /\ req'[r].mode = req[r].mode
  /\ req'[r].participated = req[r].participated /\ req'[r].answers = req[r].answers
  /\ req'[r].before = req[r].before
  /\ \A s \in Requests \ {r} : req'[s] = req[s]

LEMMA GotoMoves ==
  ASSUME SurveysTypeOK, NEW r \in Requests, NEW pc \in Pc, Goto(r, pc)
  PROVE  Moves(r, pc)
<1>1. req \in [Requests -> Request]
  BY DEF SurveysTypeOK
<1>2. req[r] \in Request
  BY <1>1
<1>3. [req[r] EXCEPT !.pc = pc] \in Request
  BY <1>2 DEF Request, Pc
<1>4. req' = [req EXCEPT ![r] = [req[r] EXCEPT !.pc = pc]]
  BY DEF Goto
<1> QED BY <1>1, <1>2, <1>3, <1>4 DEF Moves, Request

LEMMA LookUpMoves ==
  ASSUME SurveysTypeOK, NEW r \in Requests, LookUp(r)
  PROVE  \/ /\ Nameless(r) \/ req[r].mode = "multiple" \/ AnswersOf(r) = {}
            /\ Moves(r, "create")
         \/ Moves(r, "update")
         \/ Moves(r, "refused")
<1>1. req \in [Requests -> Request] /\ req[r] \in Request
  BY DEF SurveysTypeOK
<1>2. ASSUME NEW d \in AnswersOf(r), req' = [req EXCEPT ![r].pc = "update", ![r].former = d]
      PROVE  Moves(r, "update")
  <2>1. req' = [req EXCEPT ![r] = [req[r] EXCEPT !.pc = "update", !.former = d]]
    BY <1>2
  <2>2. [req[r] EXCEPT !.pc = "update", !.former = d] \in Request
    BY <1>1 DEF Request, AnswersOf
  <2> QED BY <1>1, <2>1, <2>2 DEF Moves, Request
<1>3. \A pc \in {"create", "refused"} : Goto(r, pc) => Moves(r, pc)
  BY GotoMoves DEF Pc
<1> QED BY <1>2, <1>3 DEF LookUp, MayCreate

-----------------------------------------------------------------------------
(* Types *)

LEMMA InitTypes == Init => SurveysTypeOK
<1> SUFFICES ASSUME Init PROVE SurveysTypeOK
  OBVIOUS
<1>1. survey \in Survey /\ req \in [Requests -> Request] /\ edit \in [Editors -> Editor]
  BY DEF Init, Survey, Request, Editor, Modes
<1>2. docs \in [Requests -> Names \cup {None}] /\ removals \in Removals
  BY SurveysAssumption DEF Init, Removals
<1> QED BY <1>1, <1>2 DEF Init, SurveysTypeOK

LEMMA NameTypes ==
  ASSUME SurveysTypeOK, NEW r \in Requests
  PROVE  NameOf(r) \in Names /\ NameOf(r) # None
<1>1. req[r].user \in Users \cup {Guest}
  BY DEF SurveysTypeOK, Request
<1> QED BY <1>1, SurveysAssumption DEF NameOf, Nameless, Names

LEMMA RequestTypes ==
  ASSUME SurveysTypeOK, NEW r \in Requests,
         \/ \E u \in Users \cup {Guest} : Submit(r, u)
         \/ LookUp(r) \/ Create(r) \/ Update(r) \/ Participate(r) \/ Refuse(r)
  PROVE  SurveysTypeOK'
<1> USE DEF SurveysTypeOK
<1>1. CASE \E u \in Users \cup {Guest} : Submit(r, u)
  <2>1. PICK u \in Users \cup {Guest} : Submit(r, u)
    BY <1>1
  <2>2. [pc |-> "found", user |-> u, mode |-> survey.mode,
         participated |-> survey.participated, answers |-> survey.answers,
         former |-> None, before |-> Ended] \in Request
    BY DEF Request, Survey, Ended
  <2> QED BY <2>1, <2>2 DEF Submit
<1>2. CASE LookUp(r)
  BY <1>2, LookUpMoves DEF LookUp, Moves
<1>3. CASE Create(r)
  <2>1. Moves(r, "created")
    BY <1>3, GotoMoves DEF Create, Pc
  <2> QED BY <1>3, <2>1, NameTypes DEF Create, Moves
<1>4. CASE Update(r)
  <2>1. Moves(r, "done") \/ Moves(r, "refused")
    BY <1>4, GotoMoves DEF Update, Pc
  <2> QED BY <1>4, <2>1 DEF Update, Moves
<1>5. CASE Participate(r)
  <2>1. Moves(r, "done") \/ Moves(r, "refused")
    BY <1>5, GotoMoves DEF Participate, Pc
  <2>2. req[r] \in Request /\ survey \in Survey
    OBVIOUS
  <2>3. Participated(r) \in Survey
    BY <2>2, NameTypes DEF Participated, Survey, Request
  <2> QED BY <1>5, <2>1, <2>3 DEF Participate, Moves
<1>6. CASE Refuse(r)
  <2>1. Moves(r, "refused")
    BY <1>6, GotoMoves DEF Refuse, Pc
  <2> QED BY <1>6, <2>1 DEF Refuse, Moves
<1> QED BY <1>1, <1>2, <1>3, <1>4, <1>5, <1>6

LEMMA CreatorTypes ==
  ASSUME SurveysTypeOK,
         \/ \E m \in Modes : CreateSurvey(m)
         \/ \E e \in Editors : OpenEditor(e) \/ SaveFind(e) \/ \E m \in Modes : Save(e, m)
         \/ RemoveSurvey \/ RemoveAnswers \/ RemovalFails
  PROVE  SurveysTypeOK'
<1> USE DEF SurveysTypeOK
<1>1. CASE \E m \in Modes : CreateSurvey(m)
  BY <1>1 DEF CreateSurvey, Survey
<1>2. ASSUME NEW e \in Editors, OpenEditor(e)
      PROVE  SurveysTypeOK'
  <2>1. [pc |-> "open", participated |-> survey.participated,
         answers |-> survey.answers, before |-> Ended] \in Editor
    BY DEF Editor, Survey, Ended
  <2> QED BY <1>2, <2>1 DEF OpenEditor
<1>3. ASSUME NEW e \in Editors, NEW pc \in {"saving", "saved"}, edit' = [edit EXCEPT ![e].pc = pc]
      PROVE  edit' \in [Editors -> Editor]
  <2>1. edit[e] \in Editor
    OBVIOUS
  <2>2. [edit[e] EXCEPT !.pc = pc] \in Editor
    BY <2>1 DEF Editor
  <2>3. edit' = [edit EXCEPT ![e] = [edit[e] EXCEPT !.pc = pc]]
    BY <1>3
  <2> QED BY <2>2, <2>3
<1>4. ASSUME NEW e \in Editors, SaveFind(e)
      PROVE  SurveysTypeOK'
  BY <1>4, <1>3 DEF SaveFind
<1>5. ASSUME NEW e \in Editors, NEW m \in Modes, Save(e, m)
      PROVE  SurveysTypeOK'
  <2>1. edit[e] \in Editor
    OBVIOUS
  <2>2. survey' \in Survey
    BY <1>5, <2>1 DEF Save, Survey, Editor
  <2>3. edit' \in [Editors -> Editor]
    BY <1>5, <1>3 DEF Save
  <2> QED BY <1>5, <2>2, <2>3 DEF Save
<1>6. CASE RemoveSurvey
  <2>1. survey' \in Survey
    BY <1>6 DEF RemoveSurvey, Survey
  <2>2. removals.left \in Nat /\ removals.pending \in Nat /\ removals.left > 0
    BY <1>6 DEF RemoveSurvey, Removals
  <2>3. removals.left - 1 \in Nat /\ removals.pending + 1 \in Nat
    BY <2>2
  <2>4. removals' \in Removals
    BY <1>6, <2>3 DEF RemoveSurvey, Removals
  <2> QED BY <1>6, <2>1, <2>4 DEF RemoveSurvey
<1>7. CASE RemoveAnswers
  <2>1. docs' \in [Requests -> Names \cup {None}]
    BY <1>7 DEF RemoveAnswers, WithoutAnswers
  <2>2. removals' \in Removals
    BY <1>7 DEF RemoveAnswers, Removals
  <2>3. strays' \in SUBSET Requests
    BY <1>7 DEF RemoveAnswers, UnderWay
  <2> QED BY <1>7, <2>1, <2>2, <2>3 DEF RemoveAnswers
<1>8. CASE RemovalFails
  BY <1>8 DEF RemovalFails, Removals
<1>9. CASE \E e \in Editors : OpenEditor(e) \/ SaveFind(e) \/ \E m \in Modes : Save(e, m)
  <2> HIDE DEF SurveysTypeOK
  <2> QED BY <1>9, <1>2, <1>4, <1>5
<1> HIDE DEF SurveysTypeOK
<1> QED BY <1>1, <1>6, <1>7, <1>8, <1>9

\* The documents, the submissions, the editors and the deletions keep their types.
THEOREM SurveysTypeCorrect == Spec => []SurveysTypeOK
<1>1. SurveysTypeOK /\ [Next]_vars => SurveysTypeOK'
  <2> SUFFICES ASSUME SurveysTypeOK, [Next]_vars PROVE SurveysTypeOK'
    OBVIOUS
  <2>1. CASE UNCHANGED vars
    BY <2>1 DEF vars, SurveysTypeOK
  <2> QED BY <2>1, RequestTypes, CreatorTypes DEF Next
<1> QED BY <1>1, InitTypes, PTL DEF Spec

-----------------------------------------------------------------------------
(* History *)

\* What was under way when a request or an editor began never counts as ended
\* before it, what ended stays ended, and an answer belongs to its submission.
\* Nothing happens before the survey is created.
History ==
  /\ \A r \in Requests : req[r].before \subseteq Ended /\ r \notin req[r].before
  /\ \A e \in Editors : edit[e].before \subseteq Ended
  /\ \A d \in Answered : req[d].pc \in {"created", "done", "refused"} /\ docs[d] = NameOf(d)
  /\ survey.status = "none" =>
       /\ \A r \in Requests : req[r].pc = "idle"
       /\ \A e \in Editors : edit[e].pc = "idle"
       /\ removals.pending = 0

\* A submission under way moves on: it may end, and it keeps its name.
LEMMA MovesEnd ==
  ASSUME NEW r \in Requests, r \in UnderWay, NEW pc \in Pc, Moves(r, pc)
  PROVE  /\ Ended \subseteq Ended'
         /\ UnderWay' \subseteq UnderWay
         /\ \A s \in Requests : NameOf(s)' = NameOf(s) /\ req'[s].before = req[s].before
BY DEF Moves, Ended, UnderWay, NameOf, Nameless

LEMMA MovesHistory ==
  ASSUME SurveysTypeOK, History, NEW r \in Requests, r \in UnderWay, NEW pc \in Pc, Moves(r, pc),
         UNCHANGED <<edit, removals>>,
         survey'.status = survey.status,
         req[r].pc = "created" => pc \in {"done", "refused"},
         docs' = docs \/ (pc = "created" /\ docs' = [docs EXCEPT ![r] = NameOf(r)])
  PROVE  History'
<1> USE DEF SurveysTypeOK
<1>1. /\ Ended \subseteq Ended'
      /\ \A s \in Requests : NameOf(s)' = NameOf(s) /\ req'[s].before = req[s].before
  BY MovesEnd
<1>2. \A s \in Requests : req'[s].before \subseteq Ended' /\ s \notin req'[s].before
  BY <1>1 DEF History
<1>3. \A e \in Editors : edit'[e].before \subseteq Ended'
  BY <1>1 DEF History
<1>4. ASSUME NEW d \in Answered'
      PROVE  req'[d].pc \in {"created", "done", "refused"} /\ docs'[d] = NameOf(d)'
  <2>1. d \in Requests /\ docs'[d] # None
    BY DEF Answered
  <2>2. CASE d # r
    <3>1. d \in Answered /\ req'[d] = req[d] /\ docs'[d] = docs[d]
      BY <2>1, <2>2 DEF Answered, Moves
    <3> QED BY <3>1, <2>1, <1>1 DEF History
  <2>3. CASE d = r /\ docs' = docs
    <3>1. r \in Answered
      BY <2>1, <2>3 DEF Answered
    <3>2. req[r].pc \in {"created", "done", "refused"} /\ docs[r] = NameOf(r)
      BY <3>1 DEF History
    <3>3. req[r].pc = "created"
      BY <3>2 DEF UnderWay
    <3> QED BY <3>2, <3>3, <2>3, <1>1 DEF Moves
  <2>4. CASE d = r /\ docs' # docs
    BY <2>4, <1>1 DEF Moves
  <2> QED BY <2>2, <2>3, <2>4
<1>5. survey.status # "none"
  BY DEF History, UnderWay
<1> QED BY <1>2, <1>3, <1>4, <1>5 DEF History

\* What the six steps of a submission do.
LEMMA RequestMoves ==
  ASSUME SurveysTypeOK, NEW r \in Requests,
         LookUp(r) \/ Create(r) \/ Update(r) \/ Participate(r) \/ Refuse(r)
  PROVE  /\ r \in UnderWay
         /\ UNCHANGED <<edit, removals, revived, aborted, strays>>
         /\ survey'.status = survey.status
         /\ \E pc \in Pc :
              /\ Moves(r, pc)
              /\ pc # "idle"
              /\ req[r].pc = "created" => pc \in {"done", "refused"}
              /\ docs' = docs \/ (pc = "created" /\ docs' = [docs EXCEPT ![r] = NameOf(r)])
<1> USE DEF UnderWay, Pc
<1>1. CASE LookUp(r)
  <2>1. Moves(r, "create") \/ Moves(r, "update") \/ Moves(r, "refused")
    BY <1>1, LookUpMoves
  <2> QED BY <1>1, <2>1 DEF LookUp
<1>2. CASE Create(r)
  <2>1. Moves(r, "created")
    BY <1>2, GotoMoves DEF Create
  <2> QED BY <1>2, <2>1 DEF Create
<1>3. CASE Update(r)
  <2>1. Moves(r, "done") \/ Moves(r, "refused")
    BY <1>3, GotoMoves DEF Update
  <2> QED BY <1>3, <2>1 DEF Update
<1>4. CASE Participate(r)
  <2>1. Moves(r, "done") \/ Moves(r, "refused")
    BY <1>4, GotoMoves DEF Participate
  <2>2. survey'.status = survey.status
    BY <1>4 DEF Participate, Participated, SurveysTypeOK, Survey
  <2> QED BY <1>4, <2>1, <2>2 DEF Participate
<1>5. CASE Refuse(r)
  <2>1. Moves(r, "refused")
    BY <1>5, GotoMoves DEF Refuse
  <2> QED BY <1>5, <2>1 DEF Refuse
<1> QED BY <1>1, <1>2, <1>3, <1>4, <1>5

LEMMA SubmitReads ==
  ASSUME SurveysTypeOK, NEW r \in Requests, NEW u \in Users \cup {Guest}, Submit(r, u)
  PROVE  /\ req[r].pc = "idle" /\ req'[r].pc = "found"
         /\ req'[r].participated = survey.participated /\ req'[r].answers = survey.answers
         /\ req'[r].before = Ended
         /\ \A s \in Requests \ {r} : req'[s] = req[s]
         /\ Ended' = Ended
         /\ \A s \in Requests \ {r} : NameOf(s)' = NameOf(s)
<1>1. req \in [Requests -> Request]
  BY DEF SurveysTypeOK
<1>2. \A s \in Requests \ {r} : req'[s] = req[s]
  BY <1>1 DEF Submit
<1>3. req[r].pc = "idle" /\ req'[r].pc = "found"
  BY <1>1 DEF Submit
<1> QED BY <1>1, <1>2, <1>3 DEF Submit, Ended, NameOf, Nameless

LEMMA SubmitHistory ==
  ASSUME SurveysTypeOK, History, NEW r \in Requests, NEW u \in Users \cup {Guest}, Submit(r, u)
  PROVE  History'
<1>1. \A s \in Requests : req'[s].before \subseteq Ended' /\ s \notin req'[s].before
  BY SubmitReads DEF History, Ended
<1>2. \A e \in Editors : edit'[e].before \subseteq Ended'
  BY SubmitReads DEF History, Submit
<1>3. ASSUME NEW d \in Answered'
      PROVE  req'[d].pc \in {"created", "done", "refused"} /\ docs'[d] = NameOf(d)'
  <2>1. d \in Answered /\ docs' = docs
    BY DEF Answered, Submit
  <2>2. d # r
    BY <2>1, SubmitReads DEF History
  <2> QED BY <2>1, <2>2, SubmitReads DEF History, Answered
<1>4. survey' = survey /\ survey.status # "none"
  BY DEF Submit, Stored
<1> QED BY <1>1, <1>2, <1>3, <1>4 DEF History

LEMMA CreatorHistory ==
  ASSUME SurveysTypeOK, History,
         \/ \E m \in Modes : CreateSurvey(m)
         \/ \E e \in Editors : OpenEditor(e) \/ SaveFind(e) \/ \E m \in Modes : Save(e, m)
         \/ RemoveSurvey \/ RemoveAnswers \/ RemovalFails
  PROVE  History'
<1>1. req' = req /\ Ended' = Ended /\ \A s \in Requests : NameOf(s)' = NameOf(s)
  <2>1. req' = req
    BY DEF CreateSurvey, OpenEditor, SaveFind, Save, RemoveSurvey, RemoveAnswers, RemovalFails
  <2> QED BY <2>1 DEF Ended, NameOf, Nameless
<1>2. \A d \in Answered' : d \in Answered /\ docs'[d] = docs[d]
  BY DEF CreateSurvey, OpenEditor, SaveFind, Save, RemoveSurvey, RemoveAnswers, RemovalFails,
         Answered, WithoutAnswers
<1>3. \A e \in Editors : edit'[e].before \subseteq Ended
  <2>1. edit' = edit => \A e \in Editors : edit'[e].before \subseteq Ended
    BY DEF History
  <2>2. ASSUME NEW e \in Editors, OpenEditor(e) \/ SaveFind(e) \/ \E m \in Modes : Save(e, m)
        PROVE  \A f \in Editors : edit'[f].before \subseteq Ended
    BY <2>2 DEF OpenEditor, SaveFind, Save, History, SurveysTypeOK, Editor
  <2> QED BY <2>1, <2>2 DEF CreateSurvey, RemoveSurvey, RemoveAnswers, RemovalFails
<1>4. survey'.status # "none"
  <2>1. survey \in Survey
    BY DEF SurveysTypeOK
  <2>2. (\E m \in Modes : CreateSurvey(m)) \/ RemoveSurvey => survey'.status # "none"
    BY <2>1 DEF CreateSurvey, RemoveSurvey, Survey
  <2>3. ASSUME NEW e \in Editors, OpenEditor(e) \/ SaveFind(e) \/ \E m \in Modes : Save(e, m)
        PROVE  survey'.status # "none"
    <3>1. OpenEditor(e) \/ SaveFind(e) => survey'.status # "none"
      BY DEF OpenEditor, SaveFind, Stored
    <3>2. ASSUME NEW m \in Modes, Save(e, m) PROVE survey'.status # "none"
      BY <3>2 DEF Save
    <3> QED BY <2>3, <3>1, <3>2
  <2>4. RemoveAnswers \/ RemovalFails => survey' = survey /\ survey.status # "none"
    <3>1. removals.pending > 0 => removals.pending # 0
      BY DEF SurveysTypeOK, Removals
    <3> QED BY <3>1 DEF RemoveAnswers, RemovalFails, History
  <2> QED BY <2>2, <2>3, <2>4
<1>5. \A r \in Requests : req'[r].before \subseteq Ended' /\ r \notin req'[r].before
  BY <1>1 DEF History
<1>6. \A d \in Answered' : req'[d].pc \in {"created", "done", "refused"} /\ docs'[d] = NameOf(d)'
  <2>1. \A d \in Answered : d \in Requests
    BY DEF Answered
  <2> QED BY <1>1, <1>2, <2>1 DEF History
<1>7. \A e \in Editors : edit'[e].before \subseteq Ended'
  BY <1>1, <1>3
<1> QED BY <1>4, <1>5, <1>6, <1>7 DEF History

LEMMA HistoryInductive ==
  /\ Init => SurveysTypeOK /\ History
  /\ SurveysTypeOK /\ History /\ [Next]_vars => SurveysTypeOK' /\ History'
<1>1. ASSUME Init PROVE History
  <2>1. \A r \in Requests : req[r].pc = "idle" /\ req[r].before = {}
    BY <1>1 DEF Init
  <2>2. Answered = {}
    BY <1>1 DEF Init, Answered
  <2>3. \A e \in Editors : edit[e].pc = "idle" /\ edit[e].before = {}
    BY <1>1 DEF Init
  <2>4. removals.pending = 0
    BY <1>1 DEF Init
  <2> QED BY <2>1, <2>2, <2>3, <2>4 DEF History
<1>2. ASSUME SurveysTypeOK, History, [Next]_vars
      PROVE  SurveysTypeOK' /\ History'
  <2>1. CASE UNCHANGED vars
    BY <2>1, <1>2 DEF vars, SurveysTypeOK, History, Ended, Answered, NameOf, Nameless
  <2>2. ASSUME NEW r \in Requests, LookUp(r) \/ Create(r) \/ Update(r) \/ Participate(r) \/ Refuse(r)
        PROVE  History'
    BY <1>2, <2>2, RequestMoves, MovesHistory
  <2>3. ASSUME NEW r \in Requests, NEW u \in Users \cup {Guest}, Submit(r, u)
        PROVE  History'
    BY <1>2, <2>3, SubmitHistory
  <2> QED BY <1>2, <2>1, <2>2, <2>3, RequestTypes, CreatorTypes, CreatorHistory DEF Next
<1> QED BY <1>1, <1>2, InitTypes

-----------------------------------------------------------------------------
(* Second answers *)

\* A submission that will create an answer without leave for several has no
\* answer among those that had ended, nor will it get one.
NoFormerAnswer(r) ==
  Nameless(r) \/ req[r].mode = "multiple" \/ \A s \in req[r].before : docs[s] # req[r].user

CreatesFirst ==
  \A r \in Requests : req[r].pc = "create" \/ r \in Answered => NoFormerAnswer(r)

\* The documents of what has ended are only deleted.
EndedKeep == \A s \in Ended : docs'[s] = docs[s] \/ docs'[s] = None

LEMMA UserNotNone ==
  ASSUME SurveysTypeOK, NEW r \in Requests PROVE req[r].user # None
BY SurveysAssumption DEF SurveysTypeOK, Request

LEMMA NoFormerAnswerKept ==
  ASSUME SurveysTypeOK, History, EndedKeep, NEW r \in Requests, NoFormerAnswer(r),
         req'[r].user = req[r].user, req'[r].mode = req[r].mode, req'[r].before = req[r].before
  PROVE  NoFormerAnswer(r)'
BY UserNotNone DEF NoFormerAnswer, Nameless, History, EndedKeep

LEMMA CreatesFirstKept ==
  ASSUME SurveysTypeOK, History, CreatesFirst, [Next]_vars
  PROVE  CreatesFirst'
<1>1. ASSUME NEW r \in Requests, LookUp(r) \/ Create(r) \/ Update(r) \/ Participate(r) \/ Refuse(r)
      PROVE  CreatesFirst'
  <2>1. PICK pc \in Pc :
          /\ Moves(r, pc)
          /\ req[r].pc = "created" => pc \in {"done", "refused"}
          /\ docs' = docs \/ (pc = "created" /\ docs' = [docs EXCEPT ![r] = NameOf(r)])
    BY <1>1, RequestMoves
  <2>2. r \in UnderWay
    BY <1>1, RequestMoves
  <2>3. EndedKeep
    BY <2>1, <2>2 DEF EndedKeep, Ended, UnderWay, SurveysTypeOK
  <2>4. ASSUME NEW s \in Requests, NoFormerAnswer(s) PROVE NoFormerAnswer(s)'
    BY <2>1, <2>3, <2>4, NoFormerAnswerKept DEF Moves
  <2>5. ASSUME NEW s \in Requests \ {r}, req'[s].pc = "create" \/ s \in Answered'
        PROVE  NoFormerAnswer(s)'
    <3>1. req'[s] = req[s] /\ docs'[s] = docs[s]
      BY <2>1 DEF Moves, SurveysTypeOK
    <3>2. req[s].pc = "create" \/ s \in Answered
      BY <2>5, <3>1 DEF Answered
    <3> QED BY <3>2, <2>4 DEF CreatesFirst
  <2>6. ASSUME req'[r].pc = "create" \/ r \in Answered'
        PROVE  NoFormerAnswer(r)'
    <3>1. CASE req[r].pc = "create" \/ r \in Answered
      BY <3>1, <2>4 DEF CreatesFirst
    <3>2. CASE req[r].pc # "create" /\ r \notin Answered
      <4>1. ~Create(r) /\ docs' = docs
        <5>1. ~Create(r)
          BY <3>2 DEF Create
        <5>2. LookUp(r) \/ Update(r) \/ Participate(r) \/ Refuse(r) => docs' = docs
          BY DEF LookUp, Update, Participate, Refuse
        <5> QED BY <1>1, <5>1, <5>2
      <4>2. req'[r].pc = "create"
        BY <2>6, <3>2, <4>1 DEF Answered
      <4>3. LookUp(r)
        BY <1>1, <4>1, <4>2, GotoMoves DEF Update, Participate, Refuse, Moves, Pc
      <4>4. Nameless(r) \/ req[r].mode = "multiple" \/ AnswersOf(r) = {}
        BY <4>2, <4>3, LookUpMoves DEF Moves
      <4>5. NoFormerAnswer(r)
        BY <4>4 DEF NoFormerAnswer, AnswersOf, History, Ended
      <4> QED BY <4>5, <2>4
    <3> QED BY <3>1, <3>2
  <2> QED BY <2>5, <2>6 DEF CreatesFirst
<1>2. ASSUME NEW r \in Requests, NEW u \in Users \cup {Guest}, Submit(r, u)
      PROVE  CreatesFirst'
  <2>1. EndedKeep /\ docs' = docs
    BY <1>2 DEF EndedKeep, Submit
  <2>2. ASSUME NEW s \in Requests, req'[s].pc = "create" \/ s \in Answered'
        PROVE  NoFormerAnswer(s)'
    <3>1. s # r
      BY <1>2, <2>1, <2>2, SubmitReads DEF History, Answered
    <3>2. req'[s] = req[s] /\ NoFormerAnswer(s)
      BY <1>2, <2>1, <2>2, <3>1, SubmitReads DEF CreatesFirst, Answered
    <3> QED BY <2>1, <3>2, NoFormerAnswerKept
  <2> QED BY <2>2 DEF CreatesFirst
<1>3. ASSUME req' = req, \A d \in Requests : docs'[d] = docs[d] \/ docs'[d] = None
      PROVE  CreatesFirst'
  <2>1. EndedKeep /\ Answered' \subseteq Answered
    BY <1>3 DEF EndedKeep, Ended, Answered
  <2>2. \A s \in Requests : NoFormerAnswer(s) => NoFormerAnswer(s)'
    BY <1>3, <2>1, NoFormerAnswerKept
  <2> QED BY <1>3, <2>1, <2>2 DEF CreatesFirst
<1>4. ASSUME \/ \E m \in Modes : CreateSurvey(m)
             \/ \E e \in Editors : OpenEditor(e) \/ SaveFind(e) \/ \E m \in Modes : Save(e, m)
             \/ RemoveSurvey \/ RemoveAnswers \/ RemovalFails
             \/ UNCHANGED vars
      PROVE  req' = req /\ \A d \in Requests : docs'[d] = docs[d] \/ docs'[d] = None
  BY <1>4 DEF CreateSurvey, OpenEditor, SaveFind, Save, RemoveSurvey, RemoveAnswers, RemovalFails,
              WithoutAnswers, vars
<1> QED BY <1>1, <1>2, <1>3, <1>4 DEF Next

\* A second answer of a user stands beside the first only if several are allowed.
THEOREM SecondAnswersAreAllowed == Spec => []SecondAnswerAllowed
<1>1. Init => CreatesFirst
  BY DEF Init, CreatesFirst, Answered
<1>2. SurveysTypeOK /\ History /\ CreatesFirst => SecondAnswerAllowed
  <2> SUFFICES ASSUME SurveysTypeOK, History, CreatesFirst,
                      NEW r \in Answered, NEW s \in Answered,
                      s \in req[r].before, docs[r] = docs[s], req[r].mode # "multiple"
               PROVE  FALSE
    BY DEF SecondAnswerAllowed
  <2>1. r \in Requests /\ s \in Requests /\ r # s
    BY DEF Answered, History
  <2>2. docs[r] = NameOf(r) /\ docs[s] = NameOf(s)
    BY DEF History
  <2>3. CASE Nameless(r)
    <3>1. NameOf(s) \in Users \cup {Guest} \/ NameOf(s) = s
      BY <2>1 DEF NameOf, SurveysTypeOK, Request
    <3> QED BY <2>1, <2>2, <2>3, <3>1, SurveysAssumption DEF NameOf
  <2>4. CASE ~Nameless(r)
    BY <2>1, <2>2, <2>4 DEF CreatesFirst, NoFormerAnswer, NameOf
  <2> QED BY <2>3, <2>4
<1> QED BY <1>1, <1>2, HistoryInductive, CreatesFirstKept, PTL DEF Spec

-----------------------------------------------------------------------------
(* Listed answers *)

\* The lists of x name answers and attendees of the documents d.
Backed(d, x) ==
  /\ \A a \in x.answers : d[a] # None
  /\ \A n \in x.participated : \E a \in Requests : d[a] = n

\* As long as the survey was never deleted: what it lists, and what submissions
\* and editors will write back, is backed by the answers, and a submission that
\* is about to be listed has its answer.
ListsBacked ==
  /\ survey.status = "none" => survey.participated = {} /\ survey.answers = {}
  /\ Stored /\ ~revived =>
       /\ removals.pending = 0
       /\ Backed(docs, survey)
       /\ \A r \in UnderWay : Backed(docs, req[r])
       /\ \A r \in Requests : req[r].pc = "created" => docs[r] = NameOf(r)
       /\ \A e \in Editors : edit[e].pc \in {"open", "saving"} => Backed(docs, edit[e])

LEMMA BackedKept ==
  ASSUME NEW d, NEW f, NEW x, x.answers \subseteq Requests, None \notin x.participated,
         \A a \in Requests : d[a] # None => f[a] = d[a],
         Backed(d, x)
  PROVE  Backed(f, x)
<1>1. \A a \in x.answers : f[a] # None
  BY DEF Backed
<1>2. ASSUME NEW n \in x.participated
      PROVE  \E a \in Requests : f[a] = n
  <2>1. PICK a \in Requests : d[a] = n
    BY DEF Backed
  <2> QED BY <2>1
<1> QED BY <1>1, <1>2 DEF Backed

LEMMA ListTypes ==
  ASSUME SurveysTypeOK
  PROVE  /\ survey.answers \subseteq Requests /\ None \notin survey.participated
         /\ \A r \in Requests : req[r].answers \subseteq Requests /\ None \notin req[r].participated
         /\ \A e \in Editors : edit[e].answers \subseteq Requests /\ None \notin edit[e].participated
BY SurveysAssumption DEF SurveysTypeOK, Survey, Request, Editor, Names

LEMMA RequestBacked ==
  ASSUME SurveysTypeOK, History, ListsBacked, NEW r \in Requests,
         LookUp(r) \/ Create(r) \/ Update(r) \/ Participate(r) \/ Refuse(r)
  PROVE  ListsBacked'
<1>1. /\ r \in UnderWay /\ UNCHANGED <<edit, removals, revived>> /\ survey'.status = survey.status
  BY RequestMoves
<1>2. PICK pc \in Pc :
        /\ Moves(r, pc) /\ pc # "idle"
        /\ docs' = docs \/ (pc = "created" /\ docs' = [docs EXCEPT ![r] = NameOf(r)])
  BY RequestMoves
<1>3. UnderWay' \subseteq UnderWay /\ \A s \in Requests : NameOf(s)' = NameOf(s)
  BY <1>1, <1>2, MovesEnd
<1>4. survey.status # "none"
  BY <1>1 DEF History, UnderWay
<1> SUFFICES ASSUME Stored, ~revived
             PROVE  /\ Backed(docs', survey')
                    /\ \A s \in UnderWay' : Backed(docs', req'[s])
                    /\ \A s \in Requests : req'[s].pc = "created" => docs'[s] = NameOf(s)
                    /\ \A e \in Editors : edit[e].pc \in {"open", "saving"} => Backed(docs', edit[e])
  BY <1>1, <1>3, <1>4 DEF ListsBacked, Stored
<1>5. \A a \in Requests : docs[a] # None => docs'[a] = docs[a]
  BY <1>2 DEF SurveysTypeOK, History, Answered
<1>6. ASSUME NEW s \in UnderWay'
      PROVE  Backed(docs', req'[s])
  <2>1. s \in Requests /\ Backed(docs, req[s])
    BY <1>3 DEF ListsBacked, UnderWay
  <2>2. Backed(docs', req[s])
    BY <2>1, <1>5, ListTypes, BackedKept
  <2>3. req'[s].answers = req[s].answers /\ req'[s].participated = req[s].participated
    BY <2>1, <1>2 DEF Moves
  <2> QED BY <2>2, <2>3 DEF Backed
<1>7. ASSUME NEW s \in Requests, req'[s].pc = "created"
      PROVE  docs'[s] = NameOf(s)
  <2>1. CASE s # r
    <3>1. docs[s] = NameOf(s) /\ docs[s] # None
      BY <1>2, <1>7, <2>1, NameTypes DEF Moves, ListsBacked
    <3> QED BY <3>1, <1>5
  <2>2. CASE s = r
    <3>1. Create(r)
      <4>1. pc = "created"
        BY <1>2, <1>7, <2>2 DEF Moves
      <4>2. LookUp(r) \/ Update(r) \/ Participate(r) \/ Refuse(r) => req'[r].pc # "created"
        BY LookUpMoves, GotoMoves DEF Update, Participate, Refuse, Moves, Pc
      <4> QED BY <1>7, <2>2, <4>2
    <3> QED BY <2>2, <3>1 DEF Create, SurveysTypeOK
  <2> QED BY <2>1, <2>2
<1>8. \A e \in Editors : edit[e].pc \in {"open", "saving"} => Backed(docs', edit[e])
  BY <1>5, ListTypes, BackedKept DEF ListsBacked
<1>9. Backed(docs', survey')
  <2>1. CASE survey' = survey
    BY <2>1, <1>5, ListTypes, BackedKept DEF ListsBacked
  <2>2. CASE survey' = Participated(r) /\ Participate(r)
    <3>1. survey'.participated = req[r].participated \cup {NameOf(r)} /\ survey'.answers = req[r].answers \cup {r}
      BY <2>2 DEF Participated, SurveysTypeOK, Survey
    <3>2. docs' = docs /\ docs[r] = NameOf(r) /\ docs[r] # None
      BY <2>2, NameTypes DEF Participate, ListsBacked
    <3>3. Backed(docs, req[r])
      BY <1>1 DEF ListsBacked
    <3> QED BY <3>1, <3>2, <3>3 DEF Backed
  <2> QED BY <2>1, <2>2 DEF LookUp, Create, Update, Participate, Refuse
<1> QED BY <1>6, <1>7, <1>8, <1>9

LEMMA SubmitBacked ==
  ASSUME SurveysTypeOK, History, ListsBacked, NEW r \in Requests, NEW u \in Users \cup {Guest}, Submit(r, u)
  PROVE  ListsBacked'
<1>1. UNCHANGED <<survey, docs, edit, removals, revived>> /\ survey.status # "none"
  BY DEF Submit, Stored
<1>2. \A s \in UnderWay' : s \in UnderWay \/ s = r
  BY SubmitReads DEF UnderWay
<1>3. ASSUME Stored, ~revived, NEW s \in UnderWay'
      PROVE  Backed(docs, req'[s])
  <2>1. CASE s # r
    BY <1>2, <1>3, <2>1, SubmitReads DEF ListsBacked, UnderWay
  <2>2. CASE s = r
    <3>1. Backed(docs, survey)
      BY <1>3 DEF ListsBacked
    <3> QED BY <2>2, <3>1, SubmitReads DEF Backed
  <2> QED BY <2>1, <2>2
<1>4. ASSUME Stored, ~revived, NEW s \in Requests, req'[s].pc = "created"
      PROVE  docs[s] = NameOf(s)'
  <2>1. s # r
    BY <1>4, SubmitReads
  <2> QED BY <1>4, <2>1, SubmitReads DEF ListsBacked
<1> QED BY <1>1, <1>3, <1>4 DEF ListsBacked, Stored

LEMMA CreatorBacked ==
  ASSUME SurveysTypeOK, History, ListsBacked,
         \/ \E m \in Modes : CreateSurvey(m)
         \/ \E e \in Editors : OpenEditor(e) \/ SaveFind(e) \/ \E m \in Modes : Save(e, m)
         \/ RemoveSurvey \/ RemoveAnswers \/ RemovalFails
  PROVE  ListsBacked'
<1>1. ASSUME NEW m \in Modes, CreateSurvey(m)
      PROVE  ListsBacked'
  <2>1. survey' = [survey EXCEPT !.status = "stored", !.mode = m] /\ survey.status = "none"
    BY <1>1 DEF CreateSurvey
  <2>2. survey'.status = "stored" /\ survey'.participated = {} /\ survey'.answers = {}
    BY <2>1 DEF ListsBacked, SurveysTypeOK, Survey
  <2>3. UNCHANGED <<docs, req, edit, removals, revived>>
    BY <1>1 DEF CreateSurvey
  <2>4. /\ \A r \in Requests : req[r].pc = "idle"
        /\ \A e \in Editors : edit[e].pc = "idle"
        /\ removals.pending = 0
    BY <2>1 DEF History
  <2> QED BY <2>2, <2>3, <2>4 DEF ListsBacked, Backed, UnderWay
<1>2. ASSUME NEW e \in Editors, OpenEditor(e)
      PROVE  ListsBacked'
  <2>1. UNCHANGED <<survey, docs, req, removals, revived>> /\ Stored
    BY <1>2 DEF OpenEditor
  <2>2. /\ \A f \in Editors \ {e} : edit'[f] = edit[f]
        /\ edit'[e].participated = survey.participated /\ edit'[e].answers = survey.answers
    BY <1>2 DEF OpenEditor, SurveysTypeOK
  <2>3. UnderWay' = UnderWay /\ \A r \in Requests : NameOf(r)' = NameOf(r)
    BY <2>1 DEF UnderWay, NameOf, Nameless
  <2>4. Backed(docs, survey) => Backed(docs, edit'[e])
    BY <2>2 DEF Backed
  <2> QED BY <2>1, <2>2, <2>3, <2>4 DEF ListsBacked, Stored
<1>3. ASSUME NEW e \in Editors, SaveFind(e)
      PROVE  ListsBacked'
  <2>1. UNCHANGED <<survey, docs, req, removals, revived>> /\ Stored /\ edit[e].pc = "open"
    BY <1>3 DEF SaveFind
  <2>2. /\ \A f \in Editors \ {e} : edit'[f] = edit[f]
        /\ edit'[e].participated = edit[e].participated /\ edit'[e].answers = edit[e].answers
    BY <1>3 DEF SaveFind, SurveysTypeOK, Editor
  <2>3. UnderWay' = UnderWay /\ \A r \in Requests : NameOf(r)' = NameOf(r)
    BY <2>1 DEF UnderWay, NameOf, Nameless
  <2>4. Backed(docs, edit[e]) => Backed(docs, edit'[e])
    BY <2>2 DEF Backed
  <2> QED BY <2>1, <2>2, <2>3, <2>4 DEF ListsBacked, Stored
<1>4. ASSUME NEW e \in Editors, NEW m \in Modes, Save(e, m)
      PROVE  ListsBacked'
  <2>1. UNCHANGED <<docs, req, removals>> /\ edit[e].pc = "saving" /\ (~revived' => Stored /\ ~revived)
    BY <1>4 DEF Save
  <2>2. \A f \in Editors \ {e} : edit'[f] = edit[f]
    BY <1>4 DEF Save, SurveysTypeOK
  <2>3. edit'[e].pc = "saved"
    BY <1>4 DEF Save, SurveysTypeOK, Editor
  <2>4. survey'.status = "stored" /\ survey'.participated = edit[e].participated /\ survey'.answers = edit[e].answers
    BY <1>4 DEF Save
  <2>5. UnderWay' = UnderWay /\ \A r \in Requests : NameOf(r)' = NameOf(r)
    BY <2>1 DEF UnderWay, NameOf, Nameless
  <2>6. Backed(docs, edit[e]) => Backed(docs, survey')
    BY <2>4 DEF Backed
  <2> QED BY <2>1, <2>2, <2>3, <2>4, <2>5, <2>6 DEF ListsBacked
<1>5. ASSUME RemoveSurvey
      PROVE  ListsBacked'
  <2>1. survey'.status = "deleted"
    BY <1>5 DEF RemoveSurvey, SurveysTypeOK, Survey
  <2> QED BY <2>1 DEF ListsBacked, Stored
<1>6. ASSUME RemoveAnswers \/ RemovalFails
      PROVE  ListsBacked'
  <2>1. removals.pending # 0
    BY <1>6 DEF RemoveAnswers, RemovalFails, SurveysTypeOK, Removals
  <2>2. survey' = survey /\ revived' = revived
    BY <1>6 DEF RemoveAnswers, RemovalFails
  <2> QED BY <2>1, <2>2 DEF ListsBacked, Stored
<1>7. CASE \E e \in Editors : OpenEditor(e) \/ SaveFind(e) \/ \E m \in Modes : Save(e, m)
  BY <1>7, <1>2, <1>3, <1>4
<1> QED BY <1>1, <1>5, <1>6, <1>7

\* Until the survey is deleted, its lists name only answers there are and only
\* users who gave one.
THEOREM ListedAnswersDoExist == Spec => []ListedAnswersExist
<1>1. Init => ListsBacked
  BY DEF Init, ListsBacked, Stored
<1>2. ASSUME SurveysTypeOK, History, ListsBacked, [Next]_vars
      PROVE  ListsBacked'
  <2>1. CASE UNCHANGED vars
    BY <1>2, <2>1 DEF vars, ListsBacked, Stored, UnderWay, NameOf, Nameless
  <2>2. ASSUME NEW r \in Requests, LookUp(r) \/ Create(r) \/ Update(r) \/ Participate(r) \/ Refuse(r)
        PROVE  ListsBacked'
    BY <1>2, <2>2, RequestBacked
  <2>3. ASSUME NEW r \in Requests, NEW u \in Users \cup {Guest}, Submit(r, u)
        PROVE  ListsBacked'
    BY <1>2, <2>3, SubmitBacked
  <2> QED BY <1>2, <2>1, <2>2, <2>3, CreatorBacked DEF Next
<1>3. SurveysTypeOK /\ ListsBacked => ListedAnswersExist
  <2> SUFFICES ASSUME SurveysTypeOK, ListsBacked, Stored, ~revived
               PROVE  /\ survey.answers \subseteq Answered
                      /\ \A n \in survey.participated : \E d \in Answered : docs[d] = n
    BY DEF ListedAnswersExist
  <2>1. Backed(docs, survey)
    BY DEF ListsBacked
  <2>2. survey.answers \subseteq Answered
    BY <2>1, ListTypes DEF Backed, Answered
  <2>3. ASSUME NEW n \in survey.participated
        PROVE  \E d \in Answered : docs[d] = n
    <3>1. PICK d \in Requests : docs[d] = n
      BY <2>1 DEF Backed
    <3>2. docs[d] # None
      BY <3>1, ListTypes
    <3> QED BY <3>1, <3>2 DEF Answered
  <2> QED BY <2>2, <2>3
<1> QED BY <1>1, <1>2, <1>3, HistoryInductive, PTL DEF Spec

-----------------------------------------------------------------------------
(* Lost participations *)

\* The lists of x name submission r and its attendee.
Shows(x, r) == NameOf(r) \in x.participated /\ r \in x.answers

Accepted == {r \in Answered : req[r].pc = "done"}

\* What was accepted and met no other writer is listed, and is known to every
\* submission and editor that began after it.
AcceptedKnown ==
  \A r \in Accepted : ~Overwritten(r) =>
    /\ Stored => Shows(survey, r)
    /\ \A s \in UnderWay : r \in req[s].before => Shows(req[s], r)
    /\ \A e \in Editors : edit[e].pc \in {"open", "saving"} /\ r \in edit[e].before => Shows(edit[e], r)

\* What overwrote r stays.
LEMMA OverwrittenStays ==
  ASSUME NEW r \in Requests, Overwritten(r),
         \A s \in Requests : req[s].pc # "idle" => req'[s].pc # "idle" /\ req'[s].before = req[s].before,
         req'[r].before = req[r].before,
         \A e \in Editors : edit[e].pc = "saved" => edit'[e].pc = "saved" /\ edit'[e].before = edit[e].before
  PROVE  Overwritten(r)'
BY DEF Overwritten, Overlap

LEMMA RequestKnown ==
  ASSUME SurveysTypeOK, History, AcceptedKnown, NEW r \in Requests,
         LookUp(r) \/ Create(r) \/ Update(r) \/ Participate(r) \/ Refuse(r)
  PROVE  AcceptedKnown'
<1>1. r \in UnderWay /\ edit' = edit /\ survey'.status = survey.status
  BY RequestMoves
<1>2. PICK pc \in Pc :
        /\ Moves(r, pc) /\ pc # "idle"
        /\ docs' = docs \/ (pc = "created" /\ docs' = [docs EXCEPT ![r] = NameOf(r)])
  BY RequestMoves
<1>3. /\ UnderWay' \subseteq UnderWay
      /\ \A s \in Requests : NameOf(s)' = NameOf(s) /\ req'[s].before = req[s].before
  BY <1>1, <1>2, MovesEnd
<1>4. \A s \in UnderWay : req'[s].participated = req[s].participated /\ req'[s].answers = req[s].answers
  BY <1>2 DEF Moves, UnderWay
<1>5. \A s \in Requests : req[s].pc # "idle" => req'[s].pc # "idle" /\ req'[s].before = req[s].before
  BY <1>2, <1>3 DEF Moves
<1>6. ASSUME NEW a \in Accepted', ~Overwritten(a)'
      PROVE  /\ Stored => Shows(survey', a)
             /\ \A s \in UnderWay : a \in req[s].before => Shows(req[s], a)
             /\ \A e \in Editors : edit[e].pc \in {"open", "saving"} /\ a \in edit[e].before => Shows(edit[e], a)
  <2>1. a \in Requests /\ docs'[a] # None /\ req'[a].pc = "done"
    BY <1>6 DEF Accepted, Answered
  <2>2. ~Overwritten(a)
    BY <1>1, <1>3, <1>5, <1>6, <2>1, OverwrittenStays
  <2>3. CASE a # r
    <3>1. req[a] = req'[a] /\ docs'[a] = docs[a]
      BY <1>2, <2>1, <2>3 DEF Moves, SurveysTypeOK
    <3>2. a \in Accepted
      BY <2>1, <3>1 DEF Accepted, Answered
    <3>3. Stored => Shows(survey, a)
      BY <2>2, <3>2 DEF AcceptedKnown
    <3>4. ASSUME Participate(r), Stored, survey' = Participated(r)
          PROVE  Shows(survey', a)
      <4>1. r \notin req[a].before
        BY <1>1, <2>1 DEF History, Ended, UnderWay
      <4>2. a \in req[r].before
        BY <1>1, <2>1, <2>2, <2>3, <4>1 DEF Overwritten, Overlap, UnderWay
      <4>3. Shows(req[r], a)
        BY <1>1, <2>2, <3>2, <4>2 DEF AcceptedKnown
      <4> QED BY <3>4, <4>3 DEF Shows, Participated, SurveysTypeOK, Survey
    <3>5. survey' = survey \/ (Participate(r) /\ Stored /\ survey' = Participated(r))
      BY DEF LookUp, Create, Update, Participate, Refuse
    <3>6. Stored => Shows(survey', a)
      BY <3>3, <3>4, <3>5
    <3> QED BY <2>2, <3>2, <3>6 DEF AcceptedKnown
  <2>4. CASE a = r
    <3>1. r \notin Ended
      BY <1>1 DEF UnderWay, Ended
    <3>2. \A s \in UnderWay : r \notin req[s].before
      BY <3>1 DEF History, UnderWay
    <3>3. \A e \in Editors : r \notin edit[e].before
      BY <3>1 DEF History
    <3>4. ~Update(r)
      <4>1. docs' = docs /\ req[r].pc = "update" => r \notin Answered
        BY DEF History
      <4> QED BY <2>1, <2>4, <4>1 DEF Update, Answered
    <3>5. Participate(r) /\ Goto(r, "done")
      <4>1. LookUp(r) \/ Create(r) \/ Refuse(r) \/ Goto(r, "refused") => req'[r].pc # "done"
        BY LookUpMoves, GotoMoves DEF Create, Refuse, Moves, Pc
      <4> QED BY <2>1, <2>4, <3>4, <4>1 DEF Participate
    <3>6. Stored => survey' = Participated(r)
      <4>1. Goto(r, "refused") => req'[r].pc # "done"
        BY GotoMoves DEF Moves, Pc
      <4> QED BY <2>1, <2>4, <3>5, <4>1 DEF Participate
    <3>7. Stored => Shows(survey', r)
      BY <3>6, ZenonT(40) DEF Shows, Participated, SurveysTypeOK, Survey
    <3> QED BY <2>4, <3>2, <3>3, <3>7
  <2> QED BY <2>3, <2>4
<1>7. Stored' = Stored
  BY <1>1 DEF Stored
<1>8. \A a \in Accepted' : a \in Requests
  BY DEF Accepted, Answered
<1>9. ASSUME NEW a \in Accepted', ~Overwritten(a)'
      PROVE  /\ Stored' => Shows(survey, a)'
             /\ \A s \in UnderWay' : a \in req'[s].before => Shows(req[s], a)'
             /\ \A e \in Editors : edit'[e].pc \in {"open", "saving"} /\ a \in edit'[e].before
                                 => Shows(edit[e], a)'
  <2>1. a \in Requests /\ NameOf(a)' = NameOf(a)
    BY <1>3, <1>8, <1>9
  <2>2. Stored' => Shows(survey, a)'
    BY <1>6, <1>7, <1>9, <2>1 DEF Shows
  <2>3. ASSUME NEW s \in UnderWay', a \in req'[s].before
        PROVE  Shows(req[s], a)'
    <3>1. s \in UnderWay /\ s \in Requests
      BY <1>3 DEF UnderWay
    <3>2. a \in req[s].before
      BY <1>3, <2>3, <3>1
    <3>3. Shows(req[s], a)
      BY <1>6, <1>9, <3>1, <3>2
    <3> QED BY <1>4, <2>1, <3>1, <3>3 DEF Shows
  <2>4. \A e \in Editors : edit'[e].pc \in {"open", "saving"} /\ a \in edit'[e].before => Shows(edit[e], a)'
    BY <1>1, <1>6, <1>9, <2>1 DEF Shows
  <2> QED BY <2>2, <2>3, <2>4
<1> QED BY <1>9 DEF AcceptedKnown

LEMMA SubmitKnown ==
  ASSUME SurveysTypeOK, History, AcceptedKnown, NEW r \in Requests, NEW u \in Users \cup {Guest}, Submit(r, u)
  PROVE  AcceptedKnown'
<1>1. UNCHANGED <<survey, docs, edit>> /\ Stored /\ Stored'
  BY DEF Submit, Stored
<1>2. ASSUME NEW a \in Accepted', ~Overwritten(a)'
      PROVE  /\ a \in Accepted /\ a # r /\ ~Overwritten(a)
             /\ NameOf(a)' = NameOf(a)
  <2>1. a \in Requests /\ a # r
    BY <1>2, SubmitReads DEF Accepted, Answered
  <2>2. a \in Accepted /\ NameOf(a)' = NameOf(a)
    BY <1>1, <1>2, <2>1, SubmitReads DEF Accepted, Answered
  <2>3. \A s \in Requests : req[s].pc # "idle" => req'[s].pc # "idle" /\ req'[s].before = req[s].before
    BY SubmitReads
  <2>4. ~Overwritten(a)
    BY <1>1, <1>2, <2>1, <2>3, SubmitReads, OverwrittenStays
  <2> QED BY <2>1, <2>2, <2>4
<1>3. ASSUME NEW a \in Accepted', ~Overwritten(a)', NEW s \in UnderWay', a \in req'[s].before
      PROVE  Shows(req[s], a)'
  <2>1. CASE s # r
    <3>1. s \in UnderWay /\ req'[s] = req[s]
      BY <1>3, <2>1, SubmitReads DEF UnderWay
    <3>2. Shows(req[s], a)
      BY <1>2, <1>3, <3>1 DEF AcceptedKnown
    <3> QED BY <1>2, <1>3, <3>1, <3>2 DEF Shows
  <2>2. CASE s = r
    <3>1. Shows(survey, a)
      BY <1>1, <1>2, <1>3 DEF AcceptedKnown
    <3> QED BY <1>2, <1>3, <2>2, <3>1, SubmitReads DEF Shows
  <2> QED BY <2>1, <2>2
<1>4. ASSUME NEW a \in Accepted', ~Overwritten(a)'
      PROVE  /\ Shows(survey, a)'
             /\ \A e \in Editors : edit'[e].pc \in {"open", "saving"} /\ a \in edit'[e].before
                                 => Shows(edit[e], a)'
  BY <1>1, <1>2, <1>4 DEF AcceptedKnown, Shows
<1> QED BY <1>3, <1>4 DEF AcceptedKnown

LEMMA CreatorKnown ==
  ASSUME SurveysTypeOK, History, AcceptedKnown,
         \/ \E m \in Modes : CreateSurvey(m)
         \/ \E e \in Editors : OpenEditor(e) \/ SaveFind(e) \/ \E m \in Modes : Save(e, m)
         \/ RemoveSurvey \/ RemoveAnswers \/ RemovalFails
  PROVE  AcceptedKnown'
<1>1. req' = req /\ UnderWay' = UnderWay /\ Ended' = Ended /\ \A s \in Requests : NameOf(s)' = NameOf(s)
  <2>1. req' = req
    BY DEF CreateSurvey, OpenEditor, SaveFind, Save, RemoveSurvey, RemoveAnswers, RemovalFails
  <2> QED BY <2>1 DEF UnderWay, Ended, NameOf, Nameless
<1>2. Accepted' \subseteq Accepted
  <2>1. Answered' \subseteq Answered
    BY DEF CreateSurvey, OpenEditor, SaveFind, Save, RemoveSurvey, RemoveAnswers, RemovalFails,
           Answered, WithoutAnswers
  <2> QED BY <1>1, <2>1 DEF Accepted
<1>3. ASSUME NEW a \in Accepted
      PROVE  a \in Requests /\ a \in Ended /\ survey.status # "none"
  <2>1. a \in Requests /\ req[a].pc = "done"
    BY <1>3 DEF Accepted, Answered
  <2> QED BY <2>1 DEF Ended, History
<1>4. ASSUME UNCHANGED edit,
             Stored' => (survey' = survey \/ survey.status = "none")
      PROVE  AcceptedKnown'
  <2> SUFFICES ASSUME NEW a \in Accepted', ~Overwritten(a)'
               PROVE  /\ Stored' => Shows(survey, a)'
                      /\ \A s \in UnderWay' : a \in req'[s].before => Shows(req[s], a)'
                      /\ \A e \in Editors : edit'[e].pc \in {"open", "saving"} /\ a \in edit'[e].before
                                          => Shows(edit[e], a)'
    BY DEF AcceptedKnown
  <2>1. a \in Accepted /\ a \in Requests /\ survey.status # "none"
    BY <1>2, <1>3
  <2>2. ~Overwritten(a)
    BY <1>1, <1>4, <2>1, OverwrittenStays
  <2>3. NameOf(a)' = NameOf(a)
    BY <1>1, <2>1
  <2> QED BY <1>1, <1>4, <2>1, <2>2, <2>3 DEF AcceptedKnown, Shows, Stored
<1>5. ASSUME NEW e \in Editors, OpenEditor(e) \/ SaveFind(e) \/ \E m \in Modes : Save(e, m)
      PROVE  AcceptedKnown'
  <2>1. /\ \A f \in Editors \ {e} : edit'[f] = edit[f]
        /\ edit[e].pc # "saved"
    BY <1>5 DEF OpenEditor, SaveFind, Save, SurveysTypeOK
  <2> SUFFICES ASSUME NEW a \in Accepted', ~Overwritten(a)'
               PROVE  /\ Stored' => Shows(survey, a)'
                      /\ \A s \in UnderWay' : a \in req'[s].before => Shows(req[s], a)'
                      /\ \A f \in Editors : edit'[f].pc \in {"open", "saving"} /\ a \in edit'[f].before
                                          => Shows(edit[f], a)'
    BY DEF AcceptedKnown
  <2>2. a \in Accepted /\ a \in Requests /\ a \in Ended
    BY <1>2, <1>3
  <2>3. \A f \in Editors : edit[f].pc = "saved" => edit'[f].pc = "saved" /\ edit'[f].before = edit[f].before
    BY <2>1
  <2>4. ~Overwritten(a)
    BY <1>1, <2>2, <2>3, OverwrittenStays
  <2>5. NameOf(a)' = NameOf(a)
    BY <1>1, <2>2
  <2>6. \A s \in UnderWay' : a \in req'[s].before => Shows(req[s], a)'
    BY <1>1, <2>2, <2>4, <2>5 DEF AcceptedKnown, Shows
  <2>7. \A f \in Editors \ {e} : edit'[f].pc \in {"open", "saving"} /\ a \in edit'[f].before => Shows(edit[f], a)'
    BY <2>1, <2>2, <2>4, <2>5 DEF AcceptedKnown, Shows
  <2>8. CASE OpenEditor(e)
    <3>1. survey' = survey /\ Stored
      BY <2>8 DEF OpenEditor
    <3>2. edit'[e].participated = survey.participated /\ edit'[e].answers = survey.answers
      BY <2>8 DEF OpenEditor, SurveysTypeOK
    <3>3. Shows(survey, a)
      BY <2>2, <2>4, <3>1 DEF AcceptedKnown
    <3>4. Shows(edit[e], a)'
      BY <2>5, <3>2, <3>3 DEF Shows
    <3>5. Shows(survey, a)'
      BY <2>5, <3>1, <3>3 DEF Shows
    <3> QED BY <2>6, <2>7, <3>4, <3>5
  <2>9. CASE SaveFind(e)
    <3>1. survey' = survey /\ Stored /\ edit[e].pc = "open"
      BY <2>9 DEF SaveFind
    <3>2. /\ edit'[e].participated = edit[e].participated /\ edit'[e].answers = edit[e].answers
          /\ edit'[e].before = edit[e].before
      BY <2>9 DEF SaveFind, SurveysTypeOK, Editor
    <3>3. Shows(survey, a)'
      BY <2>2, <2>4, <2>5, <3>1 DEF AcceptedKnown, Shows
    <3>4. a \in edit'[e].before => Shows(edit[e], a)'
      BY <2>2, <2>4, <2>5, <3>1, <3>2 DEF AcceptedKnown, Shows
    <3> QED BY <2>6, <2>7, <3>3, <3>4
  <2>10. CASE \E m \in Modes : Save(e, m)
    <3>1. /\ edit[e].pc = "saving"
          /\ survey'.participated = edit[e].participated /\ survey'.answers = edit[e].answers
      BY <2>10 DEF Save
    <3>2. edit'[e].pc = "saved" /\ edit'[e].before = edit[e].before
      BY <2>10 DEF Save, SurveysTypeOK, Editor
    <3>3. a \in edit[e].before
      BY <3>2 DEF Overwritten
    <3>4. Shows(edit[e], a)
      BY <2>2, <2>4, <3>1, <3>3 DEF AcceptedKnown
    <3>5. Shows(survey, a)'
      BY <2>5, <3>1, <3>4 DEF Shows
    <3> QED BY <2>6, <2>7, <3>2, <3>5
  <2> QED BY <1>5, <2>8, <2>9, <2>10
<1>6. ASSUME NEW m \in Modes, CreateSurvey(m)
      PROVE  AcceptedKnown'
  BY <1>4, <1>6 DEF CreateSurvey
<1>7. ASSUME RemoveSurvey
      PROVE  AcceptedKnown'
  <2>1. ~Stored' /\ edit' = edit
    BY <1>7 DEF RemoveSurvey, Stored, SurveysTypeOK, Survey
  <2> QED BY <1>4, <2>1
<1>8. ASSUME RemoveAnswers \/ RemovalFails
      PROVE  AcceptedKnown'
  BY <1>4, <1>8 DEF RemoveAnswers, RemovalFails
<1>9. CASE \E e \in Editors : OpenEditor(e) \/ SaveFind(e) \/ \E m \in Modes : Save(e, m)
  BY <1>5, <1>9
<1> QED BY <1>6, <1>7, <1>8, <1>9

\* An accepted answer is missing from the lists of the survey only if another
\* submission or an older editor wrote them at the same time.
THEOREM LossNeedsOverlap == Spec => []LostOnlyByOverlap
<1>1. Init => AcceptedKnown
  BY DEF Init, AcceptedKnown, Accepted, Answered
<1>2. ASSUME SurveysTypeOK, History, AcceptedKnown, [Next]_vars
      PROVE  AcceptedKnown'
  <2>1. CASE UNCHANGED vars
    BY <1>2, <2>1 DEF vars, AcceptedKnown, Accepted, Answered, Overwritten, Overlap, Shows,
                      Stored, UnderWay, NameOf, Nameless
  <2>2. ASSUME NEW r \in Requests, LookUp(r) \/ Create(r) \/ Update(r) \/ Participate(r) \/ Refuse(r)
        PROVE  AcceptedKnown'
    BY <1>2, <2>2, RequestKnown
  <2>3. ASSUME NEW r \in Requests, NEW u \in Users \cup {Guest}, Submit(r, u)
        PROVE  AcceptedKnown'
    BY <1>2, <2>3, SubmitKnown
  <2> QED BY <1>2, <2>1, <2>2, <2>3, CreatorKnown DEF Next
<1>3. AcceptedKnown => LostOnlyByOverlap
  BY DEF AcceptedKnown, LostOnlyByOverlap, Accepted, Shows
<1> QED BY <1>1, <1>2, <1>3, HistoryInductive, PTL DEF Spec

-----------------------------------------------------------------------------
(* Orphans *)

\* Once a deletion is complete, whoever may still create an answer was under way.
DeletionComplete ==
  survey.status = "deleted" /\ removals.pending = 0 /\ ~aborted => Answered \cup UnderWay \subseteq strays

LEMMA DeletionCompleteKept ==
  ASSUME SurveysTypeOK, DeletionComplete, [Next]_vars
  PROVE  DeletionComplete'
<1>1. ASSUME NEW r \in Requests, LookUp(r) \/ Create(r) \/ Update(r) \/ Participate(r) \/ Refuse(r)
      PROVE  DeletionComplete'
  <2>1. r \in UnderWay /\ UNCHANGED <<removals, aborted, strays>> /\ survey'.status = survey.status
    BY <1>1, RequestMoves
  <2>2. UnderWay' \subseteq UnderWay /\ Answered' \subseteq Answered \cup {r}
    <3>1. PICK pc \in Pc :
            /\ Moves(r, pc)
            /\ docs' = docs \/ docs' = [docs EXCEPT ![r] = NameOf(r)]
      BY <1>1, RequestMoves
    <3> QED BY <2>1, <3>1, MovesEnd DEF Answered, SurveysTypeOK
  <2> QED BY <2>1, <2>2 DEF DeletionComplete
<1>2. ASSUME NEW r \in Requests, NEW u \in Users \cup {Guest}, Submit(r, u)
      PROVE  DeletionComplete'
  BY <1>2 DEF Submit, Stored, DeletionComplete
<1>3. ASSUME NEW e \in Editors, OpenEditor(e) \/ SaveFind(e) \/ \E m \in Modes : Save(e, m)
      PROVE  DeletionComplete'
  <2>1. survey'.status = "stored"
    BY <1>3 DEF OpenEditor, SaveFind, Save, Stored
  <2> QED BY <2>1 DEF DeletionComplete
<1>4. ASSUME NEW m \in Modes, CreateSurvey(m)
      PROVE  DeletionComplete'
  <2>1. survey'.status = "stored"
    BY <1>4 DEF CreateSurvey, SurveysTypeOK, Survey
  <2> QED BY <2>1 DEF DeletionComplete
<1>5. ASSUME RemoveSurvey
      PROVE  DeletionComplete'
  <2>1. removals.pending \in Nat /\ removals'.pending = removals.pending + 1
    BY <1>5 DEF RemoveSurvey, SurveysTypeOK, Removals
  <2>2. removals'.pending # 0
    BY <2>1
  <2> QED BY <2>2 DEF DeletionComplete
<1>6. ASSUME RemoveAnswers
      PROVE  DeletionComplete'
  <2>1. Answered' = {} /\ UnderWay' = UnderWay /\ strays' = strays \cup UnderWay
    BY <1>6 DEF RemoveAnswers, WithoutAnswers, Answered, UnderWay
  <2> QED BY <2>1 DEF DeletionComplete
<1>7. ASSUME RemovalFails
      PROVE  DeletionComplete'
  BY <1>7 DEF RemovalFails, DeletionComplete
<1>8. ASSUME UNCHANGED vars
      PROVE  DeletionComplete'
  BY <1>8 DEF vars, DeletionComplete, Answered, UnderWay
<1>9. CASE \E e \in Editors : OpenEditor(e) \/ SaveFind(e) \/ \E m \in Modes : Save(e, m)
  BY <1>3, <1>9
<1> QED BY <1>1, <1>2, <1>4, <1>5, <1>6, <1>7, <1>8, <1>9 DEF Next

\* A completed deletion leaves only answers of submissions that were under way.
THEOREM OrphansNeedOverlap == Spec => []OrphansOnlyByOverlap
<1>1. Init => DeletionComplete
  BY DEF Init, DeletionComplete
<1>2. DeletionComplete => OrphansOnlyByOverlap
  BY DEF DeletionComplete, OrphansOnlyByOverlap
<1> QED BY <1>1, <1>2, HistoryInductive, DeletionCompleteKept, PTL DEF Spec
=============================================================================
