------------------------------ MODULE OralExam ------------------------------
(***************************************************************************)
(* The AI oral exam (oral-exam.service.ts): a conversation with a language *)
(* model that ends in a verdict on the permission.  Every handler reads    *)
(* the session, waits for the model for seconds, and writes afterwards by  *)
(* the id it read.  The model's answer is free: it may fail, go on, or     *)
(* grade at any turn, also after the directive to stop that it gets with   *)
(* the last of QuestionCount answers.                                      *)
(***************************************************************************)
EXTENDS ExamPermission

CONSTANTS
  MaxSessions, \* bound on the sessions ever created
  QuestionCount, \* questionCount of the exam
  MaxTurns     \* bound on the answers of the student

ASSUME SessionAssumption ==
  /\ MaxSessions \in Nat
  /\ QuestionCount \in Nat
  /\ MaxTurns \in Nat
  /\ Threshold \in Scores

VARIABLES
  session,    \* the row of oral_exam_sessions, unique per permission
  created,    \* how many sessions were ever created; the ids
  sid,        \* the session id each request read
  turns,      \* the student turns in the transcript each request holds
  answered    \* history: turns of this session the student got a reply to

sessVars == <<session, created, sid, turns, answered>>

NoSession == [id |-> 0, status |-> "none", turns |-> 0, score |-> NoScore]
SessionRow == [id : 0..MaxSessions, status : {"none", "active", "completed"},
               turns : 0..MaxTurns, score : Scores \union {NoScore}]

OralInit ==
  /\ session = NoSession /\ created = 0
  /\ sid = [r \in Requests |-> 0]
  /\ turns = [r \in Requests |-> 0]
  /\ answered = 0

\* The handler returns; what it held is gone.
Return(r) ==
  /\ Goto(r, "idle")
  /\ sid' = [sid EXCEPT ![r] = 0]
  /\ turns' = [turns EXCEPT ![r] = 0]

------------------------------------------------------------------------------
(* start                                                                   *)

StartRead(r) ==
  /\ At(r, "idle") /\ perm.status = "active"
  /\ Goto(r, "startSession")
  /\ UNCHANGED <<permRest, sessVars>>

\* An active session is resumed: nothing is written.
StartResume(r) ==
  /\ At(r, "startSession") /\ session.status = "active"
  /\ Return(r)
  /\ UNCHANGED <<permRest, session, created, answered>>

StartFindsNone(r) ==
  /\ At(r, "startSession") /\ session.status = "none"
  /\ Goto(r, "startAsk")
  /\ UNCHANGED <<permRest, sessVars>>

StartFindsStale(r) ==
  /\ At(r, "startSession") /\ session.status = "completed"
  /\ sid' = [sid EXCEPT ![r] = session.id]
  /\ Goto(r, "startDelete")
  /\ UNCHANGED <<permRest, session, created, turns, answered>>

\* Faulty variant: the stale session is deleted by its permission.
StartDeleteByPermission(r) ==
  /\ At(r, "startDelete") /\ session.id # 0
  /\ session' = NoSession /\ answered' = 0
  /\ sid' = [sid EXCEPT ![r] = 0]
  /\ Goto(r, "startAsk")
  /\ UNCHANGED <<permRest, created, turns>>

\* The stale session is deleted by its id.
StartDelete(r) ==
  /\ At(r, "startDelete") /\ session.id = sid[r]
  /\ session' = NoSession /\ answered' = 0
  /\ sid' = [sid EXCEPT ![r] = 0]
  /\ Goto(r, "startAsk")
  /\ UNCHANGED <<permRest, created, turns>>

\* The model has greeted: the session is created ...
StartCreate(r) ==
  /\ At(r, "startAsk") /\ session.id = 0
  /\ created < MaxSessions
  /\ created' = created + 1
  /\ session' = [id |-> created + 1, status |-> "active", turns |-> 0,
                 score |-> NoScore]
  /\ answered' = 0
  /\ Return(r)
  /\ UNCHANGED permRest

\* ... unless a parallel start was faster (P2002): resume the winner's.
StartLoses(r) ==
  /\ At(r, "startAsk") /\ session.id # 0
  /\ Return(r)
  /\ UNCHANGED <<permRest, session, created, answered>>

------------------------------------------------------------------------------
(* respond and finalize                                                    *)

\* respond looks at the session only, never at the permission.
RespondRead(r) ==
  /\ At(r, "idle") /\ session.status = "active"
  /\ session.turns < MaxTurns
  /\ sid' = [sid EXCEPT ![r] = session.id]
  /\ turns' = [turns EXCEPT ![r] = session.turns + 1]
  /\ Goto(r, "respondAsk")
  /\ UNCHANGED <<permRest, session, created, answered>>

\* Faulty variant: the reply is returned before the transcript is stored.
RespondTurnUnsaved(r) ==
  /\ At(r, "respondAsk") /\ session.id = sid[r]
  /\ answered' = answered + 1
  /\ Return(r)
  /\ UNCHANGED <<permRest, session, created>>

\* The model goes on: the whole transcript is written back.
RespondTurn(r) ==
  /\ At(r, "respondAsk") /\ session.id = sid[r]
  /\ session' = [session EXCEPT !.turns = turns[r]]
  /\ answered' = answered + 1
  /\ Return(r)
  /\ UNCHANGED <<permRest, created>>

\* Faulty variant: a finished session is graded again.
FinalizeReadAny(r) ==
  /\ At(r, "idle") /\ session.status # "none"
  /\ sid' = [sid EXCEPT ![r] = session.id]
  /\ turns' = [turns EXCEPT ![r] = session.turns]
  /\ Goto(r, "finalizeAsk")
  /\ UNCHANGED <<permRest, session, created, answered>>

\* finalize of an active session; a finished one is answered from the row.
FinalizeRead(r) ==
  /\ At(r, "idle") /\ session.status = "active"
  /\ sid' = [sid EXCEPT ![r] = session.id]
  /\ turns' = [turns EXCEPT ![r] = session.turns]
  /\ Goto(r, "finalizeAsk")
  /\ UNCHANGED <<permRest, session, created, answered>>

\* Faulty variant: only the permission is guarded against a second verdict.
FinalizeSessionTwice(r, score) ==
  /\ session.id = sid[r]
  /\ session' = [session EXCEPT !.status = "completed", !.turns = turns[r],
                                !.score = score]
  /\ perm' = IF perm.status = "active" THEN Decided(Passed(score), score)
             ELSE perm

\* Faulty variant: the session is left open.
FinalizePermissionAlone(r, score) ==
  /\ session.id = sid[r]
  /\ perm' = Decided(Passed(score), score)
  /\ UNCHANGED session

\* finalizeSession: session and permission in one transaction, by id, with
\* no look at the status of either.
FinalizeSession(r, score) ==
  /\ session.id = sid[r]
  /\ session' = [session EXCEPT !.status = "completed", !.turns = turns[r],
                                !.score = score]
  /\ perm' = Decided(Passed(score), score)

\* The model graded the student's turn.
RespondFinal(r) ==
  /\ At(r, "respondAsk")
  /\ \E score \in Scores : FinalizeSession(r, score)
  /\ answered' = answered + 1
  /\ Return(r)
  /\ UNCHANGED <<kind, grants, cancels, cancelled, created>>

\* The model graded on request, or gave no score twice: the threshold then.
FinalizeVerdict(r) ==
  /\ At(r, "finalizeAsk")
  /\ \E score \in Scores : FinalizeSession(r, score)
  /\ Return(r)
  /\ UNCHANGED <<kind, grants, cancels, cancelled, created, answered>>

\* The model is out of quota or down, or the row to write is gone.
Fail(r) ==
  /\ \/ At(r, "startAsk")
     \/ At(r, "respondAsk")
     \/ At(r, "finalizeAsk")
     \/ At(r, "startDelete") /\ session.id # sid[r]
  /\ Return(r)
  /\ UNCHANGED <<permRest, session, created, answered>>

------------------------------------------------------------------------------
Start(r) ==
  \/ StartRead(r) \/ StartResume(r) \/ StartFindsNone(r) \/ StartFindsStale(r)
  \/ StartDelete(r) \/ StartCreate(r) \/ StartLoses(r)

Converse(r) ==
  \/ RespondRead(r) \/ RespondTurn(r) \/ RespondFinal(r)
  \/ FinalizeRead(r) \/ FinalizeVerdict(r) \/ Fail(r)

Oral(r) == kind = "oral" /\ (Start(r) \/ Converse(r))
=============================================================================
