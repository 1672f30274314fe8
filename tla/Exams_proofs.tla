----------------------------- MODULE Exams_proofs -----------------------------
(* What holds of an exam for any number of overlapping requests, grants,     *)
(* cancellations, sessions, answers and restarts, and for any pass mark: the *)
(* rows never tell two results, an attempt runs to its verdict, a pass       *)
(* completes the lesson, and what the student said is kept.                  *)
EXTENDS Exams, TLAPS

PermType ==
  /\ kind \in Kinds /\ perm \in Permission
  /\ pc \in [Requests -> Steps]
  /\ grants \in 0..MaxGrants /\ cancels \in 0..MaxCancels

SessType ==
  /\ session \in SessionRow /\ created \in 0..MaxSessions
  /\ sid \in [Requests -> 0..MaxSessions]
  /\ turns \in [Requests -> 0..MaxTurns]
  /\ answered \in Nat

WrittenType == verdict \in [Requests -> Permission] /\ crashes \in 0..MaxCrashes

Types == PermType /\ SessType /\ WrittenType

Flags ==
  /\ cancelled \in BOOLEAN /\ academy \in BOOLEAN
  /\ earned \in BOOLEAN /\ overlapped \in BOOLEAN

LEMMA TypeParts == TypeOK <=> Types /\ Flags
BY DEF TypeOK, Types, PermType, SessType, WrittenType, Flags

LEMMA Numbers ==
  /\ Scores \subseteq Nat /\ Threshold \in Nat /\ Totals \subseteq Nat
  /\ MaxGrants \in Nat /\ MaxCancels \in Nat /\ MaxSessions \in Nat
  /\ MaxTurns \in Nat /\ MaxCrashes \in Nat
BY PermissionAssumption, SessionAssumption, WrittenAssumption, CrashAssumption

------------------------------------------------------------------------------
(* Grading                                                                 *)

LEMMA AtLeast ==
  ASSUME NEW a \in Nat, NEW b \in Nat, b > 0, NEW q \in Nat, a >= q * b
  PROVE  a \div b >= q
<1> DEFINE d == a \div b
<1>1. d \in Int /\ a < b * (d + 1)
  BY SMT
<1>2. q * b < (d + 1) * b
  BY <1>1, SMT
<1>3. q < d + 1
  BY <1>1, <1>2, SMT
<1> QED
  BY <1>1, <1>3

\* A written exam that is passed by the exact ratio also carries a passing
\* score: rounding to the nearest never falls below an integral pass mark.
LEMMA GradedTells ==
  ASSUME NEW total \in Totals \ {0}, NEW correct \in 0..total
  PROVE  /\ Graded(correct, total) \in Permission
         /\ Graded(correct, total).status \in {"done", "failed"}
         /\ Graded(correct, total).status = "done" => Passed(Graded(correct, total).score)
<1> DEFINE score == Percent(correct, total)
<1>1. total \in Nat /\ total > 0 /\ correct \in Nat
  BY Numbers
<1>2. score \in Scores
  BY GradesAreScores
<1>3. 100 * correct >= Threshold * total => score >= Threshold
  <2>1. SUFFICES ASSUME 100 * correct >= Threshold * total PROVE score >= Threshold
    OBVIOUS
  <2>2. 200 * correct + total >= Threshold * (2 * total)
    <3>1. Threshold * (2 * total) = 2 * (Threshold * total)
      BY <1>1, Numbers
    <3>2. Threshold * total \in Int
      BY <1>1, Numbers
    <3> QED
      BY <1>1, <2>1, <3>1, <3>2
  <2> QED
    BY <1>1, <2>2, AtLeast, Numbers DEF Percent
<1>4. score # NoScore
  BY <1>2, Numbers DEF NoScore
<1> QED
  BY <1>2, <1>3, <1>4 DEF Graded, Decided, Permission, Passed

------------------------------------------------------------------------------
(* Types                                                                   *)

LEMMA GoType ==
  ASSUME NEW r \in Requests, NEW x \in Steps, pc \in [Requests -> Steps], Goto(r, x)
  PROVE  pc' \in [Requests -> Steps]
BY DEF Goto

LEMMA PermTypes ==
  ASSUME Types
  PROVE  /\ DoGrant => kind' \in Kinds /\ perm' \in Permission
                       /\ grants' \in 0..MaxGrants /\ cancels' \in 0..MaxCancels
         /\ \A r \in Requests : PermStep(r) => PermType'
<1> USE Numbers DEF Types, PermType
<1>1. DoGrant => kind' \in Kinds /\ perm' \in Permission
                 /\ grants' \in 0..MaxGrants /\ cancels' \in 0..MaxCancels
  BY DEF DoGrant, Granted, Permission
<1>2. ASSUME NEW r \in Requests, PermStep(r) PROVE PermType'
  <2>1. CASE GrantNextRead(r)
    BY <2>1 DEF GrantNextRead, Goto, Steps, permRest
  <2>2. CASE GrantNextWrite(r)
    BY <2>2, <1>1 DEF GrantNextWrite, Goto, Steps
  <2>3. CASE CancelRead(r)
    BY <2>3 DEF CancelRead, Goto, Steps
  <2>4. CASE CancelWrite(r)
    BY <2>4 DEF CancelWrite, Goto, Steps, Permission
  <2> QED
    BY <1>2, <2>1, <2>2, <2>3, <2>4 DEF PermStep
<1> QED
  BY <1>1, <1>2

LEMMA ReturnTypes ==
  ASSUME Types, NEW r \in Requests, Return(r)
  PROVE  /\ pc' \in [Requests -> Steps]
         /\ sid' \in [Requests -> 0..MaxSessions] /\ turns' \in [Requests -> 0..MaxTurns]
BY Numbers DEF Types, PermType, SessType, Return, Goto, Steps

LEMMA VerdictTypes ==
  ASSUME Types, NEW r \in Requests, NEW score \in Scores, FinalizeSession(r, score)
  PROVE  session' \in SessionRow /\ perm' \in Permission
BY DEF Types, SessType, FinalizeSession, SessionRow, Decided, Permission, Passed

LEMMA OralTypes ==
  ASSUME Types, NEW r \in Requests, Oral(r)
  PROVE  PermType' /\ SessType'
<1> USE Numbers DEF Types, PermType, SessType
<1>1. CASE StartRead(r)
  BY <1>1 DEF StartRead, Goto, Steps, permRest, sessVars
<1>2. CASE StartResume(r)
  BY <1>2, ReturnTypes DEF StartResume, permRest
<1>3. CASE StartFindsNone(r)
  BY <1>3 DEF StartFindsNone, Goto, Steps, permRest, sessVars
<1>4. CASE StartFindsStale(r)
  BY <1>4 DEF StartFindsStale, Goto, Steps, permRest, SessionRow
<1>5. CASE StartDelete(r)
  BY <1>5 DEF StartDelete, Goto, Steps, permRest, NoSession, NoScore, SessionRow
<1>6. CASE StartCreate(r)
  BY <1>6, ReturnTypes DEF StartCreate, permRest, SessionRow
<1>7. CASE StartLoses(r)
  BY <1>7, ReturnTypes DEF StartLoses, permRest
<1>8. CASE RespondRead(r) \/ FinalizeRead(r)
  BY <1>8 DEF RespondRead, FinalizeRead, Goto, Steps, permRest, SessionRow
<1>9. CASE RespondTurn(r)
  BY <1>9, ReturnTypes DEF RespondTurn, permRest, SessionRow
<1>10. CASE RespondFinal(r) \/ FinalizeVerdict(r)
  BY <1>10, ReturnTypes, VerdictTypes DEF RespondFinal, FinalizeVerdict
<1>11. CASE Fail(r)
  BY <1>11, ReturnTypes DEF Fail, permRest
<1> QED
  BY <1>1, <1>2, <1>3, <1>4, <1>5, <1>6, <1>7, <1>8, <1>9, <1>10, <1>11
     DEF Oral, Start, Converse

LEMMA SubmitTypes ==
  ASSUME Types, NEW r \in Requests, Submit(r)
  PROVE  PermType' /\ verdict' \in [Requests -> Permission]
<1> USE Numbers DEF Types, PermType, WrittenType
<1>1. NoVerdict \in Permission
  BY DEF NoVerdict, Permission
<1>2. CASE SubmitRead(r)
  BY <1>2, GradedTells DEF SubmitRead, Goto, Steps, permRest
<1>3. CASE SubmitUpdate(r)
  <2>1. pc' \in [Requests -> Steps]
    BY <1>3, Zenon DEF SubmitUpdate, Goto, Steps
  <2>2. verdict' \in [Requests -> Permission]
    BY <1>1, <1>3 DEF SubmitUpdate
  <2> QED
    BY <1>3, <2>1, <2>2 DEF SubmitUpdate
<1>4. CASE SubmitProgress(r)
  BY <1>1, <1>4 DEF SubmitProgress, Goto, Steps, permRest
<1> QED
  BY <1>2, <1>3, <1>4 DEF Submit

LEMMA TypesKept == Types /\ [Next]_vars => Types'
<1> SUFFICES ASSUME Types, [Next]_vars PROVE Types'
  OBVIOUS
<1>1. CASE Grant /\ UNCHANGED <<sessVars, writtenVars, crashes, overlapped>>
  BY <1>1, PermTypes DEF Grant, sessVars, writtenVars, Types, PermType, SessType, WrittenType
<1>2. ASSUME NEW r \in Requests, Request(r), UNCHANGED crashes PROVE Types'
  <2>1. CASE PermStep(r) /\ UNCHANGED <<sessVars, writtenVars>>
    BY <1>2, <2>1, PermTypes DEF sessVars, writtenVars, Types, SessType, WrittenType
  <2>2. CASE Oral(r) /\ UNCHANGED writtenVars
    BY <1>2, <2>2, OralTypes DEF writtenVars, Types, WrittenType
  <2>3. CASE Submit(r) /\ UNCHANGED sessVars
    BY <1>2, <2>3, SubmitTypes DEF sessVars, Types, SessType, WrittenType
  <2> QED
    BY <1>2, <2>1, <2>2, <2>3 DEF Request
<1>3. CASE Crash
  BY <1>3, Numbers DEF Crash, permRest, NoVerdict, Permission, Steps, Types, PermType, SessType,
     WrittenType
<1>4. CASE UNCHANGED vars
  BY <1>4 DEF vars, permVars, sessVars, writtenVars, Types, PermType, SessType, WrittenType
<1> QED
  BY <1>1, <1>2, <1>3, <1>4 DEF Next

LEMMA FlagsKept ==
  ASSUME Flags, [Next]_vars
  PROVE  Flags'
<1>1. cancelled' = cancelled \/ cancelled' = TRUE \/ cancelled' = FALSE
  <2>1. DoGrant => cancelled' = FALSE
    BY DEF DoGrant
  <2>2. ASSUME NEW r \in Requests, PermStep(r)
        PROVE  cancelled' = cancelled \/ cancelled' = TRUE \/ cancelled' = FALSE
    BY <2>1, <2>2, Zenon DEF PermStep, GrantNextRead, GrantNextWrite, CancelRead, CancelWrite,
       permRest
  <2>3. ASSUME NEW r \in Requests, Oral(r) PROVE cancelled' = cancelled
    BY <2>3, Zenon DEF Oral, Start, Converse, StartRead, StartResume, StartFindsNone,
       StartFindsStale, StartDelete, StartCreate, StartLoses, RespondRead, RespondTurn,
       RespondFinal, FinalizeRead, FinalizeVerdict, Fail, permRest
  <2>4. ASSUME NEW r \in Requests, Submit(r) PROVE cancelled' = cancelled
    BY <2>4, Zenon DEF Submit, SubmitRead, SubmitUpdate, SubmitProgress, permRest
  <2>5. Crash \/ UNCHANGED vars => cancelled' = cancelled
    BY DEF Crash, vars, permVars, permRest
  <2>6. Grant => cancelled' = FALSE
    BY <2>1 DEF Grant
  <2> QED
    BY <2>2, <2>3, <2>4, <2>5, <2>6, Zenon DEF Next, Request
<1>2. academy' = academy \/ academy' = TRUE
  <2>1. ASSUME NEW r \in Requests, Submit(r) PROVE academy' = academy \/ academy' = TRUE
    BY <2>1, Zenon DEF Submit, SubmitRead, SubmitUpdate, SubmitProgress
  <2>2. UNCHANGED writtenVars \/ Crash \/ UNCHANGED vars => academy' = academy
    BY DEF writtenVars, Crash, vars
  <2> QED
    BY <2>1, <2>2, Zenon DEF Next, Request
<1>3. earned' \in BOOLEAN
  <2>1. ASSUME NEW r \in Requests, Submit(r) PROVE earned' \in BOOLEAN
    BY <2>1, Zenon DEF Submit, SubmitRead, SubmitUpdate, SubmitProgress, Flags
  <2>2. UNCHANGED writtenVars \/ Crash \/ UNCHANGED vars => earned' = earned
    BY DEF writtenVars, Crash, vars
  <2> QED
    BY <2>1, <2>2, Zenon DEF Next, Request, Flags
<1>4. overlapped' \in BOOLEAN
  BY Zenon DEF Flags, Next, vars
<1> QED
  BY <1>1, <1>2, <1>3, <1>4, Zenon DEF Flags

------------------------------------------------------------------------------
(* What holds whatever overlaps                                            *)

\* A verdict that is on its way was graded, and is for a written exam.
Underway ==
  /\ \A r \in Requests : pc[r] = "update" =>
        /\ verdict[r].status \in {"done", "failed"}
        /\ verdict[r].status = "done" => Passed(verdict[r].score)
  /\ kind # "oral" => session = NoSession

\* The rows of sessions have ids of their own; a request that goes on to
\* delete one has found it completed.
Rows ==
  /\ session.id = 0 <=> session.status = "none"
  /\ session.id <= created
  /\ \A r \in Requests : sid[r] <= created
  /\ \A r \in Requests : pc[r] \in {"startDelete", "respondAsk", "finalizeAsk"} => sid[r] # 0
  /\ \A r \in Requests :
        pc[r] = "startDelete" /\ session.id = sid[r] => session.status # "active"

\* A passed lesson is completed or about to be.
Lesson ==
  /\ \A r \in Requests : pc[r] = "progress" => kind = "lesson" /\ earned
  /\ kind = "lesson" /\ perm.status = "done" /\ crashes = 0
        => academy \/ \E r \in Requests : pc[r] = "progress"
  /\ academy => earned /\ kind = "lesson"

Told == Underway /\ StatusTellsResult /\ VerdictsAgree

LEMMA PermTold ==
  ASSUME Types, Told
  PROVE  /\ DoGrant => StatusTellsResult'
         /\ DoGrant /\ UNCHANGED session => VerdictsAgree'
         /\ \A r \in Requests : PermStep(r) /\ UNCHANGED <<sessVars, writtenVars>> => Told'
<1> USE DEF Told, Underway, StatusTellsResult, VerdictsAgree, Types, PermType
<1>1. DoGrant => StatusTellsResult'
  BY DEF DoGrant, Granted
<1>2. DoGrant /\ UNCHANGED session => VerdictsAgree'
  BY DEF DoGrant, Granted
<1>3. ASSUME NEW r \in Requests, PermStep(r), UNCHANGED <<sessVars, writtenVars>> PROVE Told'
  <2>1. CASE GrantNextRead(r)
    BY <1>3, <2>1 DEF GrantNextRead, Goto, permRest, sessVars, writtenVars, Passed
  <2>2. CASE GrantNextWrite(r)
    BY <1>1, <1>2, <1>3, <2>2 DEF GrantNextWrite, DoGrant, Goto, sessVars, writtenVars, Passed
  <2>3. CASE CancelRead(r)
    BY <1>3, <2>3 DEF CancelRead, Goto, sessVars, writtenVars, Passed
  <2>4. CASE CancelWrite(r)
    BY <1>3, <2>4 DEF CancelWrite, Goto, sessVars, writtenVars, Passed, Permission
  <2> QED
    BY <1>3, <2>1, <2>2, <2>3, <2>4 DEF PermStep
<1> QED
  BY <1>1, <1>2, <1>3

LEMMA OralTold ==
  ASSUME Types, Told, NEW r \in Requests, Oral(r), UNCHANGED writtenVars
  PROVE  Told'
<1> USE DEF Told, Underway, StatusTellsResult, VerdictsAgree, Types, PermType, Passed, writtenVars
<1>1. kind = "oral"
  BY DEF Oral
<1>2. ASSUME NEW x \in Steps, x # "update", Goto(r, x), UNCHANGED <<kind>>
      PROVE  Underway'
  BY <1>1, <1>2 DEF Goto
<1>3. CASE StartRead(r) \/ StartResume(r) \/ StartFindsNone(r) \/ StartFindsStale(r)
           \/ StartLoses(r) \/ RespondRead(r) \/ FinalizeRead(r) \/ Fail(r)
  <2>1. UNCHANGED <<kind, perm, session>>
    BY <1>3 DEF StartRead, StartResume, StartFindsNone, StartFindsStale, StartLoses,
       RespondRead, FinalizeRead, Fail, permRest, sessVars
  <2>2. Underway'
    BY <1>2, <1>3, <2>1 DEF StartRead, StartResume, StartFindsNone, StartFindsStale, StartLoses,
       RespondRead, FinalizeRead, Fail, Return, Steps
  <2> QED
    BY <2>1, <2>2
<1>4. CASE StartDelete(r) \/ StartCreate(r) \/ RespondTurn(r)
  <2>1. UNCHANGED <<kind, perm>>
    BY <1>4 DEF StartDelete, StartCreate, RespondTurn, permRest
  <2>2. Underway'
    BY <1>2, <1>4, <2>1 DEF StartDelete, StartCreate, RespondTurn, Return, Steps
  <2>3. session'.status = "completed" => session'.score = session.score
                                         /\ session.status = "completed"
    BY <1>4 DEF StartDelete, StartCreate, RespondTurn, NoSession, SessType, SessionRow
  <2> QED
    BY <2>1, <2>2, <2>3
<1>5. CASE RespondFinal(r) \/ FinalizeVerdict(r)
  <2>1. PICK score \in Scores : FinalizeSession(r, score)
    BY <1>5 DEF RespondFinal, FinalizeVerdict
  <2>2. Underway'
    BY <1>2, <1>5 DEF RespondFinal, FinalizeVerdict, Return, Steps
  <2>3. score # NoScore
    BY <2>1, Numbers DEF NoScore
  <2>4. session'.score = score /\ perm' = Decided(Passed(score), score)
    BY <2>1 DEF FinalizeSession, SessType, SessionRow
  <2>5. StatusTellsResult'
    BY <2>4 DEF Decided
  <2>6. VerdictsAgree'
    BY <2>4 DEF Decided
  <2> QED
    BY <2>2, <2>5, <2>6
<1> QED
  BY <1>3, <1>4, <1>5 DEF Oral, Start, Converse

LEMMA SubmitTold ==
  ASSUME Types, Told, NEW r \in Requests, Submit(r), UNCHANGED sessVars
  PROVE  Told'
<1> USE DEF Told, Underway, StatusTellsResult, VerdictsAgree, Types, PermType, WrittenType,
    Passed, sessVars
<1>1. session = NoSession
  BY DEF Submit
<1>2. CASE SubmitRead(r)
  <2>1. PICK total \in Totals \ {0} : \E correct \in 0..total :
          verdict' = [verdict EXCEPT ![r] = Graded(correct, total)]
    BY <1>2 DEF SubmitRead
  <2>2. PICK correct \in 0..total : verdict' = [verdict EXCEPT ![r] = Graded(correct, total)]
    BY <2>1
  <2> QED
    BY <1>2, <2>2, GradedTells DEF SubmitRead, Goto, permRest
<1>3. CASE SubmitUpdate(r)
  <2>1. perm' = verdict[r] /\ verdict[r] \in Permission /\ UNCHANGED <<kind, session>>
    BY <1>3 DEF SubmitUpdate
  <2>2. pc[r] = "update"
    BY <1>3 DEF SubmitUpdate, At
  <2>3. StatusTellsResult'
    BY <2>1, <2>2
  <2>4. VerdictsAgree'
    BY <1>1, <2>1 DEF NoSession
  <2>5. \A q \in Requests : pc'[q] = "update" => pc[q] = "update" /\ verdict'[q] = verdict[q]
    BY <1>3 DEF SubmitUpdate, Goto
  <2> QED
    BY <1>1, <2>1, <2>3, <2>4, <2>5
<1>4. CASE SubmitProgress(r)
  BY <1>4 DEF SubmitProgress, Goto, permRest
<1> QED
  BY <1>2, <1>3, <1>4 DEF Submit

LEMMA ToldKept == Types /\ Told /\ [Next]_vars => Told'
<1> SUFFICES ASSUME Types, Told, [Next]_vars PROVE Told'
  OBVIOUS
<1>1. CASE Grant /\ UNCHANGED <<sessVars, writtenVars, crashes, overlapped>>
  <2>1. Underway'
    BY <1>1 DEF Told, Underway, Grant, DoGrant, sessVars, writtenVars, Passed
  <2> QED
    BY <1>1, <2>1, PermTold DEF Told, Grant, sessVars
<1>2. ASSUME NEW r \in Requests, Request(r) PROVE Told'
  BY <1>2, PermTold, OralTold, SubmitTold DEF Request
<1>3. CASE Crash
  BY <1>3 DEF Crash, permRest, Told, Underway, StatusTellsResult, VerdictsAgree, Passed
<1>4. CASE UNCHANGED vars
  BY <1>4 DEF vars, permVars, sessVars, writtenVars, Told, Underway, StatusTellsResult,
     VerdictsAgree, Passed
<1> QED
  BY <1>1, <1>2, <1>3, <1>4 DEF Next

\* Steps of a request that leave the session as it is, and hold no other than
\* it read, keep what is known of the rows.
LEMMA RowsSame ==
  ASSUME Types, Rows, NEW r \in Requests, NEW x \in Steps, Goto(r, x),
         session'.id = session.id, session'.status # "active" \/ session.status = "active",
         session'.status = "none" <=> session.status = "none", created' = created,
         \/ sid' = sid
         \/ sid' = [sid EXCEPT ![r] = 0]
         \/ sid' = [sid EXCEPT ![r] = session.id],
         x = "startDelete" => session.status # "active",
         x \in {"startDelete", "respondAsk", "finalizeAsk"} => sid'[r] # 0
  PROVE  Rows'
BY Numbers DEF Types, PermType, SessType, SessionRow, Rows, Goto

LEMMA RowsKept == Types /\ Rows /\ [Next]_vars => Rows'
<1> SUFFICES ASSUME Types, Rows, [Next]_vars PROVE Rows'
  OBVIOUS
<1> USE DEF Types, PermType, SessType
<1>1. CASE Grant /\ UNCHANGED <<sessVars, writtenVars, crashes, overlapped>>
  BY <1>1 DEF Grant, sessVars, Rows
<1>2. ASSUME NEW r \in Requests, PermStep(r) \/ Submit(r), UNCHANGED sessVars PROVE Rows'
  <2>1. PICK x \in Steps :
          Goto(r, x) /\ x \notin {"startDelete", "respondAsk", "finalizeAsk"}
    BY <1>2, Zenon DEF PermStep, GrantNextRead, GrantNextWrite, CancelRead, CancelWrite, Submit,
       SubmitRead, SubmitUpdate, SubmitProgress, Steps
  <2> QED
    BY <1>2, <2>1, RowsSame DEF sessVars
<1>3. ASSUME NEW r \in Requests, Oral(r) PROVE Rows'
  <2>1. CASE StartRead(r) \/ StartFindsNone(r)
    BY <2>1, RowsSame DEF StartRead, StartFindsNone, sessVars, Steps
  <2>2. CASE StartResume(r) \/ StartLoses(r) \/ Fail(r)
    BY <2>2, RowsSame DEF StartResume, StartLoses, Fail, Return, Steps
  <2>3. CASE StartFindsStale(r)
    BY <2>3, RowsSame DEF StartFindsStale, Steps, Rows
  <2>4. CASE RespondRead(r) \/ FinalizeRead(r)
    BY <2>4, RowsSame DEF RespondRead, FinalizeRead, Steps, Rows
  <2>5. CASE StartDelete(r)
    BY <2>5, Numbers DEF StartDelete, NoSession, Goto, Rows
  <2>6. CASE StartCreate(r)
    BY <2>6, Numbers DEF StartCreate, Return, Goto, Rows
  <2>7. CASE RespondTurn(r)
    <3>1. session' = [session EXCEPT !.turns = turns[r]]
      BY <2>7 DEF RespondTurn
    <3>2. session'.id = session.id /\ session'.status = session.status
      BY <3>1 DEF SessionRow
    <3> QED
      BY <2>7, <3>2, RowsSame DEF RespondTurn, Return, Steps
  <2>8. CASE RespondFinal(r) \/ FinalizeVerdict(r)
    <3>1. PICK score \in Scores : FinalizeSession(r, score)
      BY <2>8 DEF RespondFinal, FinalizeVerdict
    <3>2. session.id = sid[r] /\ session'.id = session.id /\ session'.status = "completed"
      BY <3>1 DEF FinalizeSession, SessionRow
    <3>3. session.status # "none"
      BY <2>8, <3>2 DEF RespondFinal, FinalizeVerdict, At, Rows
    <3> QED
      BY <2>8, <3>2, <3>3, RowsSame DEF RespondFinal, FinalizeVerdict, Return, Steps
  <2> QED
    BY <1>3, <2>1, <2>2, <2>3, <2>4, <2>5, <2>6, <2>7, <2>8 DEF Oral, Start, Converse
<1>4. CASE Crash
  BY <1>4, Numbers DEF Crash, Rows
<1>5. CASE UNCHANGED vars
  BY <1>5 DEF vars, permVars, sessVars, Rows
<1> QED
  BY <1>1, <1>2, <1>3, <1>4, <1>5 DEF Next, Request

\* A step that touches neither the lesson's progress nor a status that counts.
LEMMA LessonSame ==
  ASSUME Types, Lesson, NEW r \in Requests, NEW x \in Steps, Goto(r, x),
         pc[r] # "progress", x # "progress",
         UNCHANGED <<kind, academy, earned, crashes>>,
         kind = "oral" \/ perm'.status # "done" \/ perm.status = "done"
  PROVE  Lesson'
<1>1. \A q \in Requests : pc'[q] = "progress" <=> pc[q] = "progress"
  BY DEF Goto, Types, PermType
<1> QED
  BY <1>1 DEF Lesson

LEMMA LessonKept == Types /\ Lesson /\ [Next]_vars => Lesson'
<1> SUFFICES ASSUME Types, Lesson, [Next]_vars PROVE Lesson'
  OBVIOUS
<1> USE DEF Types, PermType, WrittenType
<1>1. CASE Grant /\ UNCHANGED <<sessVars, writtenVars, crashes, overlapped>>
  BY <1>1 DEF Grant, DoGrant, Granted, writtenVars, Lesson
<1>2. ASSUME NEW r \in Requests, PermStep(r), UNCHANGED <<writtenVars, crashes>> PROVE Lesson'
  <2>1. CASE GrantNextRead(r)
    BY <1>2, <2>1, LessonSame DEF GrantNextRead, At, Steps, permRest, writtenVars
  <2>2. CASE GrantNextWrite(r)
    BY <1>2, <2>2, LessonSame DEF GrantNextWrite, DoGrant, Granted, At, Steps, writtenVars
  <2>3. CASE CancelRead(r)
    BY <1>2, <2>3, LessonSame DEF CancelRead, At, Steps, writtenVars
  <2>4. CASE CancelWrite(r)
    BY <1>2, <2>4, LessonSame DEF CancelWrite, At, Steps, writtenVars, Permission
  <2> QED
    BY <1>2, <2>1, <2>2, <2>3, <2>4 DEF PermStep
<1>3. ASSUME NEW r \in Requests, Oral(r), UNCHANGED <<writtenVars, crashes>> PROVE Lesson'
  BY <1>3 DEF Oral, Lesson, writtenVars, Start, Converse, StartRead, StartResume,
     StartFindsNone, StartFindsStale, StartDelete, StartCreate, StartLoses, RespondRead,
     RespondTurn, RespondFinal, FinalizeRead, FinalizeVerdict, Fail, Return, Goto, permRest
<1>4. ASSUME NEW r \in Requests, SubmitRead(r), UNCHANGED crashes PROVE Lesson'
  BY <1>4, LessonSame DEF SubmitRead, At, Steps, permRest
<1>5. ASSUME NEW r \in Requests, SubmitUpdate(r), UNCHANGED crashes PROVE Lesson'
  <2>1. CASE verdict[r].status = "done" /\ kind = "lesson"
    <3>1. pc' = [pc EXCEPT ![r] = "progress"] /\ UNCHANGED kind
      BY <1>5, <2>1 DEF SubmitUpdate, Goto
    <3>2. earned'
      BY <1>5, <2>1, Zenon DEF SubmitUpdate
    <3>3. pc'[r] = "progress"
      BY <3>1
    <3> QED
      BY <2>1, <3>1, <3>2, <3>3, Zenon DEF Lesson
  <2>2. CASE ~(verdict[r].status = "done" /\ kind = "lesson")
    <3>1. pc' = [pc EXCEPT ![r] = "idle"] /\ pc[r] = "update" /\ UNCHANGED kind
      BY <1>5, <2>2 DEF SubmitUpdate, Goto, At
    <3>2. \A q \in Requests : pc'[q] = "progress" <=> pc[q] = "progress"
      BY <3>1
    <3>3. earned => earned'
      BY <1>5, Zenon DEF SubmitUpdate
    <3>4. academy' = academy /\ crashes' = crashes
      BY <1>5 DEF SubmitUpdate
    <3>5. ~(kind' = "lesson" /\ perm'.status = "done")
      BY <1>5, <2>2 DEF SubmitUpdate
    <3> QED
      BY <3>1, <3>2, <3>3, <3>4, <3>5, Zenon DEF Lesson
  <2> QED
    BY <2>1, <2>2
<1>6. ASSUME NEW r \in Requests, SubmitProgress(r) PROVE Lesson'
  <2>1. pc' = [pc EXCEPT ![r] = "idle"] /\ pc[r] = "progress" /\ UNCHANGED kind
    BY <1>6 DEF SubmitProgress, Goto, At, permRest
  <2>2. academy' /\ (earned' <=> earned)
    BY <1>6, Zenon DEF SubmitProgress
  <2>3. \A q \in Requests : pc'[q] = "progress" => pc[q] = "progress"
    BY <2>1
  <2> QED
    BY <2>1, <2>2, <2>3, Zenon DEF Lesson
<1>7. CASE Crash
  <2>1. crashes' # 0
    BY <1>7, Numbers DEF Crash
  <2>2. \A q \in Requests : pc'[q] = "idle"
    BY <1>7 DEF Crash
  <2>3. UNCHANGED <<kind, academy, earned>>
    BY <1>7 DEF Crash, permRest
  <2> QED
    BY <2>1, <2>2, <2>3 DEF Lesson
<1>8. CASE UNCHANGED vars
  BY <1>8 DEF vars, permVars, writtenVars, Lesson
<1> QED
  BY <1>1, <1>2, <1>3, <1>4, <1>5, <1>6, <1>7, <1>8 DEF Next, Request, Submit

------------------------------------------------------------------------------
(* What nobody overtook is sound                                           *)

\* What a request that nobody overtook knows of the rows.
Knows ==
  /\ \A r \in Requests :
        pc[r] \in {"update", "cancel", "startSession", "startDelete", "startAsk"}
          => perm.status = "active"
  /\ \A r \in Requests : pc[r] = "respondAsk" =>
        session.status = "active" /\ sid[r] = session.id /\ turns[r] = session.turns + 1
  /\ \A r \in Requests : pc[r] = "finalizeAsk" =>
        session.status = "active" /\ sid[r] = session.id /\ turns[r] = session.turns

Sound ==
  /\ ~Overlap /\ Knows
  /\ session.status = "active" => perm.status = "active" \/ cancelled
  /\ session.id # 0 => session.turns >= answered
  /\ kind = "oral" /\ perm.status = "done" => session.status = "completed"

LEMMA RequestIsLone ==
  ASSUME NEW r \in Requests, NEW x \in Steps, pc \in [Requests -> Steps], Goto(r, x),
         pc[r] # "idle" \/ x # "idle", ~Overlap, ~Overlap'
  PROVE  \A s \in Requests \ {r} : pc[s] = "idle" /\ pc'[s] = "idle"
<1>1. pc'[r] = x /\ \A s \in Requests \ {r} : pc'[s] = pc[s]
  BY DEF Goto
<1> QED
  BY <1>1 DEF Overlap

\* What a lone request must show of the step it takes.
LEMMA LoneKnows ==
  ASSUME NEW r \in Requests, NEW x \in Steps, pc \in [Requests -> Steps], Goto(r, x),
         pc[r] # "idle" \/ x # "idle", ~Overlap, ~Overlap',
         x \in {"update", "cancel", "startSession", "startDelete", "startAsk"}
           => perm'.status = "active",
         x = "respondAsk" => /\ session'.status = "active" /\ sid'[r] = session'.id
                             /\ turns'[r] = session'.turns + 1,
         x = "finalizeAsk" => /\ session'.status = "active" /\ sid'[r] = session'.id
                              /\ turns'[r] = session'.turns
  PROVE  Knows'
<1>1. pc'[r] = x
  BY DEF Goto
<1>2. \A s \in Requests \ {r} : pc'[s] = "idle"
  BY RequestIsLone
<1> QED
  BY <1>1, <1>2 DEF Knows

LEMMA PermSound ==
  ASSUME Types, Told, Sound, NEW r \in Requests, PermStep(r), UNCHANGED sessVars, ~Overlap'
  PROVE  Sound'
<1> USE DEF Types, PermType, Sound, At
<1>1. CASE GrantNextRead(r)
  <2>1. Knows'
    BY <1>1, LoneKnows DEF GrantNextRead, Steps
  <2> QED
    BY <1>1, <2>1 DEF GrantNextRead, permRest, sessVars
<1>2. CASE GrantNextWrite(r)
  <2>1. Knows'
    BY <1>2, LoneKnows DEF GrantNextWrite, Steps
  <2> QED
    BY <1>2, <2>1 DEF GrantNextWrite, DoGrant, Granted, sessVars
<1>3. CASE CancelRead(r)
  <2>1. Knows'
    BY <1>3, LoneKnows DEF CancelRead, Steps
  <2> QED
    BY <1>3, <2>1 DEF CancelRead, sessVars
<1>4. CASE CancelWrite(r)
  <2>1. Knows'
    BY <1>4, LoneKnows DEF CancelWrite, Steps
  <2>2. cancelled'
    BY <1>4 DEF CancelWrite
  <2>3. perm'.status = "failed"
    BY <1>4 DEF CancelWrite, Permission
  <2> QED
    BY <1>4, <2>1, <2>2, <2>3, Zenon DEF CancelWrite, sessVars
<1> QED
  BY <1>1, <1>2, <1>3, <1>4 DEF PermStep

LEMMA SubmitSound ==
  ASSUME Types, Told, Sound, NEW r \in Requests, Submit(r), UNCHANGED sessVars, ~Overlap'
  PROVE  Sound'
<1> USE DEF Types, PermType, Sound, At
<1>1. kind # "oral" /\ session = NoSession
  BY DEF Submit, Told, Underway
<1>2. UNCHANGED <<kind, session, answered>>
  BY Zenon DEF Submit, SubmitRead, SubmitUpdate, SubmitProgress, permRest, sessVars
<1>3. Knows'
  <2>1. CASE SubmitRead(r)
    BY <2>1, LoneKnows DEF SubmitRead, Steps, permRest
  <2>2. CASE SubmitUpdate(r)
    <3>1. PICK x \in {"progress", "idle"} : Goto(r, x)
      BY <2>2 DEF SubmitUpdate
    <3> QED
      BY <2>2, <3>1, LoneKnows DEF SubmitUpdate, Steps
  <2>3. CASE SubmitProgress(r)
    BY <2>3, LoneKnows DEF SubmitProgress, Steps
  <2> QED
    BY <2>1, <2>2, <2>3 DEF Submit
<1> QED
  BY <1>1, <1>2, <1>3 DEF NoSession

LEMMA OralSound ==
  ASSUME Types, Rows, Sound, NEW r \in Requests, Oral(r), ~Overlap'
  PROVE  Sound'
<1> USE DEF Types, PermType, SessType, Sound, At, Return
<1>1. CASE StartRead(r) \/ StartFindsNone(r)
  <2>1. UNCHANGED <<permRest, sessVars>>
    BY <1>1 DEF StartRead, StartFindsNone
  <2>2. Knows'
    <3>1. CASE StartRead(r)
      BY <3>1, LoneKnows DEF StartRead, Steps, permRest
    <3>2. CASE StartFindsNone(r)
      BY <3>2, LoneKnows DEF StartFindsNone, Steps, permRest, Knows
    <3> QED
      BY <1>1, <3>1, <3>2
  <2> QED
    BY <2>1, <2>2 DEF permRest, sessVars
<1>2. CASE StartResume(r) \/ StartLoses(r) \/ Fail(r)
  <2>1. UNCHANGED <<permRest, session, answered>>
    BY <1>2 DEF StartResume, StartLoses, Fail
  <2>2. Knows'
    BY <1>2, LoneKnows DEF StartResume, StartLoses, Fail, Steps
  <2> QED
    BY <2>1, <2>2 DEF permRest
<1>3. CASE StartFindsStale(r)
  <2>1. Knows'
    BY <1>3, LoneKnows DEF StartFindsStale, Steps, permRest, Knows
  <2> QED
    BY <1>3, <2>1 DEF StartFindsStale, permRest
<1>4. CASE RespondRead(r)
  <2>1. Knows'
    BY <1>4, LoneKnows DEF RespondRead, Steps
  <2> QED
    BY <1>4, <2>1 DEF RespondRead, permRest
<1>5. CASE FinalizeRead(r)
  <2>1. Knows'
    BY <1>5, LoneKnows DEF FinalizeRead, Steps
  <2> QED
    BY <1>5, <2>1 DEF FinalizeRead, permRest
<1>6. CASE StartDelete(r)
  <2>1. perm.status = "active" /\ UNCHANGED permRest
    BY <1>6 DEF StartDelete, Knows
  <2>2. Knows'
    BY <1>6, <2>1, LoneKnows DEF StartDelete, Steps, permRest
  <2> QED
    BY <1>6, <2>1, <2>2 DEF StartDelete, NoSession, permRest
<1>7. CASE StartCreate(r)
  <2>1. perm.status = "active" /\ UNCHANGED permRest
    BY <1>7 DEF StartCreate, Knows
  <2>2. Knows'
    BY <1>7, LoneKnows DEF StartCreate, Steps
  <2> QED
    BY <1>7, <2>1, <2>2 DEF StartCreate, permRest
<1>8. CASE RespondTurn(r)
  <2>1. Knows'
    BY <1>8, LoneKnows DEF RespondTurn, Steps
  <2>2. session.status = "active" /\ turns[r] = session.turns + 1
    BY <1>8 DEF RespondTurn, Knows
  <2>3. session.id # 0
    BY <2>2 DEF Rows
  <2>4. session' = [session EXCEPT !.turns = turns[r]] /\ answered' = answered + 1
    BY <1>8 DEF RespondTurn
  <2>5. session'.status = "active" /\ session'.turns = session.turns + 1
    BY <2>2, <2>4 DEF SessionRow
  <2>6. session.turns \in Int /\ session.turns >= answered
    BY <2>3, Numbers DEF SessionRow
  <2>7. session'.turns >= answered'
    BY <2>4, <2>5, <2>6
  <2>8. UNCHANGED permRest
    BY <1>8 DEF RespondTurn
  <2> QED
    BY <2>1, <2>2, <2>5, <2>7, <2>8 DEF permRest
<1>9. CASE RespondFinal(r) \/ FinalizeVerdict(r)
  <2>1. Knows'
    BY <1>9, LoneKnows DEF RespondFinal, FinalizeVerdict, Steps
  <2>2. PICK score \in Scores : FinalizeSession(r, score)
    BY <1>9 DEF RespondFinal, FinalizeVerdict
  <2>3. session'.status = "completed" /\ session'.turns = turns[r]
    BY <2>2 DEF FinalizeSession, SessionRow
  <2>4. session.status = "active"
    BY <1>9 DEF RespondFinal, FinalizeVerdict, Knows
  <2>5. session.turns \in Int /\ session.turns >= answered
    BY <2>4, Numbers DEF SessionRow, Rows
  <2>6. session'.turns >= answered'
    BY <1>9, <2>3, <2>5 DEF RespondFinal, FinalizeVerdict, Knows
  <2> QED
    BY <2>1, <2>3, <2>6
<1> QED
  BY <1>1, <1>2, <1>3, <1>4, <1>5, <1>6, <1>7, <1>8, <1>9 DEF Oral, Start, Converse

LEMMA SoundKept ==
  Types /\ Told /\ Rows /\ (~overlapped => Sound) /\ [Next]_vars => (~overlapped' => Sound')
<1> SUFFICES ASSUME Types, Told, Rows, ~overlapped => Sound, [Next]_vars, ~overlapped'
             PROVE  Sound'
  OBVIOUS
<1>1. ~overlapped /\ Sound
  <2>1. overlapped => overlapped'
    BY Zenon DEF Next, Crash, vars
  <2> QED
    BY <2>1
<1>2. CASE Grant /\ UNCHANGED <<sessVars, writtenVars, crashes, overlapped>>
  <2>1. UNCHANGED <<kind, pc, sessVars>> /\ perm'.status = "active"
    BY <1>2 DEF Grant, DoGrant, Granted
  <2>2. ~Overlap'
    BY <1>1, <2>1 DEF Sound, Overlap
  <2>3. Knows'
    BY <1>1, <2>1 DEF Sound, Knows, sessVars
  <2> QED
    BY <1>1, <2>1, <2>2, <2>3 DEF Sound, sessVars
<1>3. ASSUME NEW r \in Requests, Request(r), overlapped' = (overlapped \/ Overlap')
      PROVE  Sound'
  <2>1. ~Overlap'
    BY <1>3, Zenon
  <2> QED
    BY <1>1, <1>3, <2>1, PermSound, OralSound, SubmitSound DEF Request
<1>4. CASE Crash
  <2>1. \A r \in Requests : pc'[r] = "idle"
    BY <1>4 DEF Crash
  <2>2. UNCHANGED <<permRest, session, answered>>
    BY <1>4 DEF Crash
  <2>3. Knows' /\ ~Overlap'
    BY <2>1 DEF Knows, Overlap
  <2> QED
    BY <1>1, <2>2, <2>3 DEF Sound, permRest
<1>5. CASE UNCHANGED vars
  BY <1>1, <1>5 DEF vars, permVars, sessVars, Sound, Knows, Overlap
<1> QED
  BY <1>2, <1>3, <1>4, <1>5 DEF Next

------------------------------------------------------------------------------
(* The theorems                                                            *)

IInv == Types /\ Flags /\ Told /\ Rows /\ Lesson /\ (~overlapped => Sound)

LEMMA Begin == Init => IInv
<1> SUFFICES ASSUME Init PROVE IInv
  OBVIOUS
<1> USE Numbers DEF Init, PermInit, OralInit, WrittenInit, NoSession, NoScore
<1>1. PermType
  BY DEF PermType, Permission, Steps
<1>2. SessType
  BY DEF SessType, SessionRow
<1>3. WrittenType
  BY DEF WrittenType, NoVerdict, Permission
<1>4. Flags
  BY Zenon DEF Flags
<1>5. Told
  BY DEF Told, Underway, StatusTellsResult, VerdictsAgree
<1>6. Rows
  BY DEF Rows
<1>7. Lesson
  BY DEF Lesson
<1>8. Sound
  BY DEF Sound, Knows, Overlap
<1> QED
  BY <1>1, <1>2, <1>3, <1>4, <1>5, <1>6, <1>7, <1>8 DEF IInv, Types

LEMMA Inductive == IInv /\ [Next]_vars => IInv'
BY TypesKept, FlagsKept, ToldKept, RowsKept, LessonKept, SoundKept DEF IInv

LEMMA Always == Spec => []IInv
BY Begin, Inductive, PTL DEF Spec

\* The rows of permission and session keep their types and never tell two
\* results (ExamsService.grant, cancelPermission, submit,
\* OralExamService.finalizeSession), whatever overlaps.
THEOREM InvHolds == Spec => []Inv
<1>1. IInv => Inv
  BY TypeParts DEF IInv, Told, Inv
<1> QED
  BY <1>1, Always, PTL

\* Passing the exam of a lesson completes the lesson unless the server stopped
\* in between, and nothing else completes it (ExamsService.submit).
THEOREM PassCompletes == Spec => []PassCompletesLesson
<1>1. IInv => PassCompletesLesson
  BY DEF IInv, Lesson, PassCompletesLesson, Quiet, At
<1> QED
  BY <1>1, Always, PTL

\* What the student said is kept during the conversation and after it was
\* passed (OralExamService.respond, start, finalizeSession), as long as
\* requests do not overlap.
THEOREM AnswersAreKept == Spec => []TranscriptKept
<1>1. IInv => TranscriptKept
  BY DEF IInv, Sound, TranscriptKept, NoAnswerLost, ResultKept
<1> QED
  BY <1>1, Always, PTL

\* Only the deletion of a stale session takes a session away, and that one
\* was found completed.
LEMMA ActiveStays ==
  ASSUME IInv, [Next]_vars, session.status = "active"
  PROVE  session'.id = session.id
<1> USE DEF IInv, Types, PermType, SessType
<1>1. UNCHANGED session => session'.id = session.id
  OBVIOUS
<1>2. ASSUME NEW r \in Requests, Oral(r) PROVE session'.id = session.id
  <2>1. ~StartDelete(r)
    BY DEF StartDelete, At, Rows
  <2>2. ~StartCreate(r)
    BY DEF StartCreate, Rows
  <2>3. RespondTurn(r) => session'.id = session.id
    BY DEF RespondTurn, SessionRow
  <2>4. RespondFinal(r) \/ FinalizeVerdict(r) => session'.id = session.id
    BY DEF RespondFinal, FinalizeVerdict, FinalizeSession, SessionRow
  <2> QED
    BY <1>1, <1>2, <2>1, <2>2, <2>3, <2>4 DEF Oral, Start, Converse, StartRead, StartResume,
       StartFindsNone, StartFindsStale, StartLoses, RespondRead, FinalizeRead, Fail, sessVars
<1> QED
  BY <1>1, <1>2 DEF Next, Request, Crash, sessVars, vars

\* A verdict comes of a submission or a conversation that found the attempt
\* open, or leaves the score that is there.
LEMMA VerdictClosesAttempt ==
  ASSUME IInv, [Next]_vars, perm'.score # NoScore, perm' # perm, ~overlapped
  PROVE  perm.status = "active" \/ cancelled
<1> USE DEF IInv, Types, PermType, Sound, Knows, At
<1>1. ~DoGrant
  BY DEF DoGrant, Granted
<1>2. ASSUME NEW r \in Requests, PermStep(r) PROVE perm.status = "active"
  BY <1>1, <1>2 DEF PermStep, GrantNextRead, GrantNextWrite, CancelRead, CancelWrite, permRest
<1>3. ASSUME NEW r \in Requests, Oral(r) PROVE perm.status = "active" \/ cancelled
  <2>1. RespondFinal(r) \/ FinalizeVerdict(r)
    BY <1>3 DEF Oral, Start, Converse, StartRead, StartResume, StartFindsNone, StartFindsStale,
       StartDelete, StartCreate, StartLoses, RespondRead, RespondTurn, FinalizeRead, Fail, permRest
  <2> QED
    BY <2>1 DEF RespondFinal, FinalizeVerdict
<1>4. ASSUME NEW r \in Requests, Submit(r) PROVE perm.status = "active"
  BY <1>4 DEF Submit, SubmitRead, SubmitUpdate, SubmitProgress, permRest
<1>5. ~Crash /\ ~(UNCHANGED vars) /\ ~Grant
  BY <1>1 DEF Crash, vars, permVars, permRest, Grant
<1> QED
  BY <1>2, <1>3, <1>4, <1>5 DEF Next, Request

\* An attempt is not thrown away under way, and only an open attempt gets a
\* verdict as long as requests do not overlap (OralExamService.start,
\* finalizeSession, ExamsService.submit).
THEOREM AttemptsAreEnded == Spec => AttemptsEnd
<1>1. IInv /\ [Next]_vars => [session.status = "active" => session'.id = session.id]_vars
  BY ActiveStays
<1>2. IInv /\ [Next]_vars =>
        [perm'.score # NoScore /\ perm' # perm
           => perm.status = "active" \/ cancelled \/ overlapped]_vars
  BY VerdictClosesAttempt
<1> QED
  BY <1>1, <1>2, Always, PTL DEF Spec, AttemptsEnd, ActiveSessionKept, VerdictOnActive
===============================================================================
