---------------------------- MODULE LessonProgress ----------------------------
(***************************************************************************)
(* The lessons of one student (lesson-progress/): how often each was done  *)
(* at home and whether it counts as completed at home and in the academy,  *)
(* and what a completion adds to the student: a building in the city and   *)
(* certificates (gamification/).  Every operation reads rows and writes    *)
(* them later by their key.                                                *)
(***************************************************************************)
EXTENDS Integers, FiniteSets, FiniteSetsExt

CONSTANTS
  Requests,   \* HTTP requests that can be in flight at the same time
  LastLesson, \* lessons of the course, by their order number 1..LastLesson
  Repetitions, \* sessions a lesson asks for
  MostRepetitions, \* the most an override can ask for (maxNOverride)
  MaxCalls    \* bound: calls of students and staff in all

Lessons == 1..LastLesson
\* A certificate per number of lessons completed; the thresholds are settings.
Levels == Lessons

VARIABLES
  progress,   \* the rows: exists, count, home, academy
  needed,     \* sessions asked of this student
  city,       \* buildings: pairs of a lesson and an index
  certs,      \* certificates issued at each level
  owed,       \* history: lessons whose completion asked for a building last, unless that failed
  sessions,   \* history: sessions completed
  calls,      \* how many calls have been made, for the bound
  pc, req,    \* where each request is, and what it carries
  overlapped  \* history: a row changed between a read and the write

rows == <<progress, needed, city, certs, owed, sessions>>
state == <<rows, calls>>
vars == <<state, pc, req, overlapped>>

NoRow == [exists |-> FALSE, count |-> 0, home |-> FALSE, academy |-> FALSE]
NoReq == [lesson |-> 0]

Enrolled ==
  /\ progress = [l \in Lessons |-> NoRow]
  /\ needed = [l \in Lessons |-> Repetitions]
  /\ city = {} /\ certs = [level \in Levels |-> 0] /\ owed = {}
  /\ sessions = [l \in Lessons |-> 0] /\ calls = 0

Go(r, step) == pc' = [pc EXCEPT ![r] = step]
Carry(r, fields) == req' = [req EXCEPT ![r] = fields]
Return(r) == Go(r, "idle") /\ Carry(r, NoReq)
Building(r, l, academy) ==
  /\ Go(r, "building") /\ Carry(r, [lesson |-> l, academy |-> academy])
  /\ owed' = owed \union {l}
Called == calls < MaxCalls /\ calls' = calls + 1
Overtaken(stale) == overlapped' = (overlapped \/ stale)

------------------------------------------------------------------------------
\* setNOverride
SetOverride(l) ==
  /\ Called
  /\ \E n \in 1..MostRepetitions : needed' = [needed EXCEPT ![l] = n]
  /\ UNCHANGED <<progress, city, certs, owed, sessions, pc, req, overlapped>>

\* startAcademySession
StartAcademy(l) ==
  /\ Called
  /\ progress' = [progress EXCEPT ![l].exists = TRUE]
  /\ UNCHANGED <<needed, city, certs, owed, sessions, pc, req, overlapped>>

\* A passed exam completes its lesson (exams.service), and does nothing else.
ExamPassed(l) ==
  /\ Called
  /\ progress' = [progress EXCEPT ![l].exists = TRUE, ![l].academy = TRUE]
  /\ UNCHANGED <<needed, city, certs, owed, sessions, pc, req, overlapped>>

\* completeSession: getEffectiveN, then the row.
SessionBegins(r, l) ==
  /\ pc[r] = "idle" /\ Called
  /\ Carry(r, [lesson |-> l, n |-> needed[l]])
  /\ Go(r, "session")
  /\ UNCHANGED <<rows, overlapped>>

SessionReads(r) ==
  /\ pc[r] = "session"
  /\ Carry(r, [lesson |-> req[r].lesson, n |-> req[r].n, was |-> progress[req[r].lesson]])
  /\ Go(r, "count")
  /\ UNCHANGED <<state, overlapped>>

\* Counts the session; `kept` is the row the other fields are kept from.
Counts(r, kept) ==
  LET l == req[r].lesson
      count == req[r].was.count + 1
      home == count >= req[r].n
  IN /\ pc[r] = "count"
     /\ progress' = [progress EXCEPT ![l] =
          [exists |-> TRUE, count |-> count, home |-> home, academy |-> kept.academy]]
     /\ sessions' = [sessions EXCEPT ![l] = sessions[l] + 1]
     /\ Overtaken(progress[l].count # req[r].was.count)
     /\ IF home THEN Building(r, l, FALSE) ELSE Return(r) /\ UNCHANGED owed
     /\ UNCHANGED <<needed, city, certs, calls>>

\* Faulty variant: the row is written back as it was read.
SessionWritesRow(r) == Counts(r, req[r].was)

SessionWrites(r) == Counts(r, progress[req[r].lesson])

\* markAcademyCompleted: an update, which fails without a row.
MarkAcademy(r, l) ==
  /\ pc[r] = "idle" /\ progress[l].exists /\ Called
  /\ progress' = [progress EXCEPT ![l].academy = TRUE]
  /\ Building(r, l, TRUE)
  /\ UNCHANGED <<needed, city, certs, sessions, overlapped>>

------------------------------------------------------------------------------
\* What a completion adds.  After the building, of an approval only, the
\* certificates; every failure is swallowed.  A passed exam and a bulk run
\* complete lessons without asking for a building.
AfterBuilding(r) ==
  IF req[r].academy THEN Go(r, "certificate") /\ Carry(r, NoReq) ELSE Return(r)

\* Faulty variant: any building of the student will do.
CityLooksForAny(r) ==
  /\ pc[r] = "building"
  /\ IF city # {} THEN AfterBuilding(r) ELSE Go(r, "place") /\ UNCHANGED req
  /\ UNCHANGED <<state, overlapped>>

CityLooks(r) ==
  /\ pc[r] = "building"
  /\ IF \E building \in city : building.lesson = req[r].lesson
     THEN AfterBuilding(r)
     ELSE Go(r, "place") /\ UNCHANGED req
  /\ UNCHANGED <<state, overlapped>>

CityCounts(r) ==
  /\ pc[r] = "place"
  /\ Carry(r, [lesson |-> req[r].lesson, academy |-> req[r].academy, buildings |-> city])
  /\ Go(r, "build")
  /\ UNCHANGED <<state, overlapped>>

\* Faulty variant: the index follows the order of the lessons.
IndexOfLesson(r) == req[r].lesson - 1

NextIndex(r) == Cardinality(req[r].buildings)

\* One building per student and lesson is a unique key.
CityBuilds(r) ==
  /\ pc[r] = "build"
  /\ city' = IF \E building \in city : building.lesson = req[r].lesson THEN city
             ELSE city \union {[lesson |-> req[r].lesson, index |-> NextIndex(r)]}
  /\ Overtaken(city # req[r].buildings)
  /\ AfterBuilding(r)
  /\ UNCHANGED <<progress, needed, certs, owed, sessions, calls>>

CityFails(r) ==
  /\ pc[r] \in {"building", "place", "build"}
  /\ owed' = owed \ {req[r].lesson}
  /\ AfterBuilding(r)
  /\ UNCHANGED <<progress, needed, city, certs, sessions, calls, overlapped>>

Completed == {l \in Lessons : progress[l].academy}

\* checkAndAward: the highest level reached, if it has not been issued.
CertificateCounts(r) ==
  /\ pc[r] = "certificate"
  /\ IF Completed = {} THEN Return(r)
     ELSE /\ Carry(r, [level |-> Cardinality(Completed)])
          /\ Go(r, "issued")
  /\ UNCHANGED <<state, overlapped>>

\* Faulty variant: what was issued before is not looked up.
CertificateLooksNot(r) ==
  /\ pc[r] = "issued"
  /\ Go(r, "issue") /\ Carry(r, [level |-> req[r].level, certs |-> certs])
  /\ UNCHANGED <<state, overlapped>>

CertificateLooks(r) ==
  /\ pc[r] = "issued"
  /\ IF certs[req[r].level] > 0 THEN Return(r)
     ELSE Go(r, "issue") /\ Carry(r, [level |-> req[r].level, certs |-> certs])
  /\ UNCHANGED <<state, overlapped>>

CertificateIssues(r) ==
  /\ pc[r] = "issue"
  /\ certs' = [certs EXCEPT ![req[r].level] = certs[req[r].level] + 1]
  /\ Overtaken(certs # req[r].certs)
  /\ Return(r)
  /\ UNCHANGED <<progress, needed, city, owed, sessions, calls>>

------------------------------------------------------------------------------
\* bulkCompleteUpTo: one read of all the rows, then lesson after lesson.
BulkReads(r, l) ==
  /\ pc[r] = "idle" /\ Called
  /\ Carry(r, [upto |-> l, next |-> 1, rows |-> progress])
  /\ Go(r, "bulk")
  /\ UNCHANGED <<rows, overlapped>>

\* Faulty variant: the repetitions asked for, whatever was done beyond them.
BulkCountAsked(row) == Repetitions

BulkCount(row) == Max({row.count, Repetitions})

BulkAdvances(r) ==
  IF req[r].next = req[r].upto THEN Return(r)
  ELSE Carry(r, [req[r] EXCEPT !.next = req[r].next + 1]) /\ UNCHANGED pc

BulkSkips(r) ==
  /\ pc[r] = "bulk" /\ req[r].rows[req[r].next].academy
  /\ BulkAdvances(r)
  /\ UNCHANGED <<state, overlapped>>

\* A row that appeared since the read makes the creation fail, and the rest
\* of the lessons is not reached.
BulkWrites(r) ==
  LET l == req[r].next
      was == req[r].rows[l]
  IN /\ pc[r] = "bulk" /\ ~was.academy
     /\ IF was.exists \/ ~progress[l].exists
        THEN /\ progress' = [progress EXCEPT ![l] =
                  [exists |-> TRUE, count |-> BulkCount(was), home |-> TRUE, academy |-> TRUE]]
             /\ BulkAdvances(r)
        ELSE UNCHANGED progress /\ Return(r)
     /\ Overtaken(progress[l] # was)
     /\ UNCHANGED <<needed, city, certs, owed, sessions, calls>>

Step(r) ==
  \/ \E l \in Lessons : SessionBegins(r, l) \/ MarkAcademy(r, l) \/ BulkReads(r, l)
  \/ SessionReads(r) \/ SessionWrites(r)
  \/ CityLooks(r) \/ CityCounts(r) \/ CityBuilds(r) \/ CityFails(r)
  \/ CertificateCounts(r) \/ CertificateLooks(r) \/ CertificateIssues(r)
  \/ BulkSkips(r) \/ BulkWrites(r)

Other == \E l \in Lessons : SetOverride(l) \/ StartAcademy(l) \/ ExamPassed(l)

------------------------------------------------------------------------------
\* No session is lost: the count of a lesson is at least the sessions done,
\* also where staff fill in lessons in bulk (progress.service.ts:103, 417),
\* unless two writes of one row overtook each other.
CountsEverySession ==
  ~overlapped => \A l \in Lessons : progress[l].count >= sessions[l]

\* What staff or an exam completed, no later session takes back
\* (progress.service.ts:106-122): not even one that read the row before.
AcademyStays ==
  [][\A l \in Lessons : progress[l].academy => progress'[l].academy]_progress

\* A lesson has one building at most, and only if there was work on it; and
\* the buildings stand in a row without a gap (city.service.ts:76-110) although
\* the index is only a count of rows.
BuildingsInOrder ==
  /\ \A b, c \in city : b.lesson = c.lesson => b = c
  /\ \A b \in city : progress[b.lesson].academy \/ progress[b.lesson].count > 0
  /\ ~overlapped => {building.index : building \in city} = 0..(Cardinality(city) - 1)

\* A lesson that a session completed at home or a mentor in the academy has its
\* building when its request is through, whatever overlaps, unless the insertion
\* failed and was swallowed (progress.service.ts:198-207).  It is not so of
\* every completed lesson: passed exams and bulk runs ask for none.
BuildingsFollow ==
  \A l \in owed :
    \/ \E building \in city : building.lesson = l
    \/ \E r \in Requests : pc[r] \in {"building", "place", "build"} /\ req[r].lesson = l

\* A certificate of a level is issued once, and for lessons the student has
\* completed (certificates.service.ts:198-228); no key of the table forbids two.
OneCertificate ==
  ~overlapped => \A level \in Levels :
    certs[level] <= 1 /\ (certs[level] = 1 => Cardinality(Completed) >= level)
==============================================================================
