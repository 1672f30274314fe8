-------------------------------- MODULE Groups --------------------------------
(***************************************************************************)
(* The groups of one branch (groups/groups.service.ts).  A group names its *)
(* mentor and the mentor names the group, in two tables without foreign    *)
(* keys; each operation writes both, one row per await.                    *)
(***************************************************************************)
EXTENDS FiniteSets

CONSTANTS
  Requests,   \* HTTP requests that can be in flight at the same time
  GroupIds, Mentors, Students

VARIABLES
  mentorId,   \* groups.mentor_id; "unborn" and "deleted" groups have no row
  groupId,    \* users.group_id of mentors and students
  pc, req,    \* where each request is, and what it carries
  overlapped, \* history: two requests touched one group or person at a time
  halfDone,   \* history: a request stopped after some of its writes
  edited      \* history: people whose group users.update or users.create wrote last

state == <<mentorId, groupId, halfDone, edited>>
vars == <<state, pc, req, overlapped>>

NoReq == [rows |-> {}]
Users == Mentors \union Students
Exists(g) == mentorId[g] \notin {"unborn", "deleted"}

Empty ==
  /\ mentorId = [g \in GroupIds |-> "unborn"]
  /\ groupId = [u \in Users |-> "none"]
  /\ halfDone = FALSE /\ edited = {}

\* The groups and people an operation on group g and person u reads or writes.
Rows(g, u) ==
  {g, u, mentorId[g]} \union {h \in GroupIds : u # "none" /\ mentorId[h] = u}

Begin(r, step, g, u) ==
  LET rows == Rows(g, u) \ {"none", "unborn"} IN
  /\ pc[r] = "idle"
  /\ pc' = [pc EXCEPT ![r] = step]
  /\ req' = [req EXCEPT ![r] = [group |-> g, user |-> u, old |-> mentorId[g],
                                other |-> "none", rows |-> rows]]
  /\ overlapped' = (overlapped \/ \E q \in Requests \ {r} : req[q].rows \intersect rows # {})
  /\ UNCHANGED state

Goto(r, step) == pc' = [pc EXCEPT ![r] = step]

Return(r) ==
  /\ Goto(r, "idle")
  /\ req' = [req EXCEPT ![r] = NoReq]

\* This service writes the group of a person; "none" is nobody's.
WriteUser(u, g) ==
  /\ groupId' = IF u = "none" THEN groupId ELSE [groupId EXCEPT ![u] = g]
  /\ edited' = edited \ {u}

------------------------------------------------------------------------------
(* create and update: clear the old mentor, check the new one, free the     *)
(* group he led, point him here, write the group.                           *)

\* create makes the row with its mentor first, and points the mentor at it.
Create(r) ==
  \E g \in GroupIds, m \in Mentors \union {"none"} :
    /\ mentorId[g] = "unborn" /\ pc[r] = "idle"
    /\ \A q \in Requests : g \notin req[q].rows
    /\ Begin(r, "insert", g, m)

CreateInserts(r) ==
  LET m == req[r].user IN
  /\ pc[r] = "insert"
  /\ mentorId' = [mentorId EXCEPT ![req[r].group] = m]
  /\ IF m = "none" THEN Return(r) ELSE Goto(r, "findOther") /\ UNCHANGED req
  /\ UNCHANGED <<groupId, halfDone, edited, overlapped>>

Update(r) ==
  \E g \in GroupIds, m \in Mentors \union {"none"} :
    /\ Exists(g) /\ m # mentorId[g]
    /\ Begin(r, "clearOld", g, m)

UpdateClearsOld(r) ==
  LET q == req[r] IN
  /\ pc[r] = "clearOld"
  /\ WriteUser(q.old, "none")
  /\ Goto(r, IF q.user = "none" THEN "writeGroup" ELSE "validate")
  /\ UNCHANGED <<mentorId, halfDone, req, overlapped>>

\* The new mentor is checked after the old one was cleared: a person who is no
\* mentor of the branch ends the request there.
UpdateValidates(r) ==
  /\ pc[r] = "validate"
  /\ \/ Goto(r, "findOther") /\ UNCHANGED <<req, halfDone>>
     \/ Return(r) /\ halfDone' = (halfDone \/ req[r].old # "none")
  /\ UNCHANGED <<mentorId, groupId, edited, overlapped>>

\* Faulty variant: the group the mentor leads already is left as it is.
FindNoOther(r) ==
  /\ pc[r] = "findOther"
  /\ req' = [req EXCEPT ![r].other = "none"]
  /\ Goto(r, "setMentor")
  /\ UNCHANGED <<state, overlapped>>

FindOther(r) ==
  LET led == {h \in GroupIds \ {req[r].group} : mentorId[h] = req[r].user} IN
  /\ pc[r] = "findOther"
  /\ \/ led = {} /\ Goto(r, "setMentor") /\ UNCHANGED req
     \/ \E h \in led : /\ req' = [req EXCEPT ![r].other = h]
                       /\ Goto(r, "clearOther")
  /\ UNCHANGED <<state, overlapped>>

\* A write by id; of a row that is gone it throws.
ClearOther(r) ==
  LET h == req[r].other IN
  /\ pc[r] = "clearOther"
  /\ IF Exists(h)
     THEN mentorId' = [mentorId EXCEPT ![h] = "none"] /\ Goto(r, "setMentor")
          /\ UNCHANGED <<req, halfDone>>
     ELSE Return(r) /\ halfDone' = TRUE /\ UNCHANGED mentorId
  /\ UNCHANGED <<groupId, edited, overlapped>>

\* setMentorGroup ends; create is done, update still has the group to write.
SetMentor(r) ==
  LET q == req[r] IN
  /\ pc[r] = "setMentor"
  /\ WriteUser(q.user, q.group)
  /\ IF q.old = "unborn" THEN Return(r) ELSE Goto(r, "writeGroup") /\ UNCHANGED req
  /\ UNCHANGED <<mentorId, halfDone, overlapped>>

WriteGroup(r) ==
  LET q == req[r] IN
  /\ pc[r] = "writeGroup"
  /\ mentorId' = IF Exists(q.group) THEN [mentorId EXCEPT ![q.group] = q.user] ELSE mentorId
  /\ halfDone' = (halfDone \/ ~Exists(q.group))
  /\ Return(r)
  /\ UNCHANGED <<groupId, edited, overlapped>>

------------------------------------------------------------------------------
(* Students, and the deletion of a group *)

\* addStudents: the group is looked up, and only students are written.
AddStudent(r) ==
  \E g \in GroupIds, s \in Students : Exists(g) /\ Begin(r, "add", g, s)

AddWrites(r) ==
  /\ pc[r] = "add"
  /\ WriteUser(req[r].user, req[r].group)
  /\ Return(r)
  /\ UNCHANGED <<mentorId, halfDone, overlapped>>

RemoveStudent(r) ==
  \E s \in Students : groupId[s] # "none" /\ Exists(groupId[s]) /\ Begin(r, "remove", groupId[s], s)

RemoveWrites(r) ==
  /\ pc[r] = "remove"
  /\ WriteUser(req[r].user, "none")
  /\ Return(r)
  /\ UNCHANGED <<mentorId, halfDone, overlapped>>

Delete(r) ==
  \E g \in GroupIds : Exists(g) /\ Begin(r, "count", g, "none")

\* Faulty variant: the students are not counted.
DeleteUncounted(r) ==
  /\ pc[r] = "count"
  /\ Goto(r, "clearMentor")
  /\ UNCHANGED <<state, req, overlapped>>

DeleteCounts(r) ==
  /\ pc[r] = "count"
  /\ IF \E s \in Students : groupId[s] = req[r].group
     THEN Return(r) ELSE Goto(r, "clearMentor") /\ UNCHANGED req
  /\ UNCHANGED <<state, overlapped>>

DeleteClearsMentor(r) ==
  LET old == req[r].old IN
  /\ pc[r] = "clearMentor"
  /\ WriteUser(old, "none")
  /\ Goto(r, "delete")
  /\ UNCHANGED <<mentorId, halfDone, req, overlapped>>

DeleteWrites(r) ==
  /\ pc[r] = "delete"
  /\ mentorId' = [mentorId EXCEPT ![req[r].group] = "deleted"]
  /\ Return(r)
  /\ UNCHANGED <<groupId, halfDone, edited, overlapped>>

\* The server fails between two awaits of a request.
ServerFails(r) ==
  /\ pc[r] # "idle"
  /\ Return(r)
  /\ halfDone' = TRUE
  /\ UNCHANGED <<mentorId, groupId, edited, overlapped>>

------------------------------------------------------------------------------
(* users.update and users.create write the group they are given to a person *)
(* of any role: the group is not looked up, and its mentor_id is left as it *)
(* is.  An id they can be given is that of a group there was once.          *)

UserEdit(u, g) ==
  /\ groupId' = [groupId EXCEPT ![u] = g]
  /\ edited' = edited \union {u}
  /\ UNCHANGED <<mentorId, halfDone, pc, req, overlapped>>

Other ==
  \E u \in Users, g \in {h \in GroupIds : mentorId[h] # "unborn"} \union {"none"} : UserEdit(u, g)

Step(r) ==
  \/ Create(r) \/ CreateInserts(r) \/ Update(r) \/ UpdateClearsOld(r)
  \/ UpdateValidates(r) \/ FindOther(r) \/ ClearOther(r) \/ SetMentor(r)
  \/ WriteGroup(r) \/ AddStudent(r) \/ AddWrites(r) \/ RemoveStudent(r)
  \/ RemoveWrites(r) \/ Delete(r) \/ DeleteCounts(r) \/ DeleteClearsMentor(r)
  \/ DeleteWrites(r) \/ ServerFails(r)

------------------------------------------------------------------------------
Quiet == \A r \in Requests : pc[r] = "idle"
Calm == ~overlapped /\ ~halfDone

\* Between requests a group and its mentor name each other, so a mentor leads
\* one group at most: with requests on different groups and people side by
\* side, and no request cut off half way (groups.service.ts:115-152, 259-278).
\* Of a mentor to whom users.update or users.create wrote a group nothing is
\* said until this service writes him again, which heals the two pointers.
PointersAgree ==
  Calm /\ Quiet =>
    \A g \in GroupIds, m \in Mentors \ edited : mentorId[g] = m <=> groupId[m] = g

\* No student is in a group that was deleted, unless users.update or
\* users.create put him there: the count and the delete are two awaits
\* (groups.service.ts:212-229) and there is no foreign key.
NoStudentLeftBehind ==
  ~overlapped =>
    \A s \in Students \ edited : groupId[s] # "none" => Exists(groupId[s])
==============================================================================
