----------------------------- MODULE VideoCheckin -----------------------------
(***************************************************************************)
(* The check-in video of one student for one slot, the morning or the      *)
(* evening of one day (video-checkin/): a row with a status and the path   *)
(* of a file, and the files themselves.  An upload is stored under a name  *)
(* of its own, the old file goes, the row is written, and the file is then *)
(* renamed to the name of the slot; a nightly job marks the slot as missed *)
(* and a later one deletes the file.                                       *)
(***************************************************************************)
EXTENDS Integers, Sequences

CONSTANTS
  Requests,   \* uploads; each is also the name its file arrives under
  Formats     \* file name extensions; the slot has one final name for each

NoFile == "none"
Phases == <<"onTime", "late", "over", "old">>

VARIABLES
  phase,      \* how far the day is, as an index of Phases
  video,      \* the row: status ("none" while there is no row), path, and by
              \* its submittedAt the upload that wrote it last
  files,      \* the files of this slot on the disk
  job,        \* the job that marks the slot as missed: its step, what it read
  pruning,    \* the nightly deletion: "idle", "files" gone, "rows" cleared
  pc, req,    \* where each upload is, and what it carries
  overlapped, \* history: the row changed between a read and the write
  broken      \* history: an upload failed half way

state == <<phase, video, files, job, pruning, broken>>
vars == <<state, pc, req, overlapped>>

NoReq == [status |-> "none"]

Morning ==
  /\ phase = 1
  /\ video = [status |-> "none", path |-> NoFile, by |-> "nobody"] /\ files = {}
  /\ job = [step |-> "waits", was |-> video] /\ pruning = "idle"
  /\ broken = FALSE

Submitted == {"submitted", "late"}

\* An upload is over long before the day after tomorrow.
Uploading == \E r \in Requests : pc[r] \notin {"idle", "done"}

TimePasses ==
  /\ phase < Len(Phases)
  /\ Phases[phase + 1] = "old" => ~Uploading /\ job.step = "done"
  /\ phase' = phase + 1
  /\ UNCHANGED <<video, files, job, pruning, pc, req, overlapped, broken>>

------------------------------------------------------------------------------
Go(r, step) == pc' = [pc EXCEPT ![r] = step]
Carry(r, fields) == req' = [req EXCEPT ![r] = fields]

\* The file is on the disk, and its slot and lateness are determined.
Arrive(r) ==
  /\ pc[r] = "idle" /\ Phases[phase] \in {"onTime", "late"}
  /\ files' = files \union {r}
  /\ \E format \in Formats :
       Carry(r, [status |-> IF Phases[phase] = "late" THEN "late" ELSE "submitted",
                 final |-> format, was |-> video])
  /\ Go(r, "arrived")
  /\ UNCHANGED <<phase, video, job, pruning, overlapped, broken>>

LookUp(r) ==
  /\ pc[r] = "arrived"
  /\ Carry(r, [req[r] EXCEPT !.was = video]) /\ Go(r, "lookedUp")
  /\ UNCHANGED <<state, overlapped>>

\* Faulty variant: the old file is left for the renaming to replace.
LeaveOld(r) ==
  /\ pc[r] = "lookedUp" /\ Go(r, "removed")
  /\ UNCHANGED <<state, req, overlapped>>

\* The file the row pointed to when it was read is deleted before the row is written.
RemoveOld(r) ==
  /\ pc[r] = "lookedUp"
  /\ files' = files \ {req[r].was.path} /\ Go(r, "removed")
  /\ UNCHANGED <<phase, video, job, pruning, req, overlapped, broken>>

\* Faulty variant: the status of this upload whatever the row said.
StatusOfUpload(r) == req[r].status

\* A late upload does not downgrade one that was on time.
FinalStatus(r) ==
  IF req[r].was.status = "submitted" THEN "submitted" ELSE req[r].status

Save(r) ==
  /\ pc[r] = "removed"
  /\ video' = [status |-> FinalStatus(r), path |-> r, by |-> r]
  /\ overlapped' = (overlapped \/ video # req[r].was)
  /\ Go(r, "saved")
  /\ UNCHANGED <<phase, files, job, pruning, req, broken>>

\* Faulty variant: what stands under the final name is deleted after the
\* renaming.
RenameThenRemove(r) ==
  /\ pc[r] = "saved"
  /\ files' = files \ {r, req[r].final}
  /\ Go(r, "renamed")
  /\ overlapped' = (overlapped \/ video.path # r)
  /\ UNCHANGED <<phase, video, job, pruning, req, broken>>

\* One synchronous block: what stands under the final name goes, and the file
\* takes its name; without the file the renaming throws, which is swallowed.
Rename(r) ==
  /\ pc[r] = "saved"
  /\ IF r \in files
     THEN files' = (files \ {r}) \union {req[r].final} /\ Go(r, "renamed")
     ELSE files' = files \ {req[r].final} /\ Go(r, "done")
  /\ overlapped' = (overlapped \/ video.path # r)
  /\ UNCHANGED <<phase, video, job, pruning, req, broken>>

\* updateVideoPath
SetPath(r) ==
  /\ pc[r] = "renamed"
  /\ video' = [video EXCEPT !.path = req[r].final]
  /\ overlapped' = (overlapped \/ video.path # r)
  /\ Go(r, "done")
  /\ UNCHANGED <<phase, files, job, pruning, req, broken>>

\* The server stops or the database refuses; nobody takes the upload up again.
Break(r) ==
  /\ pc[r] \notin {"idle", "done"}
  /\ broken' = TRUE /\ Go(r, "done")
  /\ UNCHANGED <<phase, video, files, job, pruning, req, overlapped>>

Step(r) ==
  Arrive(r) \/ LookUp(r) \/ RemoveOld(r) \/ Save(r) \/ Rename(r) \/ SetPath(r) \/ Break(r)

------------------------------------------------------------------------------
\* The job fires as the slot closes: it lists who has submitted, looks again
\* student by student, and then writes.
Look(from, to) ==
  /\ job.step = from
  /\ job' = [step |-> IF video.status \in Submitted THEN "done" ELSE to, was |-> video]
  /\ UNCHANGED <<phase, video, files, pruning, pc, req, overlapped, broken>>

ListDone == Phases[phase] = "over" /\ Look("waits", "listed")

MarkMissedLooks == Look("listed", "looked")

MarkMissedWrites ==
  /\ job.step = "looked"
  /\ video' = [video EXCEPT !.status = "missed"]
  /\ overlapped' = (overlapped \/ video # job.was)
  /\ job' = [job EXCEPT !.step = "done"]
  /\ UNCHANGED <<phase, files, pruning, pc, req, broken>>

PruneFiles ==
  /\ Phases[phase] = "old" /\ pruning = "idle" /\ video.path # NoFile
  /\ files' = files \ {video.path} /\ pruning' = "files"
  /\ UNCHANGED <<phase, video, job, pc, req, overlapped, broken>>

PruneRows ==
  /\ pruning = "files"
  /\ video' = [video EXCEPT !.path = NoFile] /\ pruning' = "rows"
  /\ UNCHANGED <<phase, files, job, pc, req, overlapped, broken>>

Other == TimePasses \/ ListDone \/ MarkMissedLooks \/ MarkMissedWrites \/ PruneFiles \/ PruneRows

------------------------------------------------------------------------------
Undisturbed == ~overlapped /\ ~broken

\* Between uploads the row points to a file that is there, until the nightly
\* deletion (video-checkin.controller.ts:169-181), although the file changes
\* its name after the row is written and the old one goes before.
FileBehindRow ==
  Undisturbed /\ ~Uploading /\ pruning = "idle" =>
    video.path = NoFile \/ video.path \in files

\* After the nightly deletion (video-checkin.service.ts:594-623) no file of the
\* slot is left on the disk, in whatever formats the student resubmitted.
NothingLeftOnDisk == Undisturbed /\ pruning = "rows" => files = {}

Rank == [none |-> 0, missed |-> 1, late |-> 2, submitted |-> 3]

\* A student who was on time stays so, and one who submitted is not marked as
\* missed, while no write overtakes another (video-checkin.service.ts:174, 257).
StatusNeverFalls ==
  [][overlapped' \/ Rank[video'.status] >= Rank[video.status]]_<<video, overlapped>>
==============================================================================
