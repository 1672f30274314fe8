----------------------------- MODULE MCBranchDay -----------------------------
(* Bounds for BranchDay: two overlapping requests, two people for a task,    *)
(* one text, two groups with two mentors and one student, two video formats, *)
(* two lessons and four calls on them, four days, three teams and three      *)
(* contests, two chats, four messages with a limit of two a day and a        *)
(* warning at every second rejection, two requests for erasure, three events *)
(* and a job that takes two a night, two recognisers and two open calls of a *)
(* page with an exam of two questions.  Nearly every property speaks of      *)
(* behaviours in which no request was overtaken and the page was not         *)
(* disturbed, so a state where that happened is checked but not continued;   *)
(* nor is one where a count of messages failed, after which only warnings    *)
(* are spoken of, and these come about without such a failure too.           *)
EXTENDS BranchDay, TLC

NotOvertaken == ~overlapped /\ ~disturbed /\ ~lapsed
Interchangeable == Permutations(Requests) \union Permutations(Teams) \union Permutations(Rooms)
==============================================================================
