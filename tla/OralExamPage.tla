---------------------------- MODULE OralExamPage ----------------------------
(***************************************************************************)
(* The page on which a student speaks an oral exam (OralExamRunner.tsx,    *)
(* and listen() of lib/speech.ts), against the server it talks to.  A      *)
(* question is spoken by the browser, the student records an answer, sees  *)
(* it as text and sends it.  What happens comes from five sides: taps,     *)
(* events of the speech recogniser, events of the speech output, a timer   *)
(* that ends a recording after a silence, and the answers of the server,   *)
(* each in its own time.                                                   *)
(*                                                                         *)
(* A handler of React sees the state of the render it was made in.  A tap  *)
(* is handled by the latest render; recogniser and timer call the          *)
(* functions of the render in which the recording was started, so every    *)
(* recogniser carries what was heard by then.  Texts are abstracted to     *)
(* whether there is one.  An Uzbek exam has one dialect to listen in; its  *)
(* behaviours are among those with two.  The browser is one that speaks.   *)
(***************************************************************************)
EXTENDS Naturals

CONSTANTS
  Ears,          \* bound: recognisers that have not ended at the same time
  Posts,         \* bound: calls of the server that are open at the same time
  QuestionCount, \* questionCount of the exam
  MaxTurns,      \* bound: answers at the server
  Nobody         \* no recogniser

VARIABLES
  view,       \* phase, or start and starting before the exam is begun
  heard,      \* studentAnswer and interim: is there a text
  ears,       \* the recognisers
  handle,     \* listenHandleRef: the recogniser started last
  timer,      \* the recogniser that set the silence timer
  speech,     \* the speech output; aiSpeaking while it speaks
  count,      \* answeredCount
  shown,      \* finalResult is there
  posts,      \* the open calls
  turns,      \* the server: answers in the transcript
  graded,     \* the server: the session is completed
  disturbed   \* history: an open call was given up, or a recogniser failed
              \* after its recording

mic == <<heard, ears, handle, timer>>
page == <<view, mic, speech, count, shown>>
vars == <<page, posts, turns, graded, disturbed>>

Nothing == [answer |-> FALSE, interim |-> FALSE]
Off == [step |-> "off", seen |-> Nothing, more |-> FALSE]
NoPost == [kind |-> "none", at |-> "none", turn |-> 0, final |-> FALSE, heeded |-> FALSE]

Opened ==
  /\ view = "start" /\ heard = Nothing /\ count = 0 /\ shown = FALSE
  /\ ears = [e \in Ears |-> Off] /\ handle = Nobody /\ timer = Nobody
  /\ speech = "none"
  /\ posts = [c \in Posts |-> NoPost]
  /\ turns = 0 /\ graded = FALSE /\ disturbed = FALSE

------------------------------------------------------------------------------
(* Calls.                                                                  *)

Sent(kind) ==
  [kind |-> kind, at |-> "sent", turn |-> 0, final |-> FALSE, heeded |-> TRUE]

\* One of the calls that are alike is the next one.
Post(kind) ==
  \E c \in Posts : posts[c] = NoPost /\ posts' = [posts EXCEPT ![c] = Sent(kind)]

\* What the page makes of a call that failed: submitAnswer lets the student
\* try again, forceFinalize is ready to be forced again.
ViewAfterError(kind) ==
  CASE kind = "start" -> "start" [] kind = "respond" -> "review" [] kind = "finalize" -> "ready"

Begin ==
  /\ view = "start" /\ ~shown
  /\ view' = "starting" /\ Post("start")
  /\ UNCHANGED <<mic, speech, count, shown, turns, graded, disturbed>>

\* The answer of the server; nobody waits for that of a call given up.
Answer(c, at, turn, final) ==
  posts' = [posts EXCEPT ![c] =
              IF @.heeded THEN [@ EXCEPT !.at = at, !.turn = turn, !.final = final] ELSE NoPost]

\* OralExamService.start: the active session is resumed, or a new one made.
ServeStart(c) ==
  /\ posts[c].kind = "start" /\ posts[c].at = "sent"
  /\ IF graded THEN Answer(c, "failed", 0, FALSE) ELSE Answer(c, "answered", turns, FALSE)
  /\ UNCHANGED <<page, turns, graded, disturbed>>

\* respond reads the transcript, ...
ServeRespond(c) ==
  /\ posts[c].kind = "respond" /\ posts[c].at = "sent"
  /\ IF graded THEN Answer(c, "failed", 0, FALSE)
     ELSE /\ turns < MaxTurns
          /\ posts' = [posts EXCEPT ![c].at = "asking", ![c].turn = turns + 1]
  /\ UNCHANGED <<page, turns, graded, disturbed>>

\* ... asks the model, which goes on or grades, and writes the transcript back.
RespondAnswers(c) ==
  /\ posts[c].kind = "respond" /\ posts[c].at = "asking"
  /\ turns' = posts[c].turn
  /\ \E final \in BOOLEAN :
       /\ Answer(c, "answered", posts[c].turn, final)
       /\ graded' = (graded \/ final)
  /\ UNCHANGED <<page, disturbed>>

\* finalize returns the result there is, or asks for one; a missing score
\* becomes the threshold.
ServeFinalize(c) ==
  /\ posts[c].kind = "finalize"
  /\ \/ /\ posts[c].at = "sent" /\ graded
        /\ Answer(c, "answered", turns, TRUE) /\ UNCHANGED <<turns, graded>>
     \/ /\ posts[c].at = "sent" /\ ~graded
        /\ posts' = [posts EXCEPT ![c].at = "asking", ![c].turn = turns]
        /\ UNCHANGED <<turns, graded>>
     \/ /\ posts[c].at = "asking"
        /\ turns' = posts[c].turn /\ graded' = TRUE
        /\ Answer(c, "answered", posts[c].turn, TRUE)
  /\ UNCHANGED <<page, disturbed>>

\* The model or the database fails before anything is written.
ServerFails(c) ==
  /\ posts[c].at \in {"sent", "asking"}
  /\ Answer(c, "failed", 0, FALSE)
  /\ UNCHANGED <<page, turns, graded, disturbed>>

\* beginExam, submitAnswer or forceFinalize goes on with the answer: count and
\* question are those of the server, a final answer is the result; the page
\* stays in its phase until the browser starts to speak.
Receive(c) ==
  /\ posts[c].at = "answered"
  /\ view' = IF posts[c].kind = "start" THEN "listening" ELSE view
  /\ count' = IF posts[c].kind = "finalize" THEN count
              ELSE IF posts[c].final THEN count + 1 ELSE posts[c].turn
  /\ heard' = [heard EXCEPT !.answer = posts[c].kind # "respond" /\ @]
  /\ shown' = (shown \/ posts[c].final)
  /\ speech' = "queued"
  /\ posts' = [posts EXCEPT ![c] = NoPost]
  /\ UNCHANGED <<ears, handle, timer, turns, graded, disturbed>>

\* Faulty variant: the answer is counted although it was not taken.
ReceiveErrorCounts(c) ==
  /\ posts[c].at = "failed"
  /\ view' = ViewAfterError(posts[c].kind)
  /\ count' = IF posts[c].kind = "respond" THEN count + 1 ELSE count
  /\ posts' = [posts EXCEPT ![c] = NoPost]
  /\ UNCHANGED <<mic, speech, shown, turns, graded, disturbed>>

ReceiveError(c) ==
  /\ posts[c].at = "failed"
  /\ view' = ViewAfterError(posts[c].kind)
  /\ posts' = [posts EXCEPT ![c] = NoPost]
  /\ UNCHANGED <<mic, speech, count, shown, turns, graded, disturbed>>

\* The connection breaks: the page has an error, the server may still serve.
Break(c) ==
  /\ posts[c].heeded /\ posts[c].at \in {"sent", "asking", "answered"}
  /\ view' = ViewAfterError(posts[c].kind)
  /\ posts' = [posts EXCEPT ![c] = IF @.at = "answered" THEN NoPost
                                   ELSE [@ EXCEPT !.heeded = FALSE]]
  /\ disturbed' = TRUE
  /\ UNCHANGED <<mic, speech, count, shown, turns, graded>>

Call(c) ==
  \/ ServeStart(c) \/ ServeRespond(c) \/ RespondAnswers(c) \/ ServeFinalize(c) \/ ServerFails(c)
  \/ Receive(c) \/ ReceiveError(c) \/ Break(c)

------------------------------------------------------------------------------
(* Speech output: the events of the utterance speakAi made last.           *)

\* onstart takes the page to listening from wherever it is.
SpeechStarts ==
  /\ speech = "queued" /\ ~shown
  /\ speech' = "speaking" /\ view' = "listening"
  /\ UNCHANGED <<mic, count, shown, posts, turns, graded, disturbed>>

\* onend, or onerror, before or after the start.
SpeechEnds ==
  /\ speech # "none" /\ ~shown
  /\ speech' = "none"
  /\ view' = IF view = "listening" THEN "ready" ELSE view
  /\ UNCHANGED <<mic, count, shown, posts, turns, graded, disturbed>>

------------------------------------------------------------------------------
(* The microphone.                                                         *)

\* Faulty variant: one question more than agreed.
DueLate ==
  view = "ready" /\ ~shown /\ speech # "speaking" /\ count > QuestionCount

\* The condition of the effect that forces a verdict.  React runs it before
\* it handles the next tap.
Due ==
  view = "ready" /\ ~shown /\ speech # "speaking" /\ count >= QuestionCount

ForceFinalize ==
  /\ Due
  /\ view' = "finalizing" /\ Post("finalize")
  /\ UNCHANGED <<mic, speech, count, shown, turns, graded, disturbed>>

\* startMic: recogniser and timer keep the state of this render.
StartMic(e) ==
  /\ view = "ready" /\ ~shown /\ speech # "speaking" /\ ~Due
  /\ ears[e].step = "off"
  /\ ears' = [ears EXCEPT ![e] = [step |-> "on", seen |-> heard, more |-> TRUE]]
  /\ heard' = Nothing /\ handle' = e /\ timer' = e
  /\ view' = "recording"
  /\ UNCHANGED <<speech, count, shown, posts, turns, graded, disturbed>>

\* onInterim and onResult; a recogniser that was stopped may still have some.
Hears(e) ==
  /\ ears[e].step \in {"on", "stopping"} /\ ~shown
  /\ heard' \in {[heard EXCEPT !.interim = TRUE], [answer |-> TRUE, interim |-> FALSE]}
  /\ timer' = e
  /\ UNCHANGED <<view, ears, handle, speech, count, shown, posts, turns, graded, disturbed>>

\* onend: the timer is cleared, whoever set it.
Ends(e) ==
  /\ ears[e].step # "off" /\ ~shown
  /\ ears' = [ears EXCEPT ![e] = Off]
  /\ timer' = Nobody
  /\ UNCHANGED <<view, heard, handle, speech, count, shown, posts, turns, graded, disturbed>>

Late(e) == view # "recording" \/ handle # e

\* onError, after which only onend is to come: the page is ready again,
\* whatever it was doing.  (no-speech is ignored, and is Ends.)
Fails(e) ==
  /\ ears[e].step \in {"on", "stopping"} /\ ~shown
  /\ ears' = [ears EXCEPT ![e].step = "failed"]
  /\ view' = "ready"
  /\ disturbed' = (disturbed \/ Late(e))
  /\ UNCHANGED <<heard, handle, timer, speech, count, shown, posts, turns, graded>>

\* onError of the first dialect: the second is tried, whatever the page is
\* doing.
FallsBack(e, other) ==
  /\ ears[e].step \in {"on", "stopping"} /\ ears[e].more /\ ~shown
  /\ ears[other].step = "off"
  /\ ears' = [ears EXCEPT ![e].step = "failed",
                          ![other] = [step |-> "on", seen |-> ears[e].seen, more |-> FALSE]]
  /\ handle' = other
  /\ disturbed' = (disturbed \/ Late(e))
  /\ UNCHANGED <<view, heard, timer, speech, count, shown, posts, turns, graded>>

\* Faulty variant: the recogniser is left on.
StopMicOnly(seen) ==
  /\ timer' = Nobody
  /\ view' = IF view # "recording" THEN view
             ELSE IF seen.answer \/ seen.interim THEN "review" ELSE "ready"
  /\ heard' = [answer  |-> heard.answer \/ (view = "recording" /\ ~seen.answer /\ seen.interim),
               interim |-> FALSE]
  /\ UNCHANGED <<ears, handle, speech, count, shown, posts, turns, graded, disturbed>>

\* stopMic, as the render sees it in which `seen' was heard.
StopMic(seen) ==
  /\ timer' = Nobody
  /\ ears' = [e \in Ears |-> IF e = handle /\ ears[e].step = "on"
                             THEN [ears[e] EXCEPT !.step = "stopping"] ELSE ears[e]]
  /\ view' = IF view # "recording" THEN view
             ELSE IF seen.answer \/ seen.interim THEN "review" ELSE "ready"
  /\ heard' = [answer  |-> heard.answer \/ (view = "recording" /\ ~seen.answer /\ seen.interim),
               interim |-> FALSE]
  /\ UNCHANGED <<handle, speech, count, shown, posts, turns, graded, disturbed>>

\* The timer calls stopMic of the render in which the recording was started.
Silence == timer # Nobody /\ ~shown /\ StopMic(ears[timer].seen)

\* The button calls stopMic of the latest render.
TapStop == view = "recording" /\ ~shown /\ StopMic(heard)

Retry ==
  /\ view = "review" /\ ~shown
  /\ view' = "ready" /\ heard' = Nothing
  /\ UNCHANGED <<ears, handle, timer, speech, count, shown, posts, turns, graded, disturbed>>

Submit ==
  /\ view = "review" /\ ~shown /\ heard.answer
  /\ view' = "submitting" /\ Post("respond")
  /\ UNCHANGED <<mic, speech, count, shown, turns, graded, disturbed>>

\* The page is opened again: a result that is there is shown at once.
Reload ==
  /\ view' = "start" /\ heard' = Nothing /\ count' = 0 /\ shown' = graded
  /\ ears' = [e \in Ears |-> Off] /\ handle' = Nobody /\ timer' = Nobody
  /\ speech' = "none"
  /\ posts' = [c \in Posts |-> IF posts[c].at \in {"sent", "asking"}
                               THEN [posts[c] EXCEPT !.heeded = FALSE] ELSE NoPost]
  /\ disturbed' = (disturbed \/ \E c \in Posts :
                     posts[c].kind = "respond" /\ posts[c].at \in {"sent", "asking"})
  /\ UNCHANGED <<turns, graded>>

Listening == \E e \in Ears :
  StartMic(e) \/ Hears(e) \/ Ends(e) \/ Fails(e) \/ \E other \in Ears : FallsBack(e, other)

Next ==
  \/ Begin \/ \E c \in Posts : Call(c)
  \/ SpeechStarts \/ SpeechEnds
  \/ ForceFinalize \/ Listening \/ Silence \/ TapStop \/ Retry \/ Submit
  \/ Reload

Spec == Opened /\ [][Next]_vars

------------------------------------------------------------------------------
(* Properties.                                                             *)

Conversing == view \notin {"start", "starting"} /\ ~shown

\* The number of answers the page goes by is that of the server, and is
\* behind by the one that is under way at most: by it the page decides that
\* the exam is over (submitAnswer, beginExam).
CountAgrees ==
  Conversing /\ ~disturbed =>
    \/ turns = count
    \/ turns = count + 1 /\ \E c \in Posts : posts[c].kind = "respond"

\* No answer is asked for beyond the agreed number, also when the model does
\* not grade at the last one, a verdict fails, or the page is opened again
\* (the effect that calls forceFinalize).
BudgetKept == ~disturbed => turns <= QuestionCount

\* The browser does not listen to its own voice.
EarsShutWhileSpeaking ==
  ~disturbed /\ speech = "speaking" /\ ~shown => \A e \in Ears : ears[e].step # "on"

\* A result is shown only when the server has graded.
ResultIsServers == shown => graded

\* A silence shows the student what was heard (comment in stopMic: "Move to
\* review if we captured anything; otherwise back to ready").
SilenceShowsAnswer ==
  [][Silence /\ view = "recording" /\ heard # Nothing => view' = "review"]_vars
=============================================================================
