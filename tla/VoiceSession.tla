---------------------------- MODULE VoiceSession ----------------------------
(***************************************************************************)
(* The calls of the voice pages: what their handlers and the async         *)
(* functions they start do to voiceState.  A task is one run of            *)
(* startVoiceTestCall, submitVoiceTurn, handleVoiceIdleTimeout, or of      *)
(* startVoiceListening alone; between its awaits every handler may run.    *)
(* The test page greets its callers and notices silence; the pilot page    *)
(* does neither, keeps its connection, and its one button also interrupts. *)
(*                                                                         *)
(* A task waits for the microphone, for a reply to begin ("asked"), for    *)
(* its end ("playing"), to listen again ("resuming", "recogniser"), or is  *)
(* done.  Replies, the recogniser and its sockets, the caller and the      *)
(* clicks are the environment.                                             *)
(*                                                                         *)
(* Ducking that is not confirmed, subtitles and status lines are left out. *)
(***************************************************************************)
EXTENDS Integers, Sequences, FiniteSets

CONSTANTS Pages,      \* pages that may be open: "test" (voiceTestMode), "pilot"
          MaxCalls,   \* bound: calls
          MaxSpeech,  \* bound: times the caller starts to speak
          MaxClicks   \* bound: interruptions by the pilot page's button

ASSUME PagesAssumption ==
  /\ Pages \subseteq {"test", "pilot"}
  /\ MaxCalls \in Nat /\ MaxSpeech \in Nat /\ MaxClicks \in Nat

VARIABLES voice,    \* voiceState
          tasks,    \* the async functions started, in order
          sockets,  \* the recogniser's connections, in order
          hearing,  \* the recogniser is hearing speech
          used,     \* how much of the bounds is used up
          past       \* history: what went wrong, for the properties

vars == <<voice, tasks, sockets, hearing, used, past>>

Kinds == {"greeting", "turn", "check_in", "farewell", "listen"}
Phases == {"connecting", "loading", "ready", "closing", "closed"}

TypeOK ==
  /\ \A t \in DOMAIN tasks :
       tasks[t] \in [kind : Kinds, at : {"microphone", "starting", "asked", "playing", "resuming", "recogniser", "done"},
                     aborted : BOOLEAN, preserve : BOOLEAN, awaits : 0 .. Len(sockets)]
  /\ \A s \in DOMAIN sockets : sockets[s] \in [phase : Phases, settled : BOOLEAN]
  /\ voice \in [page : Pages, busy : BOOLEAN, microphone : BOOLEAN, continuous : BOOLEAN, listening : BOOLEAN, replying : BOOLEAN, idle : BOOLEAN,
                stage : 0 .. 1, controller : 0 .. Len(tasks), playing : 0 .. Len(tasks),
                armed : BOOLEAN, barge : BOOLEAN, endpoint : {"none", "noise", "stale", "question"},
                words : {"none", "noise", "stale", "question"},
                socket : 0 .. Len(sockets), promise : 0 .. Len(sockets), ready : BOOLEAN]
  /\ hearing \in BOOLEAN
  /\ used.calls <= MaxCalls /\ used.speech <= MaxSpeech /\ used.clicks <= MaxClicks
  /\ past.lost \subseteq {"playback ended", "noise", "click", "silence", "more speech"}
  /\ voice.ready => voice.socket # 0

Init ==
  /\ \E page \in Pages :
       voice = [page |-> page, busy |-> FALSE, microphone |-> FALSE, continuous |-> FALSE,
                listening |-> FALSE, replying |-> FALSE, idle |-> FALSE, stage |-> 0,
                controller |-> 0, playing |-> 0, armed |-> FALSE, barge |-> FALSE,
                endpoint |-> "none", words |-> "none", socket |-> 0, promise |-> 0, ready |-> FALSE]
  /\ tasks = <<>> /\ sockets = <<>> /\ hearing = FALSE
  /\ used = [calls |-> 0, speech |-> 0, clicks |-> 0]
  /\ past = [lost |-> {}, leftover |-> FALSE, unwatched |-> FALSE]

At(t, stage) == tasks[t].at = stage
Goes(t, stage) == [tasks EXCEPT ![t].at = stage]
NewTask(kind, stage, preserve) ==
  [kind |-> kind, at |-> stage, aborted |-> FALSE, preserve |-> preserve, awaits |-> 0]
Next1 == Len(tasks) + 1

\* What a task was is forgotten when it is done.
Finished(t) == [tasks EXCEPT ![t] = NewTask("listen", "done", FALSE)]

\* controller.abort()
Abort(ts) ==
  [t \in DOMAIN ts |-> IF t = voice.controller THEN [ts[t] EXCEPT !.aborted = TRUE] ELSE ts[t]]

Open(s) == s # 0 /\ sockets[s].phase \in {"loading", "ready"}
Closing(s) ==
  [i \in DOMAIN sockets |->
     IF i = s /\ sockets[i].phase # "closed" THEN [sockets[i] EXCEPT !.phase = "closing"] ELSE sockets[i]]

Disarmed(v) == [v EXCEPT !.armed = FALSE, !.barge = FALSE]

\* The timer of the test page only starts while the call listens and nothing is
\* played.
WithTimer(v) ==
  [v EXCEPT !.idle = v.page = "test" /\ v.continuous /\ v.listening /\ ~ v.replying]

Quiet ==
  Disarmed([voice EXCEPT !.busy = FALSE, !.idle = FALSE, !.endpoint = "none", !.stage = 0,
                         !.continuous = FALSE, !.listening = FALSE, !.replying = FALSE,
                         !.controller = 0, !.playing = 0])

\* Mutant: the connection is let go but still counts as ready.
StoppedStillReady == IF voice.page = "test" THEN [Quiet EXCEPT !.socket = 0] ELSE Quiet

\* stopVoiceSession: the pilot page keeps its connection, and only cancels what
\* the recogniser hears.
Stopped == IF voice.page = "test" THEN [Quiet EXCEPT !.socket = 0, !.ready = FALSE] ELSE Quiet
LetGo == IF voice.page = "test" THEN Closing(voice.socket) ELSE sockets

StopSession(ts) ==
  /\ voice' = Stopped
  /\ tasks' = Abort(ts)
  /\ sockets' = LetGo
  /\ hearing' = FALSE
  /\ past' = [past EXCEPT !.unwatched = FALSE]

Lost(cause) == IF voice.endpoint = "question" THEN past.lost \cup {cause} ELSE past.lost

\* What startVoiceListening does before its first await.
BeforeListening(v) == [v EXCEPT !.idle = FALSE, !.endpoint = "none"]

-----------------------------------------------------------------------------
(* Clicks *)

\* The call button of the test page is disabled while a call is busy.
Enabled == voice.page = "pilot" \/ ~ voice.busy

StartCall ==
  /\ Enabled /\ ~ voice.continuous /\ ~ voice.replying
  /\ used.calls < MaxCalls
  /\ IF voice.page = "test"
     THEN /\ voice' = [voice EXCEPT !.continuous = TRUE, !.busy = TRUE]
          /\ tasks' = Append(tasks, NewTask("greeting", IF voice.microphone THEN "starting"
                                                        ELSE "microphone", FALSE))
     ELSE /\ voice' = BeforeListening([voice EXCEPT !.continuous = TRUE])
          /\ tasks' = Append(tasks, NewTask("listen", IF voice.microphone THEN "resuming"
                                                      ELSE "microphone", FALSE))
  /\ used' = [used EXCEPT !.calls = @ + 1]
  /\ past' = [past EXCEPT !.leftover = @ \/ \E t \in DOMAIN tasks : ~ At(t, "done")]
  /\ UNCHANGED <<sockets, hearing>>

HangUp ==
  /\ \/ voice.page = "test" /\ voice.busy
     \/ Enabled /\ voice.continuous /\ ~ voice.replying
  /\ StopSession(tasks)
  /\ UNCHANGED used

\* The call button while there is a reply: stop it and listen.
Interrupt ==
  /\ Enabled /\ voice.replying /\ used.clicks < MaxClicks
  /\ voice' = BeforeListening(Disarmed([voice EXCEPT !.playing = 0, !.replying = FALSE,
                                                     !.continuous = TRUE]))
  /\ tasks' = Append(Abort(tasks), NewTask("listen", "resuming", FALSE))
  /\ used' = [used EXCEPT !.clicks = @ + 1]
  /\ past' = [past EXCEPT !.lost = Lost("click")]
  /\ UNCHANGED <<sockets, hearing>>

-----------------------------------------------------------------------------
(* A call begins *)

\* The finally of startVoiceTestCall clears whatever is there.
GreetingOver(v) == [v EXCEPT !.replying = FALSE, !.controller = 0]

\* ensureMicrophone: only the first time something has to be waited for.
MicrophoneReady(t) ==
  /\ At(t, "microphone") \/ At(t, "starting")
  /\ LET v == [voice EXCEPT !.microphone = TRUE]
     IN  IF tasks[t].kind = "listen" THEN voice' = v /\ tasks' = Goes(t, "resuming")
         ELSE IF voice.continuous
         THEN /\ voice' = [v EXCEPT !.controller = t, !.replying = TRUE]
              /\ tasks' = Goes(t, "asked")
         ELSE voice' = GreetingOver(v) /\ tasks' = Finished(t)
  /\ UNCHANGED <<sockets, hearing, used, past>>

MicrophoneFails(t) ==
  /\ At(t, "microphone")
  /\ StopSession(Finished(t))
  /\ UNCHANGED used

-----------------------------------------------------------------------------
(* Replies *)

\* The reply to a turn is an answer, which may be interrupted, or a farewell.
Plays(t) ==
  /\ At(t, "asked") /\ ~ tasks[t].aborted
  /\ \E kind \in IF tasks[t].kind = "turn" THEN {"turn", "farewell"} ELSE {tasks[t].kind} :
       /\ voice' = [voice EXCEPT !.playing = t, !.busy = voice.page = "test",
                                 !.armed = @ \/ kind = "turn", !.barge = @ /\ kind # "turn"]
       /\ tasks' = [tasks EXCEPT ![t].at = "playing", ![t].kind = kind]
  /\ UNCHANGED <<sockets, hearing, used, past>>

\* The finally of playVoiceResponse.
PlaybackOver(v, t) ==
  LET w == IF v.playing = t THEN [v EXCEPT !.playing = 0] ELSE v
  IN  IF w.listening THEN w ELSE Disarmed(w)

\* Mutant: a task clears what belongs to another one.
OverAnyhow(v, t) == GreetingOver(v)

\* The finally of a task that replied.
Over(v, t) ==
  IF tasks[t].kind = "greeting" \/ v.controller = t THEN GreetingOver(v) ELSE v

\* The reply was played, or its text shown and the audio failed.  The greeting
\* listens before its finally, the other tasks after it.
ReplyEnds(t) ==
  /\ At(t, "playing") /\ ~ tasks[t].aborted /\ tasks[t].kind # "farewell"
  /\ LET v == PlaybackOver(voice, t)
         w == IF tasks[t].kind = "greeting" THEN v ELSE Over(v, t)
     IN  IF w.continuous
         THEN /\ voice' = BeforeListening(w)
              /\ tasks' = Goes(t, "resuming")
              /\ past' = [past EXCEPT !.lost = Lost("playback ended")]
         ELSE /\ voice' = Over(w, t)
              /\ tasks' = Finished(t)
              /\ UNCHANGED past
  /\ UNCHANGED <<sockets, hearing, used>>

\* Nothing to show came, or a prompt failed; or the farewell was played.
ReplyEndsCall(t) ==
  /\ ~ tasks[t].aborted
  /\ \/ At(t, "asked")
     \/ At(t, "playing") /\ tasks[t].kind # "turn"
  /\ StopSession(Finished(t))
  /\ UNCHANGED used

\* An aborted reply unwinds; it may be the last words of a farewell that stop.
Unwinds(t) ==
  /\ At(t, "asked") \/ At(t, "playing")
  /\ tasks[t].aborted
  /\ voice' = Over(IF At(t, "playing") THEN PlaybackOver(voice, t) ELSE voice, t)
  /\ tasks' = Finished(t)
  /\ UNCHANGED <<sockets, hearing, used, past>>

FarewellWasOver(t) ==
  /\ At(t, "playing") /\ tasks[t].aborted /\ tasks[t].kind = "farewell"
  /\ StopSession(Finished(t))
  /\ UNCHANGED used

-----------------------------------------------------------------------------
(* Listening *)

\* ensureRealtimeAsr: the connection there is, the one under way, or a new one.
EnsureRecogniser(t) ==
  /\ At(t, "resuming")
  /\ LET usable == Open(voice.socket) /\ voice.ready
         closed == Open(voice.socket) /\ ~ voice.ready
         opens == ~ usable /\ voice.promise = 0
         new == Len(sockets) + 1
         remaining == IF closed THEN Closing(voice.socket) ELSE sockets
     IN  /\ tasks' = [tasks EXCEPT ![t].at = "recogniser",
                                   ![t].awaits = IF usable THEN 0
                                                 ELSE IF opens THEN new ELSE voice.promise]
         /\ sockets' = IF opens THEN Append(remaining, [phase |-> "connecting", settled |-> FALSE])
                       ELSE remaining
         /\ voice' = IF opens THEN [voice EXCEPT !.socket = new, !.promise = new, !.ready = FALSE]
                     ELSE IF closed THEN [voice EXCEPT !.socket = 0, !.ready = FALSE, !.endpoint = "none"]
                     ELSE voice
         /\ past' = [past EXCEPT !.lost = IF closed THEN Lost("click") ELSE @]
         /\ hearing' = (hearing /\ ~ closed)
  /\ UNCHANGED used

\* Mutant: the words of the last question stay.
ListeningWithOldWords(t) ==
  [voice EXCEPT !.stage = IF tasks[t].preserve THEN @ ELSE 0,
                !.armed = FALSE, !.barge = FALSE, !.listening = TRUE]

ListeningAgain(t) ==
  [voice EXCEPT !.stage = IF tasks[t].preserve THEN @ ELSE 0,
                !.armed = FALSE, !.barge = FALSE, !.words = "none", !.listening = TRUE]

Listens(t) ==
  /\ At(t, "recogniser")
  /\ tasks[t].awaits # 0 => sockets[tasks[t].awaits].settled
  /\ LET v == IF voice.continuous THEN WithTimer(ListeningAgain(t)) ELSE voice
     IN  /\ voice' = IF tasks[t].kind = "greeting" THEN GreetingOver(v) ELSE v
         /\ past' = [past EXCEPT !.unwatched = voice.continuous /\ tasks[t].kind = "greeting",
                                 !.lost = IF voice.continuous /\ voice.words = "question"
                                               /\ voice.endpoint = "none"
                                          THEN @ \cup {"playback ended"} ELSE @]
  /\ tasks' = Finished(t)
  /\ UNCHANGED <<sockets, hearing, used>>

ListenFails(t) ==
  /\ At(t, "recogniser") /\ tasks[t].awaits # 0
  /\ sockets[tasks[t].awaits].phase = "closed" /\ ~ sockets[tasks[t].awaits].settled
  /\ StopSession(Finished(t))
  /\ UNCHANGED used

SocketOpens(s) ==
  /\ sockets[s].phase = "connecting"
  /\ sockets' = [sockets EXCEPT ![s].phase = "loading"]
  /\ UNCHANGED <<voice, tasks, hearing, used, past>>

RecogniserReady(s) ==
  /\ sockets[s].phase = "loading"
  /\ sockets' = [sockets EXCEPT ![s].phase = "ready", ![s].settled = TRUE]
  /\ voice' = [voice EXCEPT !.ready = TRUE, !.promise = 0]
  /\ UNCHANGED <<tasks, hearing, used, past>>

\* onclose of a connection that was closed, refused, timed out or dropped: it
\* clears the state of whatever connection there is by then.
SocketCloses(s) ==
  /\ sockets[s].phase # "closed"
  /\ IF sockets[s].settled /\ voice.continuous
     THEN /\ voice' = [Stopped EXCEPT !.promise = 0, !.ready = FALSE]
          /\ tasks' = Abort(tasks)
          /\ sockets' = [LetGo EXCEPT ![s].phase = "closed"]
          /\ hearing' = FALSE
          /\ past' = [past EXCEPT !.unwatched = FALSE]
     ELSE /\ voice' = [voice EXCEPT !.ready = FALSE, !.promise = 0]
          /\ sockets' = [sockets EXCEPT ![s].phase = "closed"]
          /\ hearing' = (hearing /\ s # voice.socket)
          /\ UNCHANGED <<tasks, past>>
  /\ UNCHANGED used

-----------------------------------------------------------------------------
(* What the recogniser hears *)

\* It is sent audio while the page listens, or may be interrupted.
Connected == voice.socket # 0 /\ sockets[voice.socket].phase = "ready"
Interruptible == voice.armed /\ voice.replying /\ voice.playing # 0

\* mergeAsrTranscripts, by what the result is taken for: "stale" words are those
\* of the question submitted before, which nothing clears until the page
\* listens again.
Merged(first, second) ==
  CASE "question" \in {first, second} -> "question"
    [] "stale" \in {first, second} -> "stale"
    [] "noise" \in {first, second} -> "noise"
    [] OTHER -> "none"

\* What was heard so far: an utterance that is about to be submitted goes on.
HeardBefore == IF voice.endpoint # "none" THEN voice.endpoint ELSE voice.words

\* The caller speaks: the timer stops.  A delta is added to what was heard
\* before, and so is a partial transcript that is the first to resume an
\* utterance; any other partial transcript replaces it, also when it was a
\* speech_start that resumed.
Speaks ==
  /\ Connected /\ (voice.listening \/ Interruptible)
  /\ hearing => voice.idle
  /\ used.speech < MaxSpeech \/ hearing
  /\ hearing' = TRUE
  /\ used' = IF hearing THEN used ELSE [used EXCEPT !.speech = @ + 1]
  /\ \E words \in {HeardBefore, "none"} :
       /\ voice' = [voice EXCEPT !.idle = FALSE, !.endpoint = "none", !.words = words]
       /\ past' = [past EXCEPT !.unwatched = FALSE,
                               !.lost = IF words = "none" THEN Lost("more speech") ELSE @]
  /\ UNCHANGED <<tasks, sockets>>

\* onConfirm: the reply is turned down until it is clear what was said.
BargeIn ==
  /\ Connected /\ hearing /\ Interruptible /\ ~ voice.listening
  /\ voice' = [voice EXCEPT !.barge = TRUE, !.listening = TRUE, !.armed = FALSE]
  /\ UNCHANGED <<tasks, sockets, hearing, used, past>>

\* Mutant: noise restarts the timer over an utterance about to be submitted.
AfterNoiseAlways == WithTimer([voice EXCEPT !.words = "none"])

\* Mutant: after noise nobody waits any more.
AfterNoiseNoTimer ==
  IF voice.endpoint # "none" THEN voice ELSE [voice EXCEPT !.words = "none"]

AfterNoise ==
  IF voice.endpoint # "none" THEN voice ELSE WithTimer([voice EXCEPT !.words = "none"])

\* A noise is rejected after it was taken for speech, or while an utterance is
\* about to be submitted without ever having been.
Noise ==
  /\ Connected /\ (hearing \/ voice.endpoint # "none")
  /\ hearing' = FALSE
  /\ voice' = AfterNoise
  /\ past' = [past EXCEPT !.lost = IF voice.endpoint = "none" /\ voice.words = "question"
                                   THEN @ \cup {"noise"} ELSE @]
  /\ UNCHANGED <<tasks, sockets, used>>

\* Mutant: the timer of a silence goes on while an utterance waits.
UtteranceEndsTimerOn(kind) ==
  /\ Connected /\ hearing
  /\ hearing' = FALSE
  /\ voice' = IF voice.listening
              THEN [voice EXCEPT !.words = Merged(voice.words, kind),
                                 !.endpoint = Merged(Merged(voice.endpoint, voice.words), kind)]
              ELSE voice
  /\ UNCHANGED <<tasks, sockets, used, past>>

\* Nothing is made of it unless the page listens.
UtteranceEnds(kind) ==
  /\ Connected /\ hearing
  /\ hearing' = FALSE
  /\ voice' = IF voice.listening
              THEN [voice EXCEPT !.idle = FALSE, !.words = Merged(voice.words, kind),
                                 !.endpoint = Merged(Merged(voice.endpoint, voice.words), kind)]
              ELSE voice
  /\ UNCHANGED <<tasks, sockets, used, past>>

\* The recogniser reports an error, maybe while it loads.
RecogniserFails ==
  /\ Open(voice.socket)
  /\ StopSession(tasks)
  /\ UNCHANGED used

-----------------------------------------------------------------------------
(* Timers *)

\* finalizeRealtimeTranscript of what is no question.
Ignored(v) ==
  IF v.replying /\ v.playing # 0 /\ v.barge
  THEN /\ voice' = [v EXCEPT !.barge = FALSE, !.armed = TRUE, !.words = "none"]
       /\ UNCHANGED tasks
  ELSE IF v.continuous
  THEN /\ voice' = BeforeListening([v EXCEPT !.words = "none"])
       /\ tasks' = Append(tasks, NewTask("listen", "resuming", TRUE))
  ELSE voice' = [v EXCEPT !.words = "none"] /\ UNCHANGED tasks

\* A question: the reply it interrupts is stopped, and it is submitted.
Submitted(v) ==
  LET commits == v.barge /\ v.playing # 0
  IN  /\ voice' = [v EXCEPT !.playing = IF commits THEN 0 ELSE @, !.barge = @ /\ ~ commits,
                            !.stage = 0, !.replying = TRUE, !.controller = Next1]
      /\ tasks' = Append(IF commits THEN Abort(tasks) ELSE tasks, NewTask("turn", "asked", FALSE))

EndpointTimer ==
  /\ voice.endpoint # "none"
  /\ LET v == [voice EXCEPT !.idle = FALSE, !.endpoint = "none", !.listening = FALSE]
     IN  IF voice.endpoint = "noise" THEN Ignored(v) ELSE Submitted([v EXCEPT !.words = "stale"])
  /\ UNCHANGED <<sockets, hearing, used, past>>

IdleTimer ==
  /\ voice.idle
  /\ IF voice.continuous /\ voice.listening /\ ~ voice.replying
     THEN /\ voice' = [voice EXCEPT !.idle = FALSE, !.stage = 1, !.endpoint = "none", !.listening = FALSE,
                                    !.replying = TRUE, !.controller = Next1]
          /\ tasks' = Append(tasks, NewTask(IF voice.stage = 0 THEN "check_in" ELSE "farewell",
                                            "asked", TRUE))
          /\ past' = [past EXCEPT !.lost = Lost("silence")]
     ELSE /\ voice' = [voice EXCEPT !.idle = FALSE]
          /\ UNCHANGED <<tasks, past>>
  /\ UNCHANGED <<sockets, hearing, used>>

-----------------------------------------------------------------------------
\* Continuations of promises that are settled, and of resume() on an audio
\* context that runs, come before any other event.
Settled(t) ==
  \/ At(t, "starting") \/ At(t, "resuming")
  \/ At(t, "recogniser") /\ (tasks[t].awaits # 0 => \/ sockets[tasks[t].awaits].settled
                                                    \/ sockets[tasks[t].awaits].phase = "closed")
  \/ At(t, "asked") /\ tasks[t].aborted

Microtask ==
  \E t \in DOMAIN tasks :
    Settled(t) /\ (MicrophoneReady(t) \/ EnsureRecogniser(t) \/ Listens(t) \/ ListenFails(t) \/ Unwinds(t))

NoMicrotask == \A t \in DOMAIN tasks : ~ Settled(t)

Clicks == StartCall \/ HangUp \/ Interrupt

\* What goes on by itself.
Proceeds ==
  \/ \E t \in DOMAIN tasks :
       MicrophoneReady(t) \/ Plays(t) \/ ReplyEnds(t) \/ ReplyEndsCall(t) \/ Unwinds(t)
  \/ \E s \in DOMAIN sockets : SocketOpens(s) \/ RecogniserReady(s)
  \/ EndpointTimer \/ IdleTimer

Answers == Noise \/ \E kind \in {"noise", "question"} : UtteranceEnds(kind)

Fails ==
  \/ \E t \in DOMAIN tasks : MicrophoneFails(t) \/ FarewellWasOver(t)
  \/ \E s \in DOMAIN sockets : SocketCloses(s)
  \/ RecogniserFails

Next ==
  \/ Microtask
  \/ NoMicrotask /\ (Clicks \/ Proceeds \/ Answers \/ Speaks \/ BargeIn \/ Fails)

Spec == Init /\ [][Next]_vars

\* Awaits, timers and close events are served, and the recogniser closes every
\* utterance it has begun.  Nobody has to click or to speak.
FairSpec ==
  /\ Spec
  /\ WF_vars(Microtask \/ (NoMicrotask /\ Proceeds)) /\ WF_vars(NoMicrotask /\ Answers)
  /\ WF_vars(NoMicrotask /\ \E s \in DOMAIN sockets : sockets[s].phase = "closing" /\ SocketCloses(s))

-----------------------------------------------------------------------------
(* Properties *)

Replying(t) == tasks[t].at \in {"asked", "playing"} /\ ~ tasks[t].aborted
Orderly == ~ past.leftover
Resuming == \E t \in DOMAIN tasks : tasks[t].at \in {"resuming", "recogniser"}

(* Every reply under way is the one whose controller the page keeps, so     *)
(* hanging up, clicking and talking over it stop it (pilot.js 726, 990,     *)
(* 1290, 1353, 1409).  Not so when a call was begun before the functions of *)
(* the last one were over: the greeting's finally (1398-1400) then clears   *)
(* the controller of another reply.                                         *)
OneReply == \A t \in DOMAIN tasks : Orderly /\ Replying(t) => voice.controller = t

(* The timer of a silence (153-167) never runs while something is said or   *)
(* about to be submitted, and never outlives its call: every path that      *)
(* leaves listening clears it.                                              *)
TimerOnlyInSilence ==
  Orderly /\ voice.idle => voice.continuous /\ voice.listening /\ ~ voice.replying /\ voice.endpoint = "none"

(* A silence is noticed wherever a test call listens (ADR-0006:35), whatever *)
(* noise, interruption or prompt came before; except the one right after     *)
(* the greeting, where the timer is asked for (977) while startVoiceTestCall *)
(* still counts as replying (1384, 1399).                                    *)
SilenceIsNoticed ==
  /\ Orderly /\ voice.page = "test" /\ voice.continuous /\ voice.listening /\ ~ voice.replying
  /\ ~ hearing /\ voice.endpoint = "none"
  => voice.idle \/ Resuming \/ past.unwatched

(* Words of the question submitted before, which 969 clears only when the   *)
(* page listens again, can come back only when its reply is talked over.    *)
(* In an orderly session, that is: a listening left over from another call  *)
(* can let the page listen, and the words be taken up, during a reply.      *)
StaleWordsNeedBargeIn == Orderly /\ voice.endpoint = "stale" => voice.barge

(* A finished question that waits for its grace period (779-799) is never   *)
(* dropped because the caller is silent meanwhile (1251), whatever calls    *)
(* overlap.  Other events do drop it: the end of the playback it interrupts *)
(* (959), a click (959), a noise taken for more of it (865), and more       *)
(* speech whose start is reported before its words (848, 822).              *)
QuestionNotLostToSilence == "silence" \notin past.lost

(* A test call nobody speaks in any more ends: the check-in and then  *)
(* the farewell are played, and the farewell hangs up (1239-1300, 869);     *)
(* except, again, in the silence right after the greeting.                  *)
QuietCallEnds == (voice.page = "test" /\ voice.continuous) ~> (~ voice.continuous \/ past.unwatched)
=============================================================================
