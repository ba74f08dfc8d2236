------------------------- MODULE VoiceSessionProofs -------------------------
(***************************************************************************)
(* Proofs about the calls of the voice pages, for any number of calls, of  *)
(* words and of interruptions.                                             *)
(***************************************************************************)
EXTENDS VoiceSession, SequenceTheorems, TLAPS

Word == {"none", "noise", "stale", "question"}
Stages == {"microphone", "starting", "asked", "playing", "resuming", "recogniser", "done"}

Task(n) == [kind : Kinds, at : Stages, aborted : BOOLEAN, preserve : BOOLEAN, awaits : 0 .. n]
Socket == [phase : Phases, settled : BOOLEAN]

Formed(v) ==
  v = [page |-> v.page, busy |-> v.busy, microphone |-> v.microphone, continuous |-> v.continuous,
       listening |-> v.listening, replying |-> v.replying, idle |-> v.idle, stage |-> v.stage,
       controller |-> v.controller, playing |-> v.playing, armed |-> v.armed, barge |-> v.barge,
       endpoint |-> v.endpoint, words |-> v.words,
       socket |-> v.socket, promise |-> v.promise, ready |-> v.ready]

Fields(v, n, m) ==
  /\ v.page \in Pages /\ v.busy \in BOOLEAN /\ v.microphone \in BOOLEAN /\ v.continuous \in BOOLEAN
  /\ v.listening \in BOOLEAN /\ v.replying \in BOOLEAN /\ v.idle \in BOOLEAN
  /\ v.stage \in 0 .. 1 /\ v.controller \in 0 .. n /\ v.playing \in 0 .. n
  /\ v.armed \in BOOLEAN /\ v.barge \in BOOLEAN /\ v.endpoint \in Word /\ v.words \in Word
  /\ v.socket \in 0 .. m /\ v.promise \in 0 .. m /\ v.ready \in BOOLEAN

Typed ==
  /\ Formed(voice) /\ Fields(voice, Len(tasks), Len(sockets))
  /\ tasks \in Seq(Task(Len(sockets)))
  /\ sockets \in Seq(Socket)
  /\ hearing \in BOOLEAN

Counted ==
  /\ used = [calls |-> used.calls, speech |-> used.speech, clicks |-> used.clicks]
  /\ used.calls \in 0 .. MaxCalls /\ used.speech \in 0 .. MaxSpeech /\ used.clicks \in 0 .. MaxClicks
  /\ past = [lost |-> past.lost, leftover |-> past.leftover, unwatched |-> past.unwatched]
  /\ past.lost \subseteq {"playback ended", "noise", "click", "more speech"}
  /\ past.leftover \in BOOLEAN /\ past.unwatched \in BOOLEAN

-----------------------------------------------------------------------------
(* The invariant *)

\* A connection that may be used yet, one that is waited for, one that failed.
Alive(c) == c.phase \in {"connecting", "loading", "ready"}
Pending(c) == ~ c.settled /\ c.phase # "closed"
Failed(c) == ~ c.settled /\ c.phase = "closed"

Greeting(t) == tasks[t].kind = "greeting"
ToListen(t) == tasks[t].at \in {"resuming", "recogniser"}

\* The page itself.
Flags ==
  /\ voice.page = "test" /\ voice.continuous => voice.busy
  /\ voice.replying => voice.continuous
  /\ voice.listening => voice.continuous
  /\ voice.endpoint # "none" => voice.listening
  /\ ~ (voice.armed /\ voice.barge)
  /\ voice.idle => voice.endpoint = "none"
  /\ voice.ready => voice.socket # 0

\* Only a task that replies, and a greeting until its finally, has a controller;
\* only a call that goes on is listened to again.
TasksOK ==
  /\ \A t \in DOMAIN tasks :
       /\ (t = voice.controller \/ tasks[t].aborted) /\ ~ At(t, "done") =>
            At(t, "asked") \/ At(t, "playing") \/ (Greeting(t) /\ ToListen(t))
       /\ voice.page = "test" /\ tasks[t].aborted /\ ~ At(t, "done") => voice.controller # t
       /\ Greeting(t) => voice.page = "test"
       /\ At(t, "starting") => Greeting(t)
       /\ At(t, "done") => ~ Greeting(t)
       /\ At(t, "microphone") /\ tasks[t].kind = "listen" => voice.page = "pilot"
       /\ At(t, "resuming") /\ voice.page = "test" => voice.continuous
  /\ \A t, u \in DOMAIN tasks : At(t, "resuming") /\ At(u, "resuming") => t = u

\* What is left of a connection that is not the page's is closing.  A promise is
\* that of a connection under way, which somebody waits for; a connection that
\* fails is noticed before anybody asks for another one.
SocketsOK ==
  /\ \A s \in DOMAIN sockets :
       /\ sockets[s].phase \in {"connecting", "loading"} => ~ sockets[s].settled
       /\ sockets[s].phase = "ready" => sockets[s].settled
       /\ Alive(sockets[s]) => s = voice.socket
       /\ Pending(sockets[s]) =>
            \E t \in DOMAIN tasks : At(t, "recogniser") /\ tasks[t].awaits = s
       /\ voice.page = "pilot" /\ sockets[s].phase # "closed" =>
            \/ ~ sockets[s].settled /\ voice.promise = s
            \/ sockets[s].phase = "ready" /\ s = voice.socket /\ voice.ready
  /\ voice.promise # 0 => Pending(sockets[voice.promise]) /\ voice.socket \in {0, voice.promise}
  /\ voice.socket # 0 /\ voice.promise # voice.socket /\ sockets[voice.socket].phase = "connecting" =>
       \E t \in DOMAIN tasks : /\ At(t, "recogniser")
                               /\ tasks[t].awaits # 0 /\ Failed(sockets[tasks[t].awaits])
  /\ \A t, u \in DOMAIN tasks : At(t, "resuming") /\ At(u, "recogniser") => ~ Settled(u)
  /\ voice.page = "test" /\ ~ voice.continuous => voice.socket = 0
  /\ hearing => Connected

\* Nothing waits to be submitted where the test page is about to listen.
EndpointOK ==
  voice.page = "test" =>
    \A t \in DOMAIN tasks :
      \/ At(t, "resuming")
      \/ /\ At(t, "recogniser")
         /\ \/ tasks[t].awaits = 0
            \/ sockets[tasks[t].awaits].settled
            \/ Alive(sockets[tasks[t].awaits])
      => voice.endpoint = "none"

\* The functions that are not over and were not aborted: in an orderly session
\* there is at most one.
Current == {t \in DOMAIN tasks : ~ At(t, "done") /\ ~ tasks[t].aborted}

OneCurrent ==
  /\ \A t, u \in Current : t = u
  /\ \A t, u \in DOMAIN tasks : Greeting(t) /\ Greeting(u) => t = u
  /\ \A t \in DOMAIN tasks : Greeting(t) /\ tasks[t].aborted /\ ~ At(t, "done") =>
       ~ voice.continuous /\ Current = {}

\* What the page keeps belongs to it.
Kept ==
  /\ \A t \in Current :
       /\ Replying(t) => voice.controller = t /\ voice.replying
       /\ At(t, "playing") => voice.playing = t
  /\ voice.playing # 0 => voice.playing \in Current /\ At(voice.playing, "playing")
  /\ voice.replying => voice.controller \in Current
  /\ voice.armed \/ voice.barge =>
       /\ voice.continuous
       /\ \E t \in Current : (At(t, "playing") /\ tasks[t].kind = "turn") \/ ToListen(t)

\* Who listens waits for nothing, but for a reply it talks over or to listen again.
Silence ==
  /\ \A t \in Current : voice.listening =>
       (At(t, "playing") /\ voice.barge) \/ (ToListen(t) /\ voice.endpoint = "none")
  /\ voice.idle => /\ Current = {} /\ voice.continuous /\ voice.listening
                   /\ ~ voice.replying /\ voice.endpoint = "none"
  /\ voice.words = "stale" /\ voice.listening => voice.barge \/ \E t \in Current : ToListen(t)

Waited ==
  \A t \in DOMAIN tasks : At(t, "recogniser") /\ tasks[t].awaits # 0 /\ Pending(sockets[tasks[t].awaits]) =>
    voice.socket \in {0, tasks[t].awaits}

OrderlyOK ==
  /\ OneCurrent /\ Kept /\ Silence /\ Waited
  /\ SilenceIsNoticed /\ StaleWordsNeedBargeIn

PageInv ==
  /\ Typed /\ Counted
  /\ Flags /\ TasksOK /\ SocketsOK /\ EndpointOK
  /\ Orderly => OrderlyOK

-----------------------------------------------------------------------------
(* How a step changes the page and its tasks *)

\* Only these fields of voiceState change.
Changes(fields) ==
  /\ "page" \notin fields => voice'.page = voice.page
  /\ "busy" \notin fields => voice'.busy = voice.busy
  /\ "microphone" \notin fields => voice'.microphone = voice.microphone
  /\ "continuous" \notin fields => voice'.continuous = voice.continuous
  /\ "listening" \notin fields => voice'.listening = voice.listening
  /\ "replying" \notin fields => voice'.replying = voice.replying
  /\ "idle" \notin fields => voice'.idle = voice.idle
  /\ "stage" \notin fields => voice'.stage = voice.stage
  /\ "controller" \notin fields => voice'.controller = voice.controller
  /\ "playing" \notin fields => voice'.playing = voice.playing
  /\ "armed" \notin fields => voice'.armed = voice.armed
  /\ "barge" \notin fields => voice'.barge = voice.barge
  /\ "endpoint" \notin fields => voice'.endpoint = voice.endpoint
  /\ "words" \notin fields => voice'.words = voice.words
  /\ "socket" \notin fields => voice'.socket = voice.socket
  /\ "promise" \notin fields => voice'.promise = voice.promise
  /\ "ready" \notin fields => voice'.ready = voice.ready

\* The fields that do are what they should be.
Fit(fields, n, m) ==
  /\ "page" \notin fields
  /\ "busy" \in fields => voice'.busy \in BOOLEAN
  /\ "microphone" \in fields => voice'.microphone \in BOOLEAN
  /\ "continuous" \in fields => voice'.continuous \in BOOLEAN
  /\ "listening" \in fields => voice'.listening \in BOOLEAN
  /\ "replying" \in fields => voice'.replying \in BOOLEAN
  /\ "idle" \in fields => voice'.idle \in BOOLEAN
  /\ "stage" \in fields => voice'.stage \in 0 .. 1
  /\ "controller" \in fields => voice'.controller \in 0 .. n
  /\ "playing" \in fields => voice'.playing \in 0 .. n
  /\ "armed" \in fields => voice'.armed \in BOOLEAN
  /\ "barge" \in fields => voice'.barge \in BOOLEAN
  /\ "endpoint" \in fields => voice'.endpoint \in Word
  /\ "words" \in fields => voice'.words \in Word
  /\ "socket" \in fields => voice'.socket \in 0 .. m
  /\ "promise" \in fields => voice'.promise \in 0 .. m
  /\ "ready" \in fields => voice'.ready \in BOOLEAN

LEMMA FieldsFit ==
  ASSUME NEW n \in Nat, NEW m \in Nat, NEW a \in Nat, NEW b \in Nat, n <= a, m <= b,
         Fields(voice, n, m), NEW fields, Changes(fields), Fit(fields, a, b)
  PROVE  Fields(voice', a, b)
  <1>1. /\ voice'.page \in Pages /\ voice'.busy \in BOOLEAN /\ voice'.microphone \in BOOLEAN
        /\ voice'.continuous \in BOOLEAN /\ voice'.listening \in BOOLEAN
        /\ voice'.replying \in BOOLEAN /\ voice'.idle \in BOOLEAN
    BY DEF Fields, Changes, Fit
  <1>2. voice'.stage \in 0 .. 1 /\ voice'.controller \in 0 .. a /\ voice'.playing \in 0 .. a
    BY DEF Fields, Changes, Fit
  <1>3. /\ voice'.armed \in BOOLEAN /\ voice'.barge \in BOOLEAN
        /\ voice'.endpoint \in Word /\ voice'.words \in Word
    BY DEF Fields, Changes, Fit
  <1>4. voice'.socket \in 0 .. b /\ voice'.promise \in 0 .. b /\ voice'.ready \in BOOLEAN
    BY DEF Fields, Changes, Fit
  <1> QED BY <1>1, <1>2, <1>3, <1>4 DEF Fields

LEMMA Shape ==
  ASSUME Typed
  PROVE  /\ Len(tasks) \in Nat /\ DOMAIN tasks = 1 .. Len(tasks)
         /\ Len(sockets) \in Nat /\ DOMAIN sockets = 1 .. Len(sockets)
         /\ \A t \in DOMAIN tasks : tasks[t] \in Task(Len(sockets))
         /\ \A s \in DOMAIN sockets : sockets[s] \in Socket
  <1>1. PICK S : S = Task(Len(sockets))
    OBVIOUS
  <1>2. tasks \in Seq(S)
    BY <1>1 DEF Typed
  <1>3. Len(tasks) \in Nat /\ DOMAIN tasks = 1 .. Len(tasks) /\ tasks \in [1 .. Len(tasks) -> S]
    BY <1>2, LenProperties
  <1>4. PICK T : T = Socket
    OBVIOUS
  <1>5. sockets \in Seq(T)
    BY <1>4 DEF Typed
  <1>6. Len(sockets) \in Nat /\ DOMAIN sockets = 1 .. Len(sockets) /\ sockets \in [1 .. Len(sockets) -> T]
    BY <1>5, LenProperties
  <1> QED BY <1>1, <1>3, <1>4, <1>6

\* A function on 1 .. n is a sequence.
LEMMA SequenceOf ==
  ASSUME NEW S, NEW n \in Nat, NEW f, f = [i \in 1 .. n |-> f[i]], \A i \in 1 .. n : f[i] \in S
  PROVE  f \in Seq(S) /\ Len(f) = n
  <1>1. f \in [1 .. n -> S]
    BY SMT
  <1>2. f \in UNION {[1 .. k -> S] : k \in Nat}
    BY <1>1
  <1>3. f \in Seq(S)
    BY <1>2, SeqDef
  <1> QED BY <1>1, <1>3, LenProperties

LEMMA LargerTask ==
  ASSUME NEW n \in Nat, NEW m \in Nat, n <= m, NEW r \in Task(n)
  PROVE  r \in Task(m)
  BY DEF Task

-----------------------------------------------------------------------------
(* What becomes of the tasks *)

\* Task t is r now, the others are what they were.
Becomes(ts, t, r) ==
  /\ DOMAIN ts = DOMAIN tasks /\ Len(ts) = Len(tasks)
  /\ ts[t] = r
  /\ \A u \in DOMAIN tasks \ {t} : ts[u] = tasks[u]

\* The tasks go on, and r begins.
Begins(ts, r) ==
  /\ Len(tasks') = Len(ts) + 1 /\ DOMAIN tasks' = DOMAIN ts \cup {Len(ts) + 1}
  /\ Len(ts) + 1 \notin DOMAIN ts
  /\ tasks'[Len(ts) + 1] = r
  /\ \A u \in DOMAIN ts : tasks'[u] = ts[u]

\* The task whose controller the page keeps is aborted.
Aborts(ts, new) ==
  /\ DOMAIN new = DOMAIN ts /\ Len(new) = Len(ts)
  /\ \A u \in DOMAIN ts :
       /\ new[u].kind = ts[u].kind /\ new[u].at = ts[u].at
       /\ new[u].preserve = ts[u].preserve /\ new[u].awaits = ts[u].awaits
       /\ new[u].aborted = (ts[u].aborted \/ u = voice.controller)

LEMMA SetTask ==
  ASSUME Typed, NEW n \in Nat, n = Len(sockets), NEW t \in DOMAIN tasks, NEW r \in Task(n),
         NEW ts, ts = [tasks EXCEPT ![t] = r]
  PROVE  Becomes(ts, t, r) /\ ts \in Seq(Task(n))
  <1>1. PICK S : S = Task(n)
    OBVIOUS
  <1>2. tasks \in Seq(S) /\ t \in 1 .. Len(tasks) /\ r \in S /\ DOMAIN tasks = 1 .. Len(tasks)
    BY <1>1, Shape DEF Typed
  <1>3. ts \in Seq(S) /\ Len(ts) = Len(tasks)
    BY <1>2, ExceptSeq
  <1>4. DOMAIN ts = DOMAIN tasks
    OBVIOUS
  <1> QED BY <1>1, <1>3, <1>4 DEF Becomes

LEMMA GoesOn ==
  ASSUME Typed, NEW t \in DOMAIN tasks, NEW stage \in Stages
  PROVE  /\ \E r \in Task(Len(sockets)) :
              /\ Becomes(Goes(t, stage), t, r)
              /\ r.at = stage /\ r.kind = tasks[t].kind /\ r.aborted = tasks[t].aborted
              /\ r.awaits = tasks[t].awaits /\ r.preserve = tasks[t].preserve
         /\ Goes(t, stage) \in Seq(Task(Len(sockets)))
  <1>1. PICK n \in Nat : n = Len(sockets)
    BY Shape
  <1>2. PICK old \in Task(n) : old = tasks[t]
    BY <1>1, Shape
  <1>3. PICK r : r = [old EXCEPT !.at = stage]
    OBVIOUS
  <1>4. /\ r \in Task(n) /\ r.at = stage /\ r.kind = old.kind /\ r.aborted = old.aborted
        /\ r.awaits = old.awaits /\ r.preserve = old.preserve
    BY <1>2, <1>3 DEF Task
  <1>5. Goes(t, stage) = [tasks EXCEPT ![t] = r]
    BY <1>2, <1>3 DEF Goes
  <1>6. Becomes(Goes(t, stage), t, r) /\ Goes(t, stage) \in Seq(Task(n))
    BY <1>1, <1>4, <1>5, SetTask
  <1> QED BY <1>1, <1>2, <1>4, <1>6

LEMMA NewTaskFacts ==
  ASSUME NEW n \in Nat, NEW kind \in Kinds, NEW stage \in Stages, NEW preserve \in BOOLEAN
  PROVE  /\ NewTask(kind, stage, preserve) \in Task(n)
         /\ NewTask(kind, stage, preserve).kind = kind /\ NewTask(kind, stage, preserve).at = stage
         /\ NewTask(kind, stage, preserve).aborted = FALSE
         /\ NewTask(kind, stage, preserve).awaits = 0
  BY DEF NewTask, Task

FinishedTask == NewTask("listen", "done", FALSE)

LEMMA Finishes ==
  ASSUME Typed, NEW t \in DOMAIN tasks
  PROVE  /\ Becomes(Finished(t), t, FinishedTask) /\ Finished(t) \in Seq(Task(Len(sockets)))
         /\ FinishedTask.at = "done" /\ FinishedTask.kind = "listen" /\ ~ FinishedTask.aborted /\ FinishedTask.awaits = 0
  <1>1. PICK n \in Nat : n = Len(sockets)
    BY Shape
  <1>2. /\ FinishedTask \in Task(n)
        /\ FinishedTask.at = "done" /\ FinishedTask.kind = "listen" /\ ~ FinishedTask.aborted /\ FinishedTask.awaits = 0
    BY DEF FinishedTask, NewTask, Task, Kinds, Stages
  <1>3. Finished(t) = [tasks EXCEPT ![t] = FinishedTask]
    BY DEF Finished, FinishedTask
  <1> QED BY <1>1, <1>2, <1>3, SetTask

LEMMA Aborting ==
  ASSUME NEW n \in Nat, NEW ts \in Seq(Task(n))
  PROVE  Aborts(ts, Abort(ts)) /\ Abort(ts) \in Seq(Task(n))
  <1>1. PICK S : S = Task(n)
    OBVIOUS
  <1>2. PICK k \in Nat : k = Len(ts) /\ DOMAIN ts = 1 .. k /\ ts \in [1 .. k -> S]
    BY <1>1, LenProperties
  <1>3. PICK new : new = Abort(ts)
    OBVIOUS
  <1>4. new = [u \in 1 .. k |-> new[u]]
    BY <1>2, <1>3, Zenon DEF Abort
  <1>5. ASSUME NEW u \in 1 .. k
        PROVE  /\ new[u] \in S
               /\ new[u].kind = ts[u].kind /\ new[u].at = ts[u].at
               /\ new[u].preserve = ts[u].preserve /\ new[u].awaits = ts[u].awaits
               /\ new[u].aborted = (ts[u].aborted \/ u = voice.controller)
    <2>1. PICK old \in S : old = ts[u]
      BY <1>2
    <2>2. new[u] = IF u = voice.controller THEN [old EXCEPT !.aborted = TRUE] ELSE old
      BY <1>2, <1>3, <2>1 DEF Abort
    <2> QED BY <1>1, <2>1, <2>2 DEF Task
  <1>6. new \in Seq(S) /\ Len(new) = k
    BY <1>4, <1>5, SequenceOf
  <1>7. DOMAIN new = 1 .. k
    BY <1>4
  <1> QED BY <1>1, <1>2, <1>3, <1>5, <1>6, <1>7 DEF Aborts

LEMMA Appending ==
  ASSUME NEW n \in Nat, NEW ts \in Seq(Task(n)), NEW r \in Task(n), tasks' = Append(ts, r)
  PROVE  Begins(ts, r) /\ tasks' \in Seq(Task(n))
  <1>1. PICK S : S = Task(n)
    OBVIOUS
  <1>2. PICK k \in Nat : k = Len(ts) /\ DOMAIN ts = 1 .. k
    BY <1>1, LenProperties
  <1>3. PICK new : new = Append(ts, r)
    OBVIOUS
  <1>4. /\ new \in Seq(S) /\ Len(new) = k + 1 /\ new[k + 1] = r
        /\ \A i \in 1 .. k : new[i] = ts[i]
    BY <1>1, <1>2, <1>3, AppendProperties
  <1>5. DOMAIN new = 1 .. k + 1
    BY <1>4, LenProperties
  <1> QED BY <1>1, <1>2, <1>3, <1>4, <1>5 DEF Begins

-----------------------------------------------------------------------------
(* The connections *)

\* Who waits for a connection goes on waiting, and nobody else does.
SameWaits ==
  /\ \A u \in DOMAIN tasks :
       At(u, "recogniser") /\ tasks[u].awaits # 0 /\ ~ sockets[tasks[u].awaits].settled =>
         u \in DOMAIN tasks' /\ At(u, "recogniser")' /\ tasks'[u].awaits = tasks[u].awaits
  /\ \A u \in DOMAIN tasks' : At(u, "recogniser")' =>
         u \in DOMAIN tasks /\ At(u, "recogniser") /\ tasks'[u].awaits = tasks[u].awaits

\* Only a step that is no microtask makes another function listen, and it
\* forgets what waits to be submitted.
SameResumes ==
  \A u \in DOMAIN tasks' : At(u, "resuming")' =>
    \/ u \in DOMAIN tasks /\ At(u, "resuming")
    \/ NoMicrotask /\ (voice.page = "test" => voice'.endpoint = "none")

LEMMA WaitedFor ==
  ASSUME Typed, SocketsOK, NEW t \in DOMAIN tasks, tasks[t].awaits # 0
  PROVE  tasks[t].awaits \in DOMAIN sockets
  <1>1. PICK n \in Nat : n = Len(sockets) /\ DOMAIN sockets = 1 .. n
    BY Shape
  <1>2. tasks[t].awaits \in 0 .. n
    BY <1>1, Shape DEF Task
  <1> QED BY <1>1, <1>2

LEMMA Undisturbed ==
  ASSUME Typed, SocketsOK, EndpointOK, sockets' = sockets,
         voice'.page = voice.page, voice'.socket = voice.socket,
         voice'.promise = voice.promise, voice'.ready = voice.ready,
         voice.page = "test" /\ voice.continuous => voice'.continuous,
         hearing' => hearing \/ Connected,
         SameWaits, SameResumes, voice'.endpoint \in {"none", voice.endpoint} \/ EndpointOK'
  PROVE  SocketsOK' /\ EndpointOK'
  <1>1. ASSUME NEW s \in DOMAIN sockets, Pending(sockets[s])
        PROVE  \E t \in DOMAIN tasks' : At(t, "recogniser")' /\ tasks'[t].awaits = s
    <2>1. PICK t \in DOMAIN tasks : At(t, "recogniser") /\ tasks[t].awaits = s
      BY <1>1 DEF SocketsOK
    <2>2. s # 0 /\ ~ sockets[s].settled
      BY <1>1, Shape DEF Pending
    <2> QED BY <2>1, <2>2 DEF SameWaits
  <1>2. ASSUME voice.socket # 0, voice.promise # voice.socket, sockets[voice.socket].phase = "connecting"
        PROVE  \E t \in DOMAIN tasks' : /\ At(t, "recogniser")'
                                        /\ tasks'[t].awaits # 0 /\ Failed(sockets[tasks'[t].awaits])
    <2>1. PICK t \in DOMAIN tasks : /\ At(t, "recogniser")
                                    /\ tasks[t].awaits # 0 /\ Failed(sockets[tasks[t].awaits])
      BY <1>2 DEF SocketsOK
    <2>2. /\ t \in DOMAIN tasks' /\ At(t, "recogniser")' /\ tasks'[t].awaits = tasks[t].awaits
      BY <2>1 DEF SameWaits, Failed
    <2> QED BY <2>1, <2>2
  <1>3. ASSUME NEW t \in DOMAIN tasks', NEW u \in DOMAIN tasks', At(t, "resuming")', At(u, "recogniser")'
        PROVE  ~ Settled(u)'
    <2>1. /\ u \in DOMAIN tasks /\ At(u, "recogniser") /\ tasks'[u].awaits = tasks[u].awaits
      BY <1>3 DEF SameWaits
    <2>2. ~ Settled(u)
      BY <1>3, <2>1 DEF SameResumes, SocketsOK, NoMicrotask
    <2> QED BY <1>3, <2>1, <2>2 DEF Settled, At
  <1>4. voice'.page = "test" /\ ~ voice'.continuous => voice'.socket = 0
    BY DEF SocketsOK
  <1>5. hearing' => Connected'
    BY DEF SocketsOK, Connected
  <1>6. voice'.promise # 0 => Pending(sockets[voice'.promise]) /\ voice'.socket \in {0, voice'.promise}
    BY DEF SocketsOK
  <1>7. SocketsOK'
    <2>1. ASSUME NEW s \in DOMAIN sockets
          PROVE  /\ sockets[s].phase \in {"connecting", "loading"} => ~ sockets[s].settled
                 /\ sockets[s].phase = "ready" => sockets[s].settled
                 /\ Alive(sockets[s]) => s = voice'.socket
                 /\ voice'.page = "pilot" /\ sockets[s].phase # "closed" =>
                      \/ ~ sockets[s].settled /\ voice'.promise = s
                      \/ sockets[s].phase = "ready" /\ s = voice'.socket /\ voice'.ready
      BY DEF SocketsOK
    <2> QED BY <1>1, <1>2, <1>3, <1>4, <1>5, <1>6, <2>1 DEF SocketsOK
  <1>8. ASSUME voice'.endpoint \in {"none", voice.endpoint},
               voice.page = "test", NEW t \in DOMAIN tasks',
               \/ At(t, "resuming")'
               \/ /\ At(t, "recogniser")'
                  /\ \/ tasks'[t].awaits = 0
                     \/ sockets[tasks'[t].awaits].settled
                     \/ Alive(sockets[tasks'[t].awaits])
        PROVE  voice'.endpoint = "none"
    <2>1. CASE At(t, "resuming")'
      BY <1>8, <2>1 DEF SameResumes, EndpointOK
    <2>2. CASE At(t, "recogniser")'
      <3>1. t \in DOMAIN tasks /\ At(t, "recogniser") /\ tasks'[t].awaits = tasks[t].awaits
        BY <2>2 DEF SameWaits
      <3>2. ~ At(t, "resuming")'
        BY <2>2 DEF At
      <3> QED BY <1>8, <3>1, <3>2 DEF EndpointOK
    <2> QED BY <1>8, <2>1, <2>2
  <1>9. EndpointOK'
    BY <1>8 DEF EndpointOK
  <1> QED BY <1>7, <1>9

-----------------------------------------------------------------------------
(* Replies *)

LEMMA PlaysKeeps ==
  ASSUME PageInv, NEW t \in DOMAIN tasks, Plays(t)
  PROVE  PageInv'
  <1>1. PICK kind \in Kinds :
          /\ kind = tasks[t].kind \/ (tasks[t].kind = "turn" /\ kind \in {"turn", "farewell"})
          /\ voice' = [voice EXCEPT !.playing = t, !.busy = voice.page = "test",
                                    !.armed = @ \/ kind = "turn", !.barge = @ /\ kind # "turn"]
          /\ tasks' = [tasks EXCEPT ![t].at = "playing", ![t].kind = kind]
    <2>1. PICK kind \in IF tasks[t].kind = "turn" THEN {"turn", "farewell"} ELSE {tasks[t].kind} :
            /\ voice' = [voice EXCEPT !.playing = t, !.busy = voice.page = "test",
                                      !.armed = @ \/ kind = "turn", !.barge = @ /\ kind # "turn"]
            /\ tasks' = [tasks EXCEPT ![t].at = "playing", ![t].kind = kind]
      BY DEF Plays
    <2>2. tasks[t].kind \in Kinds
      BY Shape DEF PageInv, Task
    <2>3. /\ kind = tasks[t].kind \/ (tasks[t].kind = "turn" /\ kind \in {"turn", "farewell"})
          /\ kind \in Kinds
      BY <2>1, <2>2 DEF Kinds
    <2> QED BY <2>1, <2>3
  <1>2. At(t, "asked") /\ ~ tasks[t].aborted /\ UNCHANGED <<sockets, hearing, used, past>>
    BY DEF Plays
  <1>3. /\ Formed(voice') /\ Changes({"playing", "busy", "armed", "barge"})
        /\ voice'.playing = t /\ voice'.busy = (voice.page = "test")
        /\ voice'.armed = (voice.armed \/ kind = "turn")
        /\ voice'.barge = (voice.barge /\ kind # "turn")
    BY <1>1 DEF PageInv, Typed, Formed, Changes
  <1>4. PICK n \in Nat : n = Len(sockets)
    BY Shape DEF PageInv
  <1>5. PICK old \in Task(n) : old = tasks[t]
    BY <1>4, Shape DEF PageInv
  <1>6. PICK r : r = [old EXCEPT !.at = "playing", !.kind = kind]
    OBVIOUS
  <1>7. /\ r \in Task(n) /\ r.at = "playing" /\ r.kind = kind /\ r.aborted = FALSE
        /\ r.awaits = old.awaits
    BY <1>2, <1>5, <1>6 DEF Task, Stages
  <1>8. tasks' = [tasks EXCEPT ![t] = r]
    BY <1>1, <1>5, <1>6
  <1>9. Becomes(tasks', t, r) /\ tasks' \in Seq(Task(n))
    BY <1>4, <1>7, <1>8, SetTask DEF PageInv
  <1>10. Typed'
    <2>1. Fit({"playing", "busy", "armed", "barge"}, Len(tasks), n)
      BY <1>3, Shape DEF Fit, PageInv
    <2>2. Fields(voice', Len(tasks), n)
      BY <1>3, <1>4, <2>1, Shape, FieldsFit DEF PageInv, Typed
    <2> QED BY <1>2, <1>3, <1>4, <1>9, <2>2 DEF PageInv, Typed, Becomes
  <1>11. Counted'
    BY <1>2 DEF PageInv, Counted
  <1>12. Flags'
    BY <1>3 DEF PageInv, Flags, Changes
  <1>13. TasksOK'
    BY <1>1, <1>2, <1>3, <1>7, <1>9 DEF PageInv, TasksOK, Becomes, Changes, At, Greeting, ToListen
  <1>14. SameWaits /\ SameResumes
    BY <1>2, <1>7, <1>9 DEF SameWaits, SameResumes, Becomes, At
  <1>15. SocketsOK' /\ EndpointOK'
    BY <1>2, <1>3, <1>14, Undisturbed DEF PageInv, Changes
  <1>16. ASSUME Orderly
         PROVE  OrderlyOK'
    <2>1. t \in Current /\ \A u \in Current : u = t
      BY <1>2, <1>16 DEF PageInv, OrderlyOK, OneCurrent, Current, At
    <2>2. \A u : u \in Current' <=> u = t
      BY <1>2, <1>7, <1>9, <2>1 DEF Current, Becomes, At
    <2>3. /\ voice.controller = t /\ voice.replying /\ ~ voice.listening /\ ~ voice.idle
          /\ voice.playing = 0 /\ ~ voice.armed /\ ~ voice.barge /\ voice.continuous
      BY <1>2, <1>16, <2>1 DEF PageInv, Flags, OrderlyOK, Kept, Silence, Replying, ToListen, At
    <2>4. OneCurrent'
      BY <1>1, <1>2, <1>3, <1>7, <1>9, <1>16, <2>1, <2>2 DEF PageInv, OrderlyOK, OneCurrent, Becomes, Changes, Greeting, At
    <2>5. Kept'
      BY <1>3, <1>7, <1>9, <2>2, <2>3 DEF Kept, Becomes, Changes, Replying, At
    <2>6. Silence'
      BY <1>3, <2>2, <2>3 DEF Silence, Changes
    <2>7. Waited'
      BY <1>2, <1>3, <1>14, <1>16 DEF PageInv, OrderlyOK, Waited, SameWaits, Changes, Pending
    <2>8. SilenceIsNoticed' /\ StaleWordsNeedBargeIn'
      BY <1>3, <2>3, <1>12 DEF SilenceIsNoticed, StaleWordsNeedBargeIn, Flags, Changes
    <2> QED BY <2>4, <2>5, <2>6, <2>7, <2>8 DEF OrderlyOK
  <1>17. Orderly' => OrderlyOK'
    BY <1>2, <1>16 DEF Orderly
  <1> QED BY <1>10, <1>11, <1>12, <1>13, <1>15, <1>17 DEF PageInv

\* What stays typed when no connection changes.
LEMMA TypedAfter ==
  ASSUME Typed, sockets' = sockets, hearing' \in BOOLEAN, NEW fields, Formed(voice'), Changes(fields),
         NEW k \in Nat, k = Len(tasks'), Len(tasks) <= k, tasks' \in Seq(Task(Len(sockets))),
         Fit(fields, k, Len(sockets))
  PROVE  Typed'
  <1>1. PICK n \in Nat : n = Len(sockets)
    BY Shape
  <1>2. Fields(voice', k, n)
    BY <1>1, Shape, FieldsFit DEF Typed
  <1> QED BY <1>1, <1>2 DEF Typed

LEMMA TypedPage ==
  ASSUME Typed, sockets' = sockets, tasks' = tasks, hearing' \in BOOLEAN,
         NEW fields, Formed(voice'), Changes(fields), Fit(fields, Len(tasks), Len(sockets))
  PROVE  Typed' /\ SameWaits /\ SameResumes
  <1>1. PICK k \in Nat : k = Len(tasks)
    BY Shape
  <1>2. tasks' \in Seq(Task(Len(sockets))) /\ k = Len(tasks') /\ Len(tasks) <= k
    BY <1>1 DEF Typed
  <1>3. Fit(fields, k, Len(sockets))
    BY <1>1
  <1>4. Typed'
    BY <1>2, <1>3, TypedAfter
  <1> QED BY <1>4 DEF SameWaits, SameResumes, At

\* What stays typed when only one task goes on.
LEMMA TypedTask ==
  ASSUME Typed, sockets' = sockets, hearing' = hearing,
         NEW t, NEW r, Becomes(tasks', t, r), tasks' \in Seq(Task(Len(sockets))),
         NEW fields, Formed(voice'), Changes(fields), Fit(fields, Len(tasks), Len(sockets))
  PROVE  Typed'
  <1>1. PICK k \in Nat : k = Len(tasks)
    BY Shape
  <1>2. k = Len(tasks') /\ Len(tasks) <= k
    BY <1>1 DEF Becomes
  <1>3. Fit(fields, k, Len(sockets))
    BY <1>1
  <1> QED BY <1>2, <1>3, TypedAfter DEF Typed

-----------------------------------------------------------------------------
(* The words of the caller *)

\* Between microtasks, while the recogniser is connected, no function that is
\* still current is about to listen: it would have gone on.
LEMMA NobodyAboutToListen ==
  ASSUME PageInv, Orderly, NoMicrotask, Connected
  PROVE  \A t \in Current : ~ ToListen(t)
  <1>1. SUFFICES ASSUME NEW t \in Current, ToListen(t)
                 PROVE  FALSE
    OBVIOUS
  <1>2. t \in DOMAIN tasks /\ ~ Settled(t)
    BY DEF Current, NoMicrotask
  <1>3. At(t, "recogniser") /\ tasks[t].awaits # 0 /\ Pending(sockets[tasks[t].awaits])
    BY <1>1, <1>2 DEF ToListen, Settled, Pending, At
  <1>4. voice.socket = tasks[t].awaits
    BY <1>2, <1>3 DEF PageInv, OrderlyOK, Waited, Connected
  <1>5. voice.socket \in DOMAIN sockets
    BY <1>2, <1>3, <1>4, WaitedFor DEF PageInv
  <1> QED BY <1>3, <1>4, <1>5 DEF PageInv, SocketsOK, Connected, Pending

LEMMA SpeaksKeeps ==
  ASSUME PageInv, Speaks
  PROVE  PageInv'
  <1>1. PICK words \in {HeardBefore, "none"} :
          /\ voice' = [voice EXCEPT !.idle = FALSE, !.endpoint = "none", !.words = words]
          /\ past' = [past EXCEPT !.unwatched = FALSE,
                                  !.lost = IF words = "none" THEN Lost("more speech") ELSE @]
    BY DEF Speaks
  <1>2. hearing' = TRUE /\ Connected /\ UNCHANGED <<tasks, sockets>>
    BY DEF Speaks
  <1>3. /\ Formed(voice') /\ Changes({"idle", "endpoint", "words"})
        /\ voice'.idle = FALSE /\ voice'.endpoint = "none" /\ voice'.words = words
    BY <1>1 DEF PageInv, Typed, Formed, Changes
  <1>4. words \in {voice.endpoint, voice.words, "none"}
    BY <1>1 DEF HeardBefore
  <1>5. Fit({"idle", "endpoint", "words"}, Len(tasks), Len(sockets))
    <2>1. words \in Word /\ "none" \in Word
      BY <1>4 DEF PageInv, Typed, Fields, Word
    <2> QED BY <1>3, <2>1 DEF Fit
  <1>6. Typed' /\ SameWaits /\ SameResumes
    BY <1>2, <1>3, <1>5, TypedPage DEF PageInv
  <1>7. Counted'
    <2>1. \/ used' = used
          \/ used.speech < MaxSpeech /\ used' = [used EXCEPT !.speech = @ + 1]
      BY DEF Speaks
    <2>2. /\ used' = [calls |-> used'.calls, speech |-> used'.speech, clicks |-> used'.clicks]
          /\ used'.calls = used.calls /\ used'.clicks = used.clicks
          /\ used'.speech = used.speech \/ (used.speech < MaxSpeech /\ used'.speech = used.speech + 1)
      BY <2>1 DEF PageInv, Counted
    <2>3. PICK lost : lost \in {past.lost, past.lost \cup {"more speech"}}
                      /\ past' = [past EXCEPT !.unwatched = FALSE, !.lost = lost]
      BY <1>1 DEF Lost
    <2>4. /\ past' = [lost |-> past'.lost, leftover |-> past'.leftover, unwatched |-> past'.unwatched]
          /\ past'.lost = lost /\ past'.leftover = past.leftover /\ past'.unwatched = FALSE
      BY <2>3 DEF PageInv, Counted
    <2>5. used'.speech \in 0 .. MaxSpeech
      <3>1. PICK n \in 0 .. MaxSpeech : n = used.speech
        BY DEF PageInv, Counted
      <3> QED BY <2>2, <3>1, PagesAssumption
    <2>6. past'.lost \subseteq {"playback ended", "noise", "click", "more speech"}
      BY <2>3, <2>4 DEF PageInv, Counted
    <2> QED BY <2>2, <2>4, <2>5, <2>6 DEF PageInv, Counted
  <1>8. Flags' /\ TasksOK'
    BY <1>2, <1>3 DEF PageInv, Flags, TasksOK, Changes, At, Greeting, ToListen
  <1>9. SocketsOK' /\ EndpointOK'
    BY <1>2, <1>3, <1>6, Undisturbed DEF PageInv, Changes
  <1>10. Orderly' => Orderly
    BY DEF Orderly, Speaks, PageInv, Counted
  <1>11. ASSUME Orderly
         PROVE  OrderlyOK'
    <2>1. OneCurrent' /\ Waited'
      BY <1>2, <1>3, <1>11 DEF PageInv, OrderlyOK, OneCurrent, Waited, Current, Changes, Greeting, At
    <2>2. Kept'
      BY <1>2, <1>3, <1>11 DEF PageInv, OrderlyOK, Kept, Current, Changes, Replying, ToListen, At
    <2>3. Silence'
      BY <1>2, <1>3, <1>4, <1>11 DEF PageInv, OrderlyOK, Silence, StaleWordsNeedBargeIn, Current, Changes, ToListen, At
    <2>4. SilenceIsNoticed' /\ StaleWordsNeedBargeIn'
      BY <1>2, <1>3 DEF SilenceIsNoticed, StaleWordsNeedBargeIn
    <2> QED BY <2>1, <2>2, <2>3, <2>4 DEF OrderlyOK
  <1> QED BY <1>6, <1>7, <1>8, <1>9, <1>10, <1>11 DEF PageInv

LEMMA BargeInKeeps ==
  ASSUME PageInv, BargeIn
  PROVE  PageInv'
  <1>1. /\ voice' = [voice EXCEPT !.barge = TRUE, !.listening = TRUE, !.armed = FALSE]
        /\ Interruptible /\ ~ voice.listening /\ UNCHANGED <<tasks, sockets, hearing, used, past>>
    BY DEF BargeIn
  <1>2. /\ Formed(voice') /\ Changes({"barge", "listening", "armed"})
        /\ voice'.barge /\ voice'.listening /\ ~ voice'.armed
    BY <1>1 DEF PageInv, Typed, Formed, Changes
  <1>3. Fit({"barge", "listening", "armed"}, Len(tasks), Len(sockets))
    BY <1>1, <1>2 DEF PageInv, Typed, Formed, Fit
  <1>4. Typed' /\ SameWaits /\ SameResumes
    BY <1>1, <1>2, <1>3, TypedPage DEF PageInv, Typed
  <1>5. Counted'
    BY <1>1 DEF PageInv, Counted
  <1>6. Flags' /\ TasksOK'
    BY <1>1, <1>2 DEF PageInv, Flags, TasksOK, Changes, At, Greeting, ToListen, Interruptible
  <1>7. SocketsOK' /\ EndpointOK'
    BY <1>1, <1>2, <1>4, Undisturbed DEF PageInv, Changes
  <1>8. ASSUME Orderly
        PROVE  OrderlyOK'
    <2>1. voice.playing \in Current /\ At(voice.playing, "playing")
      BY <1>1, <1>8 DEF PageInv, OrderlyOK, Kept, Interruptible
    <2>2. OneCurrent' /\ Waited'
      BY <1>1, <1>2, <1>8 DEF PageInv, OrderlyOK, OneCurrent, Waited, Current, Changes, Greeting, At
    <2>3. Kept'
      BY <1>1, <1>2, <1>8 DEF PageInv, OrderlyOK, Kept, Current, Changes, Replying, ToListen, At, Interruptible
    <2>4. Silence'
      BY <1>1, <1>2, <1>8, <2>1 DEF PageInv, OrderlyOK, OneCurrent, Silence, Current, Changes, ToListen, At
    <2>5. SilenceIsNoticed' /\ StaleWordsNeedBargeIn'
      BY <1>1, <1>2 DEF SilenceIsNoticed, StaleWordsNeedBargeIn, Changes, Interruptible
    <2> QED BY <2>2, <2>3, <2>4, <2>5 DEF OrderlyOK
  <1>9. Orderly' => OrderlyOK'
    BY <1>1, <1>8 DEF Orderly
  <1> QED BY <1>4, <1>5, <1>6, <1>7, <1>9 DEF PageInv

LEMMA NoiseKeeps ==
  ASSUME PageInv, NoMicrotask, Noise
  PROVE  PageInv'
  <1>1. PICK idle \in BOOLEAN :
          /\ idle = (voice.page = "test" /\ voice.continuous /\ voice.listening /\ ~ voice.replying)
          /\ voice' = IF voice.endpoint # "none" THEN voice
                      ELSE [voice EXCEPT !.words = "none", !.idle = idle]
    BY DEF Noise, AfterNoise, WithTimer, PageInv, Typed, Formed
  <1>2. hearing' = FALSE /\ Connected /\ UNCHANGED <<tasks, sockets, used>>
    BY DEF Noise
  <1>3. /\ Formed(voice') /\ Changes({"words", "idle"})
        /\ \/ voice.endpoint # "none" /\ voice'.words = voice.words /\ voice'.idle = voice.idle
           \/ voice.endpoint = "none" /\ voice'.words = "none" /\ voice'.idle = idle
    BY <1>1 DEF PageInv, Typed, Formed, Changes
  <1>4. Fit({"words", "idle"}, Len(tasks), Len(sockets))
    BY <1>3 DEF PageInv, Typed, Fields, Fit, Word
  <1>5. Typed' /\ SameWaits /\ SameResumes
    BY <1>2, <1>3, <1>4, TypedPage DEF PageInv
  <1>6. PICK lost : lost \in {past.lost, past.lost \cup {"noise"}} /\ past' = [past EXCEPT !.lost = lost]
    BY DEF Noise
  <1>7. /\ past' = [lost |-> past'.lost, leftover |-> past'.leftover, unwatched |-> past'.unwatched]
        /\ past'.lost = lost /\ past'.leftover = past.leftover /\ past'.unwatched = past.unwatched
    BY <1>6 DEF PageInv, Counted
  <1>8. Counted'
    BY <1>2, <1>6, <1>7 DEF PageInv, Counted
  <1>9. Flags' /\ TasksOK'
    BY <1>1, <1>2, <1>3 DEF PageInv, Flags, TasksOK, Changes, At, Greeting, ToListen
  <1>10. SocketsOK' /\ EndpointOK'
    BY <1>2, <1>3, <1>5, Undisturbed DEF PageInv, Changes
  <1>11. ASSUME Orderly
         PROVE  OrderlyOK'
    <2>1. \A t \in Current : ~ ToListen(t)
      BY <1>2, <1>11, NobodyAboutToListen
    <2>2. idle => Current = {}
      BY <1>1, <1>11, <2>1 DEF PageInv, OrderlyOK, Silence, Kept, Replying, Current, At
    <2>3. OneCurrent' /\ Waited'
      BY <1>2, <1>3, <1>11 DEF PageInv, OrderlyOK, OneCurrent, Waited, Current, Changes, Greeting, At
    <2>4. Kept'
      BY <1>2, <1>3, <1>11 DEF PageInv, OrderlyOK, Kept, Current, Changes, Replying, ToListen, At
    <2>5. Silence'
      BY <1>1, <1>2, <1>3, <1>11, <2>2 DEF PageInv, OrderlyOK, Silence, Current, Changes, ToListen, At
    <2>6. SilenceIsNoticed' /\ StaleWordsNeedBargeIn'
      BY <1>1, <1>2, <1>3, <1>11 DEF PageInv, OrderlyOK, SilenceIsNoticed, StaleWordsNeedBargeIn, Changes, Orderly
    <2> QED BY <2>3, <2>4, <2>5, <2>6 DEF OrderlyOK
  <1>12. Orderly' => OrderlyOK'
    BY <1>7, <1>11 DEF Orderly
  <1> QED BY <1>5, <1>8, <1>9, <1>10, <1>12 DEF PageInv

LEMMA UtteranceEndsKeeps ==
  ASSUME PageInv, NoMicrotask, NEW kind \in {"noise", "question"}, UtteranceEnds(kind)
  PROVE  PageInv'
  <1>1. /\ hearing' = FALSE /\ Connected /\ UNCHANGED <<tasks, sockets, used, past>>
        /\ voice' = IF voice.listening
                    THEN [voice EXCEPT !.idle = FALSE, !.words = Merged(voice.words, kind),
                                       !.endpoint = Merged(Merged(voice.endpoint, voice.words), kind)]
                    ELSE voice
    BY DEF UtteranceEnds
  <1>2. PICK words, endpoint : words = Merged(voice.words, kind)
                               /\ endpoint = Merged(Merged(voice.endpoint, voice.words), kind)
    OBVIOUS
  <1>3. /\ words \in {"noise", "stale", "question"} /\ (words = "stale" => voice.words = "stale")
        /\ endpoint \in {"noise", "stale", "question"}
        /\ endpoint = "stale" => voice.words = "stale" \/ voice.endpoint = "stale"
    BY <1>2 DEF PageInv, Typed, Fields, Word, Merged
  <1>4. /\ Formed(voice') /\ Changes({"words", "idle", "endpoint"})
        /\ \/ /\ voice.listening /\ voice'.idle = FALSE
              /\ voice'.words = words /\ voice'.endpoint = endpoint
           \/ /\ ~ voice.listening /\ voice'.idle = voice.idle
              /\ voice'.words = voice.words /\ voice'.endpoint = voice.endpoint
    BY <1>1, <1>2 DEF PageInv, Typed, Formed, Fields, Changes
  <1>5. Fit({"words", "idle", "endpoint"}, Len(tasks), Len(sockets))
    <2>1. words \in Word /\ endpoint \in Word
      BY <1>3 DEF Word
    <2> QED BY <1>4, <2>1 DEF PageInv, Typed, Fields, Fit
  <1>6. Typed' /\ SameWaits /\ SameResumes
    BY <1>1, <1>4, <1>5, TypedPage DEF PageInv
  <1>7. Counted'
    BY <1>1 DEF PageInv, Counted
  <1>8. Flags' /\ TasksOK'
    BY <1>1, <1>3, <1>4 DEF PageInv, Flags, TasksOK, Changes, At, Greeting, ToListen
  <1>9. EndpointOK'
    <2>1. ASSUME NEW t \in DOMAIN tasks, At(t, "recogniser"), tasks[t].awaits # 0,
                 ~ sockets[tasks[t].awaits].settled
          PROVE  ~ Alive(sockets[tasks[t].awaits])
      <3>1. tasks[t].awaits \in DOMAIN sockets
        BY <2>1, WaitedFor DEF PageInv
      <3>2. ~ sockets[tasks[t].awaits].settled => tasks[t].awaits # voice.socket
        BY <1>1, <3>1 DEF Connected, PageInv, SocketsOK
      <3> QED BY <2>1, <3>1, <3>2 DEF PageInv, SocketsOK
    <2>2. \A t \in DOMAIN tasks : ~ At(t, "resuming") /\ (At(t, "recogniser") =>
            tasks[t].awaits # 0 /\ ~ sockets[tasks[t].awaits].settled)
      BY DEF NoMicrotask, Settled
    <2> QED BY <1>1, <2>1, <2>2 DEF EndpointOK, At
  <1>10. SocketsOK'
    BY <1>1, <1>4, <1>6, <1>9, Undisturbed DEF PageInv, Changes
  <1>11. ASSUME Orderly
         PROVE  OrderlyOK'
    <2>1. \A t \in Current : ~ ToListen(t)
      BY <1>1, <1>11, NobodyAboutToListen
    <2>2. OneCurrent' /\ Waited'
      BY <1>1, <1>4, <1>11 DEF PageInv, OrderlyOK, OneCurrent, Waited, Current, Changes, Greeting, At
    <2>3. Kept'
      BY <1>1, <1>4, <1>11 DEF PageInv, OrderlyOK, Kept, Current, Changes, Replying, ToListen, At
    <2>4. Silence'
      BY <1>1, <1>3, <1>4, <1>11, <2>1 DEF PageInv, OrderlyOK, Silence, Current, Changes, ToListen, At
    <2>5. SilenceIsNoticed' /\ StaleWordsNeedBargeIn'
      BY <1>1, <1>3, <1>4, <1>11, <2>1 DEF PageInv, Flags, OrderlyOK, Silence, SilenceIsNoticed, StaleWordsNeedBargeIn, Changes, Orderly
    <2> QED BY <2>2, <2>3, <2>4, <2>5 DEF OrderlyOK
  <1>12. Orderly' => OrderlyOK'
    BY <1>1, <1>11 DEF Orderly
  <1> QED BY <1>6, <1>7, <1>8, <1>9, <1>10, <1>12 DEF PageInv

-----------------------------------------------------------------------------
(* Tasks go on *)

LEMMA MicrophoneReadyKeeps ==
  ASSUME PageInv, NEW t \in DOMAIN tasks, MicrophoneReady(t), At(t, "microphone") => NoMicrotask
  PROVE  PageInv'
  <1> DEFINE Calls == {"microphone", "controller", "replying"}
  <1>1. /\ At(t, "microphone") \/ At(t, "starting")
        /\ UNCHANGED <<sockets, hearing, used, past>>
    BY DEF MicrophoneReady
  <1>2. ~ tasks[t].aborted /\ voice.controller # t
    BY <1>1 DEF PageInv, TasksOK, At, ToListen
  <1>3. PICK r :
          /\ Becomes(tasks', t, r) /\ tasks' \in Seq(Task(Len(sockets))) /\ ~ r.aborted
          /\ Formed(voice') /\ Changes(Calls) /\ voice'.microphone = TRUE
          /\ \/ /\ r.at = "resuming" /\ r.kind = tasks[t].kind /\ tasks[t].kind = "listen"
                /\ voice'.controller = voice.controller /\ voice'.replying = voice.replying
             \/ /\ r.at = "asked" /\ r.kind = tasks[t].kind /\ voice.continuous
                /\ voice'.controller = t /\ voice'.replying = TRUE
             \/ /\ r.at = "done" /\ r.kind = "listen" /\ ~ voice.continuous
                /\ voice'.controller = 0 /\ voice'.replying = FALSE
    <2>1. CASE tasks[t].kind = "listen"
      <3>1. voice' = [voice EXCEPT !.microphone = TRUE] /\ tasks' = Goes(t, "resuming")
        BY <2>1 DEF MicrophoneReady
      <3>2. /\ Formed(voice') /\ Changes(Calls) /\ voice'.microphone = TRUE
            /\ voice'.controller = voice.controller /\ voice'.replying = voice.replying
        BY <3>1 DEF PageInv, Typed, Formed, Changes
      <3>3. \E r \in Task(Len(sockets)) :
              /\ Becomes(tasks', t, r) /\ tasks' \in Seq(Task(Len(sockets)))
              /\ r.at = "resuming" /\ r.kind = tasks[t].kind /\ r.aborted = tasks[t].aborted
        BY <3>1, GoesOn DEF PageInv, Stages
      <3> QED BY <1>2, <2>1, <3>2, <3>3
    <2>2. CASE tasks[t].kind # "listen" /\ voice.continuous
      <3>1. /\ voice' = [voice EXCEPT !.microphone = TRUE, !.controller = t, !.replying = TRUE]
            /\ tasks' = Goes(t, "asked")
        BY <2>2 DEF MicrophoneReady, PageInv, Typed, Formed
      <3>2. /\ Formed(voice') /\ Changes(Calls) /\ voice'.microphone = TRUE
            /\ voice'.controller = t /\ voice'.replying = TRUE
        BY <3>1 DEF PageInv, Typed, Formed, Changes
      <3>3. \E r \in Task(Len(sockets)) :
              /\ Becomes(tasks', t, r) /\ tasks' \in Seq(Task(Len(sockets)))
              /\ r.at = "asked" /\ r.kind = tasks[t].kind /\ r.aborted = tasks[t].aborted
        BY <3>1, GoesOn DEF PageInv, Stages
      <3> QED BY <1>2, <2>2, <3>2, <3>3
    <2>3. CASE tasks[t].kind # "listen" /\ ~ voice.continuous
      <3>1. /\ voice' = [voice EXCEPT !.microphone = TRUE, !.controller = 0, !.replying = FALSE]
            /\ tasks' = Finished(t)
        BY <2>3 DEF MicrophoneReady, GreetingOver, PageInv, Typed, Formed
      <3>2. /\ Formed(voice') /\ Changes(Calls) /\ voice'.microphone = TRUE
            /\ voice'.controller = 0 /\ voice'.replying = FALSE
        BY <3>1 DEF PageInv, Typed, Formed, Changes
      <3> QED BY <2>3, <3>1, <3>2, Finishes DEF PageInv
    <2> QED BY <2>1, <2>2, <2>3
  <1>4. Typed'
    <2>1. voice'.controller \in 0 .. Len(tasks) /\ voice'.replying \in BOOLEAN
      <3>1. PICK n \in Nat : n = Len(tasks) /\ t \in 1 .. n
        BY Shape DEF PageInv
      <3>2. voice.controller \in 0 .. n /\ voice.replying \in BOOLEAN
        BY <3>1 DEF PageInv, Typed, Fields
      <3>3. /\ voice'.controller \in {0, t, voice.controller}
            /\ voice'.replying \in {voice.replying, TRUE, FALSE}
        BY <1>3
      <3>4. voice'.controller \in 0 .. Len(tasks)
        BY <3>1, <3>2, <3>3
      <3>5. voice'.replying \in BOOLEAN
        BY <3>2, <3>3
      <3> QED BY <3>4, <3>5
    <2>2. Fit(Calls, Len(tasks), Len(sockets))
      BY <1>3, <2>1 DEF Fit
    <2> QED BY <1>1, <1>3, <2>2, TypedTask DEF PageInv
  <1>5. Counted'
    BY <1>1 DEF PageInv, Counted
  <1>6. Flags'
    BY <1>3 DEF PageInv, Flags, Changes
  <1>7. tasks[t].kind = "listen" => NoMicrotask /\ voice.page = "pilot"
    BY <1>1 DEF PageInv, TasksOK, Greeting, At
  <1>8. TasksOK'
    BY <1>1, <1>2, <1>3, <1>7 DEF PageInv, TasksOK, Becomes, Changes, At, Greeting, ToListen, NoMicrotask, Settled
  <1>9. SameWaits /\ SameResumes
    BY <1>1, <1>3, <1>7 DEF SameWaits, SameResumes, Becomes, At
  <1>10. SocketsOK' /\ EndpointOK'
    BY <1>1, <1>3, <1>9, Undisturbed DEF PageInv, Changes
  <1>11. ASSUME Orderly
         PROVE  OrderlyOK'
    <2>1. t \in Current /\ \A u \in Current : u = t
      BY <1>1, <1>2, <1>11 DEF PageInv, OrderlyOK, OneCurrent, Current, At
    <2>2. \A u : u \in Current' <=> u = t /\ r.at # "done"
      BY <1>3, <2>1 DEF Current, Becomes, At
    <2>3. /\ ~ voice.replying /\ voice.playing = 0 /\ ~ voice.armed /\ ~ voice.barge
          /\ ~ voice.listening /\ ~ voice.idle
      BY <1>1, <1>2, <1>11, <2>1 DEF PageInv, OrderlyOK, Kept, Silence, ToListen, At
    <2>4. OneCurrent'
      BY <1>2, <1>3, <1>11, <2>1, <2>2 DEF PageInv, OrderlyOK, OneCurrent, Becomes, Changes, Greeting, At
    <2>5. Kept'
      BY <1>3, <2>2, <2>3 DEF Kept, Becomes, Changes, Replying, At
    <2>6. Silence'
      BY <1>3, <2>2, <2>3 DEF Silence, Changes
    <2>7. Waited'
      BY <1>1, <1>3, <1>9, <1>11 DEF PageInv, OrderlyOK, Waited, SameWaits, Changes, Pending
    <2>8. SilenceIsNoticed' /\ StaleWordsNeedBargeIn'
      BY <1>3, <1>6, <2>3 DEF SilenceIsNoticed, StaleWordsNeedBargeIn, Flags, Changes
    <2> QED BY <2>4, <2>5, <2>6, <2>7, <2>8 DEF OrderlyOK
  <1>12. Orderly' => OrderlyOK'
    BY <1>1, <1>11 DEF Orderly
  <1> QED BY <1>4, <1>5, <1>6, <1>8, <1>10, <1>12 DEF PageInv

LEMMA PlaybackOverFacts ==
  ASSUME Formed(voice), NEW t
  PROVE  \E p, a, b :
           /\ p \in {0, voice.playing} /\ (voice.playing # t => p = voice.playing)
           /\ voice.playing = t => p = 0
           /\ voice.listening => a = voice.armed /\ b = voice.barge
           /\ ~ voice.listening => a = FALSE /\ b = FALSE
           /\ PlaybackOver(voice, t) = [voice EXCEPT !.playing = p, !.armed = a, !.barge = b]
  <1>1. PICK p : p = IF voice.playing = t THEN 0 ELSE voice.playing
    OBVIOUS
  <1>2. PICK w : w = [voice EXCEPT !.playing = p]
    OBVIOUS
  <1>3. w = (IF voice.playing = t THEN [voice EXCEPT !.playing = 0] ELSE voice)
    BY <1>1, <1>2 DEF Formed
  <1>4. w.listening = voice.listening /\ w.armed = voice.armed /\ w.barge = voice.barge
    BY <1>2 DEF Formed
  <1>5. PlaybackOver(voice, t) = IF w.listening THEN w ELSE [w EXCEPT !.armed = FALSE, !.barge = FALSE]
    BY <1>3 DEF PlaybackOver, Disarmed
  <1>6. CASE voice.listening
    <2>1. PlaybackOver(voice, t) = [voice EXCEPT !.playing = p, !.armed = voice.armed, !.barge = voice.barge]
      BY <1>2, <1>4, <1>5, <1>6 DEF Formed
    <2>2. p \in {0, voice.playing} /\ (voice.playing # t => p = voice.playing) /\ (voice.playing = t => p = 0)
      BY <1>1
    <2> WITNESS p, voice.armed, voice.barge
    <2> QED BY <1>6, <2>1, <2>2
  <1>7. CASE ~ voice.listening
    <2>1. PlaybackOver(voice, t) = [voice EXCEPT !.playing = p, !.armed = FALSE, !.barge = FALSE]
      BY <1>2, <1>4, <1>5, <1>7 DEF Formed
    <2>2. p \in {0, voice.playing} /\ (voice.playing # t => p = voice.playing) /\ (voice.playing = t => p = 0)
      BY <1>1
    <2> WITNESS p, FALSE, FALSE
    <2> QED BY <1>7, <2>1, <2>2
  <1> QED BY <1>6, <1>7

LEMMA UnwindsKeeps ==
  ASSUME PageInv, NEW t \in DOMAIN tasks, Unwinds(t)
  PROVE  PageInv'
  <1> DEFINE Ends == {"playing", "armed", "barge", "replying", "controller"}
  <1>1. /\ At(t, "asked") \/ At(t, "playing")
        /\ tasks[t].aborted /\ tasks' = Finished(t)
        /\ UNCHANGED <<sockets, hearing, used, past>>
    BY DEF Unwinds
  <1>2. /\ Formed(voice') /\ Changes(Ends)
        /\ voice'.playing \in {0, voice.playing} /\ (voice.playing # t => voice'.playing = voice.playing)
        /\ \/ voice'.armed = voice.armed /\ voice'.barge = voice.barge
           \/ ~ voice.listening /\ voice'.armed = FALSE /\ voice'.barge = FALSE
        /\ IF tasks[t].kind = "greeting" \/ voice.controller = t
           THEN voice'.replying = FALSE /\ voice'.controller = 0
           ELSE voice'.replying = voice.replying /\ voice'.controller = voice.controller
    <2>1. PICK p, a, b :
            /\ p \in {0, voice.playing} /\ (voice.playing # t => p = voice.playing)
            /\ (a = voice.armed /\ b = voice.barge) \/ (~ voice.listening /\ a = FALSE /\ b = FALSE)
            /\ (IF At(t, "playing") THEN PlaybackOver(voice, t) ELSE voice)
                 = [voice EXCEPT !.playing = p, !.armed = a, !.barge = b]
      <3>1. CASE At(t, "playing")
        <4>1. Formed(voice)
          BY DEF PageInv, Typed
        <4>2. PICK q, c, d :
                /\ q \in {0, voice.playing} /\ (voice.playing # t => q = voice.playing)
                /\ voice.playing = t => q = 0
                /\ voice.listening => c = voice.armed /\ d = voice.barge
                /\ ~ voice.listening => c = FALSE /\ d = FALSE
                /\ PlaybackOver(voice, t) = [voice EXCEPT !.playing = q, !.armed = c, !.barge = d]
          BY <4>1, PlaybackOverFacts
        <4> WITNESS q, c, d
        <4> QED BY <3>1, <4>2
      <3>2. CASE ~ At(t, "playing")
        <4>1. voice = [voice EXCEPT !.playing = voice.playing, !.armed = voice.armed, !.barge = voice.barge]
          BY DEF PageInv, Typed, Formed
        <4> WITNESS voice.playing, voice.armed, voice.barge
        <4> QED BY <3>2, <4>1
      <3> QED BY <3>1, <3>2
    <2>2. PICK w : w = [voice EXCEPT !.playing = p, !.armed = a, !.barge = b]
      OBVIOUS
    <2>3. /\ w.controller = voice.controller
          /\ voice' = IF tasks[t].kind = "greeting" \/ w.controller = t
                      THEN [w EXCEPT !.replying = FALSE, !.controller = 0] ELSE w
      BY <2>1, <2>2 DEF Unwinds, Over, GreetingOver, PageInv, Typed, Formed
    <2>4. CASE tasks[t].kind = "greeting" \/ voice.controller = t
      <3>1. voice' = [voice EXCEPT !.playing = p, !.armed = a, !.barge = b, !.replying = FALSE, !.controller = 0]
        BY <2>2, <2>3, <2>4 DEF PageInv, Typed, Formed
      <3>2. /\ Formed(voice') /\ Changes(Ends) /\ voice'.playing = p /\ voice'.armed = a /\ voice'.barge = b
            /\ voice'.replying = FALSE /\ voice'.controller = 0
        BY <3>1 DEF PageInv, Typed, Formed, Changes
      <3> QED BY <2>1, <2>4, <3>2
    <2>5. CASE ~ (tasks[t].kind = "greeting" \/ voice.controller = t)
      <3>1. voice' = [voice EXCEPT !.playing = p, !.armed = a, !.barge = b]
        BY <2>2, <2>3, <2>5
      <3>2. /\ Formed(voice') /\ Changes(Ends) /\ voice'.playing = p /\ voice'.armed = a /\ voice'.barge = b
            /\ voice'.replying = voice.replying /\ voice'.controller = voice.controller
        BY <3>1 DEF PageInv, Typed, Formed, Changes
      <3> QED BY <2>1, <2>5, <3>2
    <2> QED BY <2>4, <2>5
  <1>3. /\ Becomes(tasks', t, FinishedTask) /\ tasks' \in Seq(Task(Len(sockets)))
        /\ FinishedTask.at = "done" /\ FinishedTask.kind = "listen" /\ ~ FinishedTask.aborted
    BY <1>1, Finishes DEF PageInv
  <1>4. Typed'
    <2>1. /\ voice'.controller \in 0 .. Len(tasks) /\ voice'.playing \in 0 .. Len(tasks)
          /\ voice'.replying \in BOOLEAN /\ voice'.armed \in BOOLEAN /\ voice'.barge \in BOOLEAN
      <3>1. PICK n \in Nat : n = Len(tasks)
        BY Shape DEF PageInv
      <3>2. /\ voice.controller \in 0 .. n /\ voice.playing \in 0 .. n /\ voice.replying \in BOOLEAN
            /\ voice.armed \in BOOLEAN /\ voice.barge \in BOOLEAN
        BY <3>1 DEF PageInv, Typed, Fields
      <3>3. /\ voice'.controller \in {0, voice.controller} /\ voice'.playing \in {0, voice.playing}
            /\ voice'.replying \in {voice.replying, FALSE}
            /\ voice'.armed \in {voice.armed, FALSE} /\ voice'.barge \in {voice.barge, FALSE}
        BY <1>2
      <3>4. voice'.controller \in 0 .. Len(tasks) /\ voice'.playing \in 0 .. Len(tasks)
        BY <3>1, <3>2, <3>3
      <3>5. voice'.replying \in BOOLEAN /\ voice'.armed \in BOOLEAN /\ voice'.barge \in BOOLEAN
        BY <3>2, <3>3
      <3> QED BY <3>4, <3>5
    <2>2. Fit(Ends, Len(tasks), Len(sockets))
      BY <1>2, <2>1 DEF Fit
    <2> QED BY <1>1, <1>2, <1>3, <2>2, TypedTask DEF PageInv
  <1>5. Counted'
    BY <1>1 DEF PageInv, Counted
  <1>6. Flags'
    BY <1>2 DEF PageInv, Flags, Changes
  <1>7. TasksOK'
    <2>1. voice'.page = voice.page /\ voice'.continuous = voice.continuous
      BY <1>2 DEF Changes
    <2>2. voice'.controller = voice.controller \/ voice'.controller \notin DOMAIN tasks
      BY <1>2, Shape DEF PageInv
    <2>3. /\ DOMAIN tasks' = DOMAIN tasks /\ tasks'[t].at = "done" /\ tasks'[t].kind = "listen"
          /\ \A u \in DOMAIN tasks \ {t} : tasks'[u] = tasks[u]
      BY <1>3 DEF Becomes
    <2>4. ASSUME NEW u \in DOMAIN tasks, u # t
          PROVE  /\ (u = voice'.controller \/ tasks'[u].aborted) /\ ~ At(u, "done")' =>
                      At(u, "asked")' \/ At(u, "playing")' \/ (Greeting(u)' /\ ToListen(u)')
                 /\ voice'.page = "test" /\ tasks'[u].aborted /\ ~ At(u, "done")' => voice'.controller # u
                 /\ Greeting(u)' => voice'.page = "test"
                 /\ At(u, "starting")' => Greeting(u)'
                 /\ At(u, "done")' => ~ Greeting(u)'
                 /\ At(u, "microphone")' /\ tasks'[u].kind = "listen" => voice'.page = "pilot"
                 /\ At(u, "resuming")' /\ voice'.page = "test" => voice'.continuous
                 /\ At(u, "resuming")' => At(u, "resuming")
      <3>1. tasks'[u] = tasks[u]
        BY <2>3, <2>4
      <3> QED BY <2>1, <2>2, <3>1 DEF PageInv, TasksOK, At, Greeting, ToListen
    <2>5. \A u, w \in DOMAIN tasks : At(u, "resuming") /\ At(w, "resuming") => u = w
      BY DEF PageInv, TasksOK
    <2>6. /\ At(t, "done")' /\ ~ Greeting(t)' /\ ~ At(t, "starting")' /\ ~ At(t, "microphone")'
          /\ ~ At(t, "resuming")'
      BY <2>3 DEF At, Greeting
    <2> QED BY <2>3, <2>4, <2>5, <2>6 DEF TasksOK
  <1>8. SameWaits /\ SameResumes
    BY <1>1, <1>3 DEF SameWaits, SameResumes, Becomes, At
  <1>9. SocketsOK' /\ EndpointOK'
    BY <1>1, <1>2, <1>8, Undisturbed DEF PageInv, Changes
  <1>10. ASSUME Orderly
         PROVE  OrderlyOK'
    <2>1. t \notin Current /\ ~ At(t, "done")
      BY <1>1 DEF Current, At
    <2>2. Current' = Current
      BY <1>3, <2>1 DEF Current, Becomes, At
    <2>3. voice'.playing = voice.playing
      BY <1>2, <1>10, <2>1, Shape DEF PageInv, OrderlyOK, Kept
    <2>4. Greeting(t) => ~ voice.continuous /\ Current = {} /\ ~ voice.replying
      BY <1>1, <1>10, <2>1 DEF PageInv, OrderlyOK, OneCurrent, Flags
    <2>5. voice.controller = t => ~ voice.replying
      BY <1>10, <2>1 DEF PageInv, OrderlyOK, Kept
    <2>6. voice'.replying = voice.replying
      BY <1>2, <2>4, <2>5 DEF Greeting, PageInv, Typed, Fields
    <2>7. OneCurrent'
      BY <1>2, <1>3, <1>10, <2>2 DEF PageInv, OrderlyOK, OneCurrent, Becomes, Changes, Greeting, At
    <2>8. Kept'
      <3>1. ASSUME NEW u \in Current, Replying(u)
            PROVE  voice'.controller = u /\ voice'.replying
        BY <1>2, <1>10, <2>1, <2>4, <2>5, <3>1 DEF PageInv, OrderlyOK, Kept, Greeting
      <3>2. \A u \in Current : u \in DOMAIN tasks /\ tasks'[u] = tasks[u]
        BY <1>3, <2>1 DEF Current, Becomes
      <3>3. voice'.replying => voice'.controller = voice.controller
        BY <1>2
      <3> QED BY <1>2, <1>10, <2>2, <2>3, <2>6, <3>1, <3>2, <3>3 DEF PageInv, OrderlyOK, Kept, Changes, Replying, ToListen, At
    <2>9. Silence'
      <3>1. \A u \in Current : u \in DOMAIN tasks /\ tasks'[u] = tasks[u]
        BY <1>3, <2>1 DEF Current, Becomes
      <3> QED BY <1>2, <1>10, <2>2, <2>6, <3>1 DEF PageInv, OrderlyOK, Silence, Changes, ToListen, At
    <2>10. Waited'
      BY <1>1, <1>2, <1>8, <1>10 DEF PageInv, OrderlyOK, Waited, SameWaits, Changes, Pending
    <2>11. SilenceIsNoticed'
      <3>1. Resuming => Resuming'
        BY <1>1, <1>3 DEF Resuming, Becomes, At
      <3> QED BY <1>1, <1>2, <1>10, <2>6, <3>1 DEF PageInv, OrderlyOK, SilenceIsNoticed, Changes, Orderly
    <2>12. StaleWordsNeedBargeIn'
      BY <1>2, <1>10 DEF PageInv, Flags, OrderlyOK, StaleWordsNeedBargeIn, Changes
    <2> QED BY <2>7, <2>8, <2>9, <2>10, <2>11, <2>12 DEF OrderlyOK
  <1>11. Orderly' => OrderlyOK'
    BY <1>1, <1>10 DEF Orderly
  <1> QED BY <1>4, <1>5, <1>6, <1>7, <1>9, <1>11 DEF PageInv

LEMMA ReplyEndsPage ==
  ASSUME Formed(voice), NEW t, t # 0, ReplyEnds(t)
  PROVE  /\ Formed(voice') /\ Changes({"playing", "armed", "barge", "replying", "controller", "idle", "endpoint"})
         /\ voice'.playing \in {0, voice.playing} /\ (voice.playing = t => voice'.playing = 0)
         /\ voice.listening => voice'.armed = voice.armed /\ voice'.barge = voice.barge
         /\ ~ voice.listening => voice'.armed = FALSE /\ voice'.barge = FALSE
         /\ IF voice.continuous THEN voice'.idle = FALSE /\ voice'.endpoint = "none" /\ tasks' = Goes(t, "resuming")
            ELSE voice'.idle = voice.idle /\ voice'.endpoint = voice.endpoint /\ tasks' = Finished(t)
         /\ IF (voice.continuous /\ ~ Greeting(t) /\ voice.controller = t)
               \/ (~ voice.continuous /\ (Greeting(t) \/ voice.controller = t))
            THEN voice'.replying = FALSE /\ voice'.controller = 0
            ELSE voice'.replying = voice.replying /\ voice'.controller = voice.controller
  <1> DEFINE Ends == {"playing", "armed", "barge", "replying", "controller", "idle", "endpoint"}
  <1>1. PICK p, a, b :
          /\ p \in {0, voice.playing} /\ (voice.playing # t => p = voice.playing)
          /\ voice.playing = t => p = 0
          /\ voice.listening => a = voice.armed /\ b = voice.barge
          /\ ~ voice.listening => a = FALSE /\ b = FALSE
          /\ PlaybackOver(voice, t) = [voice EXCEPT !.playing = p, !.armed = a, !.barge = b]
    BY PlaybackOverFacts
  <1>2. PICK w : w = [voice EXCEPT !.playing = p, !.armed = a, !.barge = b]
    OBVIOUS
  <1>3. w.continuous = voice.continuous /\ w.controller = voice.controller
    BY <1>2 DEF Formed
  <1>4. PICK o : o = Over(w, t)
    OBVIOUS
  <1>5. o = IF Greeting(t) \/ voice.controller = t THEN [w EXCEPT !.replying = FALSE, !.controller = 0] ELSE w
    BY <1>3, <1>4 DEF Over, GreetingOver, Greeting
  <1>6. o.continuous = voice.continuous
    BY <1>2, <1>3, <1>5 DEF Formed
  <1>7. PICK x : x = IF Greeting(t) THEN w ELSE o
    OBVIOUS
  <1>8. /\ x.continuous = voice.continuous
        /\ x.continuous => voice' = BeforeListening(x) /\ tasks' = Goes(t, "resuming")
        /\ ~ x.continuous => voice' = Over(x, t) /\ tasks' = Finished(t)
    BY <1>1, <1>2, <1>3, <1>4, <1>6, <1>7 DEF ReplyEnds, Greeting
  <1>9. CASE voice.continuous /\ ~ Greeting(t) /\ voice.controller = t
    <2>1. voice' = [voice EXCEPT !.playing = p, !.armed = a, !.barge = b, !.replying = FALSE, !.controller = 0,
                                 !.idle = FALSE, !.endpoint = "none"]
      BY <1>2, <1>5, <1>7, <1>8, <1>9 DEF BeforeListening, Formed
    <2>2. /\ Formed(voice') /\ Changes(Ends) /\ voice'.playing = p /\ voice'.armed = a /\ voice'.barge = b
          /\ voice'.replying = FALSE /\ voice'.controller = 0 /\ voice'.idle = FALSE /\ voice'.endpoint = "none"
      BY <2>1 DEF Formed, Changes
    <2> QED BY <1>1, <1>8, <1>9, <2>2
  <1>10. CASE voice.continuous /\ ~ (~ Greeting(t) /\ voice.controller = t)
    <2>1. voice' = [voice EXCEPT !.playing = p, !.armed = a, !.barge = b, !.idle = FALSE, !.endpoint = "none"]
      BY <1>2, <1>5, <1>7, <1>8, <1>10 DEF BeforeListening, Formed
    <2>2. /\ Formed(voice') /\ Changes(Ends) /\ voice'.playing = p /\ voice'.armed = a /\ voice'.barge = b
          /\ voice'.replying = voice.replying /\ voice'.controller = voice.controller
          /\ voice'.idle = FALSE /\ voice'.endpoint = "none"
      BY <2>1 DEF Formed, Changes
    <2> QED BY <1>1, <1>8, <1>10, <2>2
  <1>11. CASE ~ voice.continuous /\ (Greeting(t) \/ voice.controller = t)
    <2>1. x.controller \in {0, voice.controller} /\ (~ Greeting(t) => x = [w EXCEPT !.replying = FALSE, !.controller = 0])
      BY <1>2, <1>3, <1>5, <1>7, <1>11 DEF Formed
    <2>2. voice' = IF Greeting(t) \/ x.controller = t THEN [x EXCEPT !.replying = FALSE, !.controller = 0] ELSE x
      BY <1>8, <1>11 DEF Over, GreetingOver, Greeting
    <2>3. voice' = [w EXCEPT !.replying = FALSE, !.controller = 0]
      BY <1>2, <1>7, <2>1, <2>2 DEF Formed
    <2>4. voice' = [voice EXCEPT !.playing = p, !.armed = a, !.barge = b, !.replying = FALSE, !.controller = 0]
      BY <1>2, <2>3 DEF Formed
    <2>5. /\ Formed(voice') /\ Changes(Ends) /\ voice'.playing = p /\ voice'.armed = a /\ voice'.barge = b
          /\ voice'.replying = FALSE /\ voice'.controller = 0
          /\ voice'.idle = voice.idle /\ voice'.endpoint = voice.endpoint
      BY <2>4 DEF Formed, Changes
    <2> QED BY <1>1, <1>8, <1>11, <2>5
  <1>12. CASE ~ voice.continuous /\ ~ (Greeting(t) \/ voice.controller = t)
    <2>1. voice' = [voice EXCEPT !.playing = p, !.armed = a, !.barge = b]
      BY <1>2, <1>3, <1>5, <1>7, <1>8, <1>12 DEF Over, GreetingOver, Greeting
    <2>2. /\ Formed(voice') /\ Changes(Ends) /\ voice'.playing = p /\ voice'.armed = a /\ voice'.barge = b
          /\ voice'.replying = voice.replying /\ voice'.controller = voice.controller
          /\ voice'.idle = voice.idle /\ voice'.endpoint = voice.endpoint
      BY <2>1 DEF Formed, Changes
    <2> QED BY <1>1, <1>8, <1>12, <2>2
  <1> QED BY <1>9, <1>10, <1>11, <1>12

\* The history only grows by what was lost.
LEMMA LostCounted ==
  ASSUME Counted, used' = used, NEW lost \in SUBSET {"playback ended", "noise", "click", "more speech"},
         past' = [past EXCEPT !.lost = lost]
  PROVE  Counted' /\ past'.leftover = past.leftover /\ past'.unwatched = past.unwatched
  <1>1. /\ past' = [lost |-> past'.lost, leftover |-> past'.leftover, unwatched |-> past'.unwatched]
        /\ past'.lost = lost /\ past'.leftover = past.leftover /\ past'.unwatched = past.unwatched
    BY DEF Counted
  <1> QED BY <1>1 DEF Counted

LEMMA ReplyEndsKeeps ==
  ASSUME PageInv, NoMicrotask, NEW t \in DOMAIN tasks, ReplyEnds(t)
  PROVE  PageInv'
  <1> DEFINE Ends == {"playing", "armed", "barge", "replying", "controller", "idle", "endpoint"}
  <1>1. /\ At(t, "playing") /\ ~ tasks[t].aborted /\ UNCHANGED <<sockets, hearing, used>>
        /\ past' = [past EXCEPT !.lost = Lost("playback ended")] \/ past' = past
    BY DEF ReplyEnds, PlaybackOver
  <1>2. t # 0
    BY Shape DEF PageInv
  <1>3. /\ Formed(voice') /\ Changes(Ends)
        /\ voice'.playing \in {0, voice.playing} /\ (voice.playing = t => voice'.playing = 0)
        /\ voice.listening => voice'.armed = voice.armed /\ voice'.barge = voice.barge
        /\ ~ voice.listening => voice'.armed = FALSE /\ voice'.barge = FALSE
        /\ IF voice.continuous THEN voice'.idle = FALSE /\ voice'.endpoint = "none" /\ tasks' = Goes(t, "resuming")
           ELSE voice'.idle = voice.idle /\ voice'.endpoint = voice.endpoint /\ tasks' = Finished(t)
        /\ IF (voice.continuous /\ ~ Greeting(t) /\ voice.controller = t)
              \/ (~ voice.continuous /\ (Greeting(t) \/ voice.controller = t))
           THEN voice'.replying = FALSE /\ voice'.controller = 0
           ELSE voice'.replying = voice.replying /\ voice'.controller = voice.controller
    BY <1>2, ReplyEndsPage DEF PageInv, Typed
  <1>4. PICK r :
          /\ Becomes(tasks', t, r) /\ tasks' \in Seq(Task(Len(sockets))) /\ ~ r.aborted
          /\ IF voice.continuous THEN r.at = "resuming" /\ r.kind = tasks[t].kind
             ELSE r.at = "done" /\ r.kind = "listen"
    <2>1. CASE voice.continuous
      <3>1. \E r \in Task(Len(sockets)) :
              /\ Becomes(tasks', t, r) /\ tasks' \in Seq(Task(Len(sockets)))
              /\ r.at = "resuming" /\ r.kind = tasks[t].kind /\ r.aborted = tasks[t].aborted
        BY <1>3, <2>1, GoesOn DEF PageInv, Stages
      <3> QED BY <1>1, <2>1, <3>1
    <2>2. CASE ~ voice.continuous
      BY <1>3, <2>2, Finishes DEF PageInv
    <2> QED BY <2>1, <2>2
  <1>5. Typed'
    <2>1. voice'.controller \in 0 .. Len(tasks) /\ voice'.playing \in 0 .. Len(tasks)
      <3>1. PICK n \in Nat : n = Len(tasks)
        BY Shape DEF PageInv
      <3>2. voice.controller \in 0 .. n /\ voice.playing \in 0 .. n
        BY <3>1 DEF PageInv, Typed, Fields
      <3>3. voice'.controller \in {0, voice.controller} /\ voice'.playing \in {0, voice.playing}
        BY <1>3
      <3> QED BY <3>1, <3>2, <3>3
    <2>2. /\ voice'.replying \in BOOLEAN /\ voice'.armed \in BOOLEAN /\ voice'.barge \in BOOLEAN
          /\ voice'.idle \in BOOLEAN
      <3>1. /\ voice.replying \in BOOLEAN /\ voice.armed \in BOOLEAN /\ voice.barge \in BOOLEAN
            /\ voice.idle \in BOOLEAN
        BY DEF PageInv, Typed, Fields
      <3>2. /\ voice'.replying \in {voice.replying, FALSE} /\ voice'.armed \in {voice.armed, FALSE}
            /\ voice'.barge \in {voice.barge, FALSE} /\ voice'.idle \in {voice.idle, FALSE}
        BY <1>3
      <3> QED BY <3>1, <3>2
    <2>3. voice'.endpoint \in Word
      <3>1. voice'.endpoint \in {voice.endpoint, "none"}
        BY <1>3
      <3> QED BY <3>1 DEF PageInv, Typed, Fields, Word
    <2>4. Fit(Ends, Len(tasks), Len(sockets))
      BY <1>3, <2>1, <2>2, <2>3 DEF Fit
    <2> QED BY <1>1, <1>3, <1>4, <2>4, TypedTask DEF PageInv
  <1>6. Counted' /\ past'.leftover = past.leftover /\ past'.unwatched = past.unwatched
    <2>1. CASE past' = past
      BY <1>1, <2>1 DEF PageInv, Counted
    <2>2. CASE past' = [past EXCEPT !.lost = Lost("playback ended")]
      <3>1. Lost("playback ended") \in SUBSET {"playback ended", "noise", "click", "more speech"}
        BY DEF Lost, PageInv, Counted
      <3> QED BY <1>1, <2>2, <3>1, LostCounted DEF PageInv
    <2> QED BY <1>1, <2>1, <2>2
  <1>7. Flags'
    BY <1>3 DEF PageInv, Flags, Changes
  <1>8. TasksOK'
    <2>1. \A u \in DOMAIN tasks : ~ At(u, "resuming")
      BY DEF NoMicrotask, Settled
    <2>2. voice'.controller \in {0, voice.controller} /\ voice'.page = voice.page
          /\ voice'.continuous = voice.continuous
      BY <1>3 DEF Changes
    <2>3. ASSUME NEW u \in DOMAIN tasks, u # t
          PROVE  tasks'[u] = tasks[u] /\ (u = voice'.controller => u = voice.controller)
      BY <1>4, <2>2, <2>3, Shape DEF Becomes, PageInv
    <2>4. /\ tasks'[t] = r /\ ~ r.aborted /\ (r.kind = tasks[t].kind \/ r.kind = "listen")
          /\ r.at \in {"resuming", "done"} /\ (r.at = "resuming" => voice.continuous /\ r.kind = tasks[t].kind)
          /\ r.at = "done" => r.kind = "listen"
      <3>1. CASE voice.continuous
        BY <1>4, <3>1 DEF Becomes
      <3>2. CASE ~ voice.continuous
        BY <1>4, <3>2 DEF Becomes
      <3> QED BY <3>1, <3>2
    <2>5. r.at = "resuming" /\ t = voice'.controller => r.kind = "greeting"
      BY <1>2, <1>3, <1>4 DEF Greeting
    <2>6. DOMAIN tasks' = DOMAIN tasks
      BY <1>4 DEF Becomes
    <2>7. ASSUME NEW u \in DOMAIN tasks
          PROVE  /\ (u = voice'.controller \/ tasks'[u].aborted) /\ ~ At(u, "done")' =>
                      At(u, "asked")' \/ At(u, "playing")' \/ (Greeting(u)' /\ ToListen(u)')
                 /\ voice'.page = "test" /\ tasks'[u].aborted /\ ~ At(u, "done")' => voice'.controller # u
                 /\ Greeting(u)' => voice'.page = "test"
                 /\ At(u, "starting")' => Greeting(u)'
                 /\ At(u, "done")' => ~ Greeting(u)'
                 /\ At(u, "microphone")' /\ tasks'[u].kind = "listen" => voice'.page = "pilot"
                 /\ At(u, "resuming")' /\ voice'.page = "test" => voice'.continuous
      <3>1. CASE u = t
        BY <2>2, <2>4, <2>5, <3>1 DEF At, Greeting, ToListen, PageInv, TasksOK
      <3>2. CASE u # t
        BY <2>2, <2>3, <3>2 DEF At, Greeting, ToListen, PageInv, TasksOK
      <3> QED BY <3>1, <3>2
    <2>8. ASSUME NEW u \in DOMAIN tasks, At(u, "resuming")'
          PROVE  u = t
      BY <2>1, <2>3, <2>8 DEF At
    <2> QED BY <2>6, <2>7, <2>8 DEF TasksOK
  <1>9. SameWaits /\ SameResumes
    BY <1>1, <1>3, <1>4 DEF SameWaits, SameResumes, Becomes, At
  <1>10. SocketsOK' /\ EndpointOK'
    BY <1>1, <1>3, <1>9, Undisturbed DEF PageInv, Changes
  <1>11. ASSUME Orderly
         PROVE  OrderlyOK'
    <2>1. t \in Current /\ \A u \in Current : u = t
      BY <1>1, <1>11 DEF PageInv, OrderlyOK, OneCurrent, Current, At
    <2>2. \A u : u \in Current' <=> u = t /\ r.at # "done"
      BY <1>4, <2>1 DEF Current, Becomes, At
    <2>3. voice.controller = t /\ voice.replying /\ voice.playing = t /\ voice.continuous
      BY <1>1, <1>11, <2>1 DEF PageInv, OrderlyOK, Kept, Replying, Flags, At
    <2>4. OneCurrent'
      <3>1. \A u \in DOMAIN tasks' : u \in DOMAIN tasks /\ (Greeting(u)' => Greeting(u))
                                     /\ (tasks'[u].aborted => tasks[u].aborted)
                                     /\ (u # t => tasks'[u] = tasks[u])
        BY <1>4 DEF Becomes, Greeting
      <3>2. \A u \in DOMAIN tasks : Greeting(u) /\ tasks[u].aborted => At(u, "done")
        BY <1>11, <2>1 DEF PageInv, OrderlyOK, OneCurrent
      <3>3. tasks'[t] = r /\ ~ r.aborted
        BY <1>4 DEF Becomes
      <3> QED BY <1>11, <2>2, <3>1, <3>2, <3>3 DEF PageInv, OrderlyOK, OneCurrent, At
    <2>5. Kept'
      BY <1>3, <1>4, <2>2, <2>3 DEF Kept, Becomes, Changes, Replying, Greeting, ToListen, At
    <2>6. Silence'
      BY <1>3, <1>4, <2>2, <2>3 DEF Silence, Changes, Becomes, ToListen, At
    <2>7. Waited'
      BY <1>1, <1>3, <1>9, <1>11 DEF PageInv, OrderlyOK, Waited, SameWaits, Changes, Pending
    <2>8. SilenceIsNoticed' /\ StaleWordsNeedBargeIn'
      <3>1. Resuming'
        BY <1>4, <2>2, <2>3 DEF Resuming, Current, Becomes
      <3> QED BY <1>3, <2>3, <3>1 DEF SilenceIsNoticed, StaleWordsNeedBargeIn
    <2> QED BY <2>4, <2>5, <2>6, <2>7, <2>8 DEF OrderlyOK
  <1>12. Orderly' => OrderlyOK'
    BY <1>6, <1>11 DEF Orderly
  <1> QED BY <1>5, <1>6, <1>7, <1>8, <1>10, <1>12 DEF PageInv

LEMMA ListensPage ==
  ASSUME PageInv, NEW t \in DOMAIN tasks, Listens(t)
  PROVE  /\ Formed(voice')
         /\ Changes({"stage", "armed", "barge", "words", "listening", "idle", "replying", "controller"})
         /\ IF voice.continuous
            THEN /\ voice'.stage \in {0, voice.stage} /\ voice'.armed = FALSE /\ voice'.barge = FALSE
                 /\ voice'.words = "none" /\ voice'.listening = TRUE
                 /\ voice'.idle = (voice.page = "test" /\ ~ voice.replying)
            ELSE /\ voice'.stage = voice.stage /\ voice'.armed = voice.armed /\ voice'.barge = voice.barge
                 /\ voice'.words = voice.words /\ voice'.listening = voice.listening
                 /\ voice'.idle = voice.idle
         /\ IF Greeting(t) THEN voice'.replying = FALSE /\ voice'.controller = 0
            ELSE voice'.replying = voice.replying /\ voice'.controller = voice.controller
  <1> DEFINE Begun == {"stage", "armed", "barge", "words", "listening", "idle", "replying", "controller"}
  <1>1. Formed(voice) /\ voice.continuous \in BOOLEAN
    BY DEF PageInv, Typed, Fields
  <1>2. PICK v : v = IF voice.continuous THEN WithTimer(ListeningAgain(t)) ELSE voice
    OBVIOUS
  <1>3. voice' = IF Greeting(t) THEN [v EXCEPT !.replying = FALSE, !.controller = 0] ELSE v
    BY <1>2 DEF Listens, GreetingOver, Greeting
  <1>4. CASE voice.continuous
    <2>1. PICK stage : stage = IF tasks[t].preserve THEN voice.stage ELSE 0
      OBVIOUS
    <2>2. PICK idle : idle = (voice.page = "test" /\ ~ voice.replying)
      OBVIOUS
    <2>3. PICK w : w = [voice EXCEPT !.stage = stage, !.armed = FALSE, !.barge = FALSE,
                                     !.words = "none", !.listening = TRUE]
      OBVIOUS
    <2>4. /\ w = ListeningAgain(t)
          /\ (w.page = "test" /\ w.continuous /\ w.listening /\ ~ w.replying) = idle
      BY <1>1, <1>4, <2>1, <2>2, <2>3 DEF ListeningAgain, Formed
    <2>5. v = [w EXCEPT !.idle = idle]
      BY <1>2, <1>4, <2>4 DEF WithTimer
    <2>6. v = [voice EXCEPT !.stage = stage, !.armed = FALSE, !.barge = FALSE,
                            !.words = "none", !.listening = TRUE, !.idle = idle]
      BY <1>1, <2>3, <2>5 DEF Formed
    <2>7. CASE Greeting(t)
      <3>1. voice' = [voice EXCEPT !.stage = stage, !.armed = FALSE, !.barge = FALSE, !.words = "none",
                                   !.listening = TRUE, !.idle = idle, !.replying = FALSE, !.controller = 0]
        BY <1>1, <1>3, <2>6, <2>7 DEF Formed
      <3>2. /\ Formed(voice') /\ Changes(Begun) /\ voice'.stage = stage /\ voice'.armed = FALSE
            /\ voice'.barge = FALSE /\ voice'.words = "none" /\ voice'.listening = TRUE
            /\ voice'.idle = idle /\ voice'.replying = FALSE /\ voice'.controller = 0
        BY <1>1, <3>1 DEF Formed, Changes
      <3> QED BY <1>4, <2>1, <2>2, <2>7, <3>2
    <2>8. CASE ~ Greeting(t)
      <3>1. voice' = [voice EXCEPT !.stage = stage, !.armed = FALSE, !.barge = FALSE, !.words = "none",
                                   !.listening = TRUE, !.idle = idle]
        BY <1>3, <2>6, <2>8
      <3>2. /\ Formed(voice') /\ Changes(Begun) /\ voice'.stage = stage /\ voice'.armed = FALSE
            /\ voice'.barge = FALSE /\ voice'.words = "none" /\ voice'.listening = TRUE
            /\ voice'.idle = idle /\ voice'.replying = voice.replying /\ voice'.controller = voice.controller
        BY <1>1, <3>1 DEF Formed, Changes
      <3> QED BY <1>4, <2>1, <2>2, <2>8, <3>2
    <2> QED BY <2>7, <2>8
  <1>5. CASE ~ voice.continuous
    <2>1. v = voice
      BY <1>2, <1>5
    <2>2. CASE Greeting(t)
      <3>1. voice' = [voice EXCEPT !.replying = FALSE, !.controller = 0]
        BY <1>3, <2>1, <2>2
      <3>2. /\ Formed(voice') /\ Changes({"replying", "controller"})
            /\ voice'.replying = FALSE /\ voice'.controller = 0
        BY <1>1, <3>1 DEF Formed, Changes
      <3> QED BY <1>5, <2>2, <3>2 DEF Changes
    <2>3. CASE ~ Greeting(t)
      <3>1. voice' = voice
        BY <1>3, <2>1, <2>3
      <3> QED BY <1>1, <1>5, <2>3, <3>1 DEF Changes
    <2> QED BY <2>2, <2>3
  <1> QED BY <1>4, <1>5

LEMMA ListensKeeps ==
  ASSUME PageInv, NEW t \in DOMAIN tasks, Listens(t)
  PROVE  PageInv'
  <1> DEFINE Begun == {"stage", "armed", "barge", "words", "listening", "idle", "replying", "controller"}
  <1>1. /\ At(t, "recogniser") /\ tasks' = Finished(t) /\ UNCHANGED <<sockets, hearing, used>>
        /\ tasks[t].awaits # 0 => sockets[tasks[t].awaits].settled
    BY DEF Listens
  <1>2. /\ Formed(voice') /\ Changes(Begun)
        /\ IF voice.continuous
           THEN /\ voice'.stage \in {0, voice.stage} /\ voice'.armed = FALSE /\ voice'.barge = FALSE
                /\ voice'.words = "none" /\ voice'.listening = TRUE
                /\ voice'.idle = (voice.page = "test" /\ ~ voice.replying)
           ELSE /\ voice'.stage = voice.stage /\ voice'.armed = voice.armed /\ voice'.barge = voice.barge
                /\ voice'.words = voice.words /\ voice'.listening = voice.listening
                /\ voice'.idle = voice.idle
        /\ IF Greeting(t) THEN voice'.replying = FALSE /\ voice'.controller = 0
           ELSE voice'.replying = voice.replying /\ voice'.controller = voice.controller
    BY ListensPage
  <1>3. /\ Becomes(tasks', t, FinishedTask) /\ tasks' \in Seq(Task(Len(sockets)))
        /\ FinishedTask.at = "done" /\ FinishedTask.kind = "listen" /\ ~ FinishedTask.aborted
    BY <1>1, Finishes DEF PageInv
  <1>4. Typed'
    <2>1. voice'.controller \in 0 .. Len(tasks)
      <3>1. PICK n \in Nat : n = Len(tasks)
        BY Shape DEF PageInv
      <3>2. voice.controller \in 0 .. n
        BY <3>1 DEF PageInv, Typed, Fields
      <3>3. voice'.controller \in {0, voice.controller}
        BY <1>2
      <3> QED BY <3>1, <3>2, <3>3
    <2>2. /\ voice'.replying \in BOOLEAN /\ voice'.armed \in BOOLEAN /\ voice'.barge \in BOOLEAN
          /\ voice'.idle \in BOOLEAN /\ voice'.listening \in BOOLEAN
      <3>1. /\ voice.replying \in BOOLEAN /\ voice.armed \in BOOLEAN /\ voice.barge \in BOOLEAN
            /\ voice.idle \in BOOLEAN /\ voice.listening \in BOOLEAN
        BY DEF PageInv, Typed, Fields
      <3> QED BY <1>2, <3>1
    <2>3. voice'.words \in Word
      <3>1. voice'.words \in {voice.words, "none"}
        BY <1>2
      <3> QED BY <3>1 DEF PageInv, Typed, Fields, Word
    <2>4. voice'.stage \in 0 .. 1
      <3>1. voice.stage \in 0 .. 1 /\ voice'.stage \in {0, voice.stage}
        BY <1>2 DEF PageInv, Typed, Fields
      <3> QED BY <3>1
    <2>5. Fit(Begun, Len(tasks), Len(sockets))
      BY <1>2, <2>1, <2>2, <2>3, <2>4 DEF Fit
    <2> QED BY <1>1, <1>2, <1>3, <2>5, TypedTask DEF PageInv
  <1>5. /\ past' = [past EXCEPT !.unwatched = past'.unwatched, !.lost = past'.lost]
        /\ past'.unwatched = (voice.continuous /\ Greeting(t))
        /\ past'.lost \in {past.lost, past.lost \cup {"playback ended"}} /\ past'.leftover = past.leftover
    <2>1. PICK unwatched, lost :
            /\ unwatched = (voice.continuous /\ Greeting(t)) /\ lost \in {past.lost, past.lost \cup {"playback ended"}}
            /\ past' = [past EXCEPT !.unwatched = unwatched, !.lost = lost]
      BY DEF Listens, Greeting
    <2>2. past'.unwatched = unwatched /\ past'.lost = lost /\ past'.leftover = past.leftover
      BY <2>1 DEF PageInv, Counted
    <2> QED BY <2>1, <2>2
  <1>6. Counted'
    <2>1. past'.unwatched \in BOOLEAN
      BY <1>5 DEF PageInv, Typed, Fields, Greeting
    <2>2. past' = [lost |-> past'.lost, leftover |-> past'.leftover, unwatched |-> past'.unwatched]
      BY <1>5 DEF PageInv, Counted
    <2> QED BY <1>1, <1>5, <2>1, <2>2 DEF PageInv, Counted
  <1>7. voice.page = "test" => voice.endpoint = "none"
    BY <1>1 DEF PageInv, EndpointOK
  <1>8. Flags'
    <2>1. CASE voice.continuous
      BY <1>2, <1>7, <2>1 DEF PageInv, Flags, Changes
    <2>2. CASE ~ voice.continuous
      BY <1>2, <2>2 DEF PageInv, Flags, Changes
    <2> QED BY <2>1, <2>2
  <1>9. TasksOK'
    BY <1>1, <1>2, <1>3, Shape DEF PageInv, TasksOK, Becomes, Changes, At, Greeting, ToListen
  <1>10. SameWaits /\ SameResumes
    BY <1>1, <1>3 DEF SameWaits, SameResumes, Becomes, At
  <1>11. SocketsOK' /\ EndpointOK'
    BY <1>1, <1>2, <1>10, Undisturbed DEF PageInv, Changes
  <1>12. ASSUME Orderly
         PROVE  OrderlyOK'
    <2>1. \A u \in Current : u = t
      <3>1. CASE tasks[t].aborted
        BY <1>1, <1>12, <3>1 DEF PageInv, TasksOK, OrderlyOK, OneCurrent, At
      <3>2. CASE ~ tasks[t].aborted
        BY <1>1, <1>12, <3>2 DEF PageInv, OrderlyOK, OneCurrent, Current, At
      <3> QED BY <3>1, <3>2
    <2>2. Current' = {}
      BY <1>3, <2>1 DEF Current, Becomes, At
    <2>3. tasks[t].aborted => Greeting(t) /\ ~ voice.continuous
      BY <1>1, <1>12 DEF PageInv, TasksOK, OrderlyOK, OneCurrent, At
    <2>4. ~ Greeting(t) => ~ voice.replying
      BY <1>1, <1>12, <2>1, <2>3 DEF PageInv, TasksOK, OrderlyOK, Kept, At
    <2>5. voice.playing = 0
      BY <1>1, <1>12, <2>1 DEF PageInv, OrderlyOK, Kept, At
    <2>6. voice'.replying = FALSE
      BY <1>2, <2>4 DEF PageInv, Typed, Fields
    <2>7. voice'.continuous /\ voice'.listening => voice'.endpoint = "none"
      <3>1. ASSUME voice.continuous, voice.endpoint # "none"
            PROVE  FALSE
        <4>1. t \in Current /\ voice.listening
          BY <1>1, <2>3, <3>1 DEF Current, At, PageInv, Flags
        <4> QED BY <1>1, <1>12, <3>1, <4>1 DEF PageInv, OrderlyOK, Silence, At
      <3> QED BY <1>2, <3>1 DEF Changes
    <2>8. voice'.armed = FALSE /\ voice'.barge = FALSE
      <3>1. CASE voice.continuous
        BY <1>2, <3>1
      <3>2. CASE ~ voice.continuous
        <4>1. ~ voice.armed /\ ~ voice.barge
          BY <1>12, <3>2 DEF PageInv, OrderlyOK, Kept
        <4> QED BY <1>2, <3>2, <4>1 DEF PageInv, Typed, Fields
      <3> QED BY <3>1, <3>2
    <2>9. OneCurrent'
      <3>1. \A u \in DOMAIN tasks' : u \in DOMAIN tasks /\ (Greeting(u)' => Greeting(u))
                                     /\ (u # t => tasks'[u] = tasks[u])
        BY <1>3 DEF Becomes, Greeting
      <3>2. ASSUME NEW u \in DOMAIN tasks', Greeting(u)', tasks'[u].aborted, ~ At(u, "done")'
            PROVE  ~ voice.continuous
        BY <1>3, <1>12, <3>1, <3>2 DEF PageInv, OrderlyOK, OneCurrent, Becomes, Greeting, At
      <3> QED BY <1>2, <1>12, <2>2, <3>1, <3>2 DEF PageInv, OrderlyOK, OneCurrent, Changes
    <2>10. Kept'
      BY <1>2, <2>2, <2>5, <2>6, <2>8 DEF Kept, Changes
    <2>11. Silence'
      <3>1. CASE voice.continuous
        BY <1>2, <2>2, <2>6, <2>7, <3>1 DEF Silence, Changes
      <3>2. CASE ~ voice.continuous
        <4>1. ~ voice.listening /\ ~ voice.idle
          BY <1>12, <3>2 DEF PageInv, OrderlyOK, Silence, Flags
        <4> QED BY <1>2, <2>2, <3>2, <4>1 DEF Silence
      <3> QED BY <3>1, <3>2
    <2>12. Waited'
      BY <1>1, <1>2, <1>10, <1>12 DEF PageInv, OrderlyOK, Waited, SameWaits, Changes, Pending
    <2>13. SilenceIsNoticed'
      BY <1>2, <1>5, <2>4 DEF SilenceIsNoticed, Changes
    <2>14. StaleWordsNeedBargeIn'
      BY <2>7, <1>8 DEF StaleWordsNeedBargeIn, Flags
    <2> QED BY <2>9, <2>10, <2>11, <2>12, <2>13, <2>14 DEF OrderlyOK
  <1>13. Orderly' => OrderlyOK'
    BY <1>5, <1>12 DEF Orderly
  <1> QED BY <1>4, <1>6, <1>8, <1>9, <1>11, <1>13 DEF PageInv

-----------------------------------------------------------------------------
(* Connections come and go *)

\* Connection s is let go: it is closing, unless it is closed.
Releases(ss, s) ==
  /\ DOMAIN ss = DOMAIN sockets /\ Len(ss) = Len(sockets)
  /\ \A i \in DOMAIN sockets :
       /\ ss[i].settled = sockets[i].settled
       /\ ss[i].phase = IF i = s /\ sockets[i].phase # "closed" THEN "closing" ELSE sockets[i].phase

\* The connections are those of ss, and a new one.
Connects(ss) ==
  /\ Len(sockets') = Len(ss) + 1 /\ DOMAIN sockets' = DOMAIN ss \cup {Len(ss) + 1}
  /\ Len(ss) + 1 \notin DOMAIN ss /\ Len(ss) + 1 # 0
  /\ sockets'[Len(ss) + 1].phase = "connecting" /\ ~ sockets'[Len(ss) + 1].settled
  /\ \A i \in DOMAIN ss : sockets'[i] = ss[i]

LEMMA ClosingReleases ==
  ASSUME Typed, NEW s
  PROVE  Releases(Closing(s), s) /\ Closing(s) \in Seq(Socket)
  <1>1. PICK S : S = Socket
    OBVIOUS
  <1>2. PICK m \in Nat : m = Len(sockets) /\ DOMAIN sockets = 1 .. m
    BY Shape
  <1>3. PICK new : new = Closing(s)
    OBVIOUS
  <1>4. new = [i \in 1 .. m |-> new[i]]
    BY <1>2, <1>3, Zenon DEF Closing
  <1>5. ASSUME NEW i \in 1 .. m
        PROVE  /\ new[i] \in S
               /\ new[i].settled = sockets[i].settled
               /\ new[i].phase = IF i = s /\ sockets[i].phase # "closed" THEN "closing" ELSE sockets[i].phase
    <2>1. PICK old \in S : old = sockets[i]
      BY <1>1, <1>2, Shape
    <2>2. new[i] = IF i = s /\ old.phase # "closed" THEN [old EXCEPT !.phase = "closing"] ELSE old
      BY <1>2, <1>3, <2>1 DEF Closing
    <2> QED BY <1>1, <2>1, <2>2 DEF Socket, Phases
  <1>6. new \in Seq(S) /\ Len(new) = m
    BY <1>4, <1>5, SequenceOf
  <1>7. DOMAIN new = 1 .. m
    BY <1>4
  <1> QED BY <1>1, <1>2, <1>3, <1>5, <1>6, <1>7 DEF Releases

LEMMA Connecting ==
  ASSUME NEW ss \in Seq(Socket), sockets' = Append(ss, [phase |-> "connecting", settled |-> FALSE])
  PROVE  Connects(ss) /\ sockets' \in Seq(Socket) /\ Len(ss) \in Nat
  <1>1. PICK S, c : S = Socket /\ c = [phase |-> "connecting", settled |-> FALSE]
    OBVIOUS
  <1>2. c \in S /\ c.phase = "connecting" /\ ~ c.settled
    BY <1>1 DEF Socket, Phases
  <1>3. PICK k \in Nat : k = Len(ss) /\ DOMAIN ss = 1 .. k
    BY <1>1, LenProperties
  <1>4. PICK new : new = Append(ss, c)
    OBVIOUS
  <1>5. /\ new \in Seq(S) /\ Len(new) = k + 1 /\ new[k + 1] = c
        /\ \A i \in 1 .. k : new[i] = ss[i]
    BY <1>1, <1>2, <1>3, <1>4, AppendProperties
  <1>6. DOMAIN new = 1 .. k + 1
    BY <1>5, LenProperties
  <1>7. sockets' = new
    BY <1>1, <1>4
  <1> QED BY <1>1, <1>2, <1>3, <1>5, <1>6, <1>7 DEF Connects

LEMMA MoreConnections ==
  ASSUME Typed, NEW m \in Nat, Len(sockets) <= m
  PROVE  tasks \in Seq(Task(m))
  <1>1. PICK n \in Nat : n = Len(sockets)
    BY Shape
  <1>2. PICK S, T : S = Task(n) /\ T = Task(m)
    OBVIOUS
  <1>3. \A r \in S : r \in T
    BY <1>1, <1>2, LargerTask
  <1>4. tasks \in Seq(S)
    BY <1>1, <1>2 DEF Typed
  <1>5. Len(tasks) \in Nat /\ tasks \in [1 .. Len(tasks) -> S]
    BY <1>4, LenProperties
  <1>6. tasks = [i \in 1 .. Len(tasks) |-> tasks[i]] /\ \A i \in 1 .. Len(tasks) : tasks[i] \in T
    BY <1>3, <1>5
  <1>7. tasks \in Seq(T)
    BY <1>5, <1>6, SequenceOf
  <1> QED BY <1>2, <1>7

\* A task asks for connection c, of which there may be a new one.
AsksFor(t, c) == [tasks EXCEPT ![t].at = "recogniser", ![t].awaits = c]

LEMMA Awaiting ==
  ASSUME Typed, NEW t \in DOMAIN tasks, NEW m \in Nat, Len(sockets) <= m, NEW c \in 0 .. m,
         tasks' = AsksFor(t, c)
  PROVE  /\ tasks' \in Seq(Task(m))
         /\ \E r \in Task(m) : /\ Becomes(tasks', t, r) /\ r.at = "recogniser" /\ r.awaits = c
                               /\ r.kind = tasks[t].kind /\ r.aborted = tasks[t].aborted
  <1>1. PICK S : S = Task(m)
    OBVIOUS
  <1>2. tasks \in Seq(S)
    BY <1>1, MoreConnections
  <1>3. PICK k \in Nat : k = Len(tasks) /\ DOMAIN tasks = 1 .. k /\ tasks \in [1 .. k -> S]
    BY <1>2, LenProperties
  <1>4. PICK old \in S : old = tasks[t]
    BY <1>3
  <1>5. PICK r : r = [old EXCEPT !.at = "recogniser", !.awaits = c]
    OBVIOUS
  <1>6. /\ r \in S /\ r.at = "recogniser" /\ r.awaits = c /\ r.kind = old.kind /\ r.aborted = old.aborted
    BY <1>1, <1>4, <1>5 DEF Task, Stages
  <1>7. tasks' = [tasks EXCEPT ![t] = r]
    BY <1>4, <1>5 DEF AsksFor
  <1>8. tasks' \in Seq(S) /\ Len(tasks') = k
    <2>1. t \in 1 .. Len(tasks) /\ r \in S
      BY <1>3, <1>6
    <2>2. [tasks EXCEPT ![t] = r] \in Seq(S) /\ Len([tasks EXCEPT ![t] = r]) = Len(tasks)
      BY <1>2, <2>1, ExceptSeq
    <2> QED BY <1>3, <1>7, <2>2
  <1>9. Becomes(tasks', t, r)
    BY <1>3, <1>7, <1>8 DEF Becomes
  <1> QED BY <1>1, <1>4, <1>6, <1>8, <1>9

\* What is asked of the connections: the one there is, the one under way, or a
\* new one, where one that is not ready is let go.
LEMMA EnsureRecogniserPage ==
  ASSUME PageInv, NEW t \in DOMAIN tasks, EnsureRecogniser(t)
  PROVE  \E r, ss :
    /\ Becomes(tasks', t, r) /\ tasks' \in Seq(Task(Len(sockets')))
    /\ r.at = "recogniser" /\ r.kind = tasks[t].kind /\ r.aborted = tasks[t].aborted
    /\ sockets' \in Seq(Socket) /\ Len(sockets') \in Nat /\ Len(sockets) <= Len(sockets')
    /\ Formed(voice') /\ Changes({"socket", "promise", "ready", "endpoint"})
    /\ \/ /\ Open(voice.socket) /\ voice.ready /\ r.awaits = 0
          /\ sockets' = sockets /\ voice' = voice /\ past' = past /\ hearing' = hearing
       \/ /\ ~ Open(voice.socket) /\ voice.promise # 0 /\ r.awaits = voice.promise
          /\ sockets' = sockets /\ voice' = voice /\ past' = past /\ hearing' = hearing
       \/ /\ Open(voice.socket) /\ ~ voice.ready /\ voice.promise # 0 /\ r.awaits = voice.promise
          /\ Releases(sockets', voice.socket)
          /\ voice'.socket = 0 /\ voice'.promise = voice.promise /\ voice'.ready = FALSE
          /\ voice'.endpoint = "none" /\ hearing' = FALSE
       \/ /\ ~ (Open(voice.socket) /\ voice.ready) /\ voice.promise = 0 /\ r.awaits = Len(sockets')
          /\ Connects(ss)
          /\ IF Open(voice.socket) THEN Releases(ss, voice.socket) /\ hearing' = FALSE
             ELSE ss = sockets /\ hearing' = hearing
          /\ voice'.socket = Len(sockets') /\ voice'.promise = Len(sockets') /\ voice'.ready = FALSE
          /\ voice'.endpoint = voice.endpoint
    /\ past' = past \/ past' = [past EXCEPT !.lost = Lost("click")]
  <1> DEFINE Asked == {"socket", "promise", "ready", "endpoint"}
  <1>1. PICK m \in Nat : m = Len(sockets)
    BY Shape DEF PageInv
  <1>2. PICK closed : closed = (Open(voice.socket) /\ ~ voice.ready)
    OBVIOUS
  <1>3. PICK ss : ss = IF closed THEN Closing(voice.socket) ELSE sockets
    OBVIOUS
  <1>4. /\ ss \in Seq(Socket) /\ Len(ss) = m
        /\ closed => Releases(ss, voice.socket)
    <2>1. Releases(Closing(voice.socket), voice.socket) /\ Closing(voice.socket) \in Seq(Socket)
      BY ClosingReleases DEF PageInv
    <2>2. sockets \in Seq(Socket)
      BY DEF PageInv, Typed
    <2> QED BY <1>1, <1>3, <2>1, <2>2 DEF Releases
  <1>5. PICK awaits :
          /\ tasks' = AsksFor(t, awaits)
          /\ awaits = IF Open(voice.socket) /\ voice.ready THEN 0
                      ELSE IF voice.promise = 0 THEN m + 1 ELSE voice.promise
    BY <1>1 DEF EnsureRecogniser, AsksFor
  <1>6. /\ IF ~ (Open(voice.socket) /\ voice.ready) /\ voice.promise = 0
           THEN /\ sockets' = Append(ss, [phase |-> "connecting", settled |-> FALSE])
                /\ voice' = [voice EXCEPT !.socket = m + 1, !.promise = m + 1, !.ready = FALSE]
           ELSE /\ sockets' = ss
                /\ voice' = IF closed THEN [voice EXCEPT !.socket = 0, !.ready = FALSE, !.endpoint = "none"]
                            ELSE voice
        /\ past' = [past EXCEPT !.lost = IF closed THEN Lost("click") ELSE @]
        /\ hearing' = (hearing /\ ~ closed)
    BY <1>1, <1>2, <1>3 DEF EnsureRecogniser
  <1>7. past' = past \/ past' = [past EXCEPT !.lost = Lost("click")]
    BY <1>6 DEF PageInv, Counted
  <1>8. /\ closed => hearing' = FALSE
        /\ ~ closed => hearing' = hearing /\ past' = past
    <2>1. hearing \in BOOLEAN
      BY DEF PageInv, Typed
    <2> QED BY <1>6, <2>1 DEF PageInv, Counted
  <1>9. CASE ~ (Open(voice.socket) /\ voice.ready) /\ voice.promise = 0
    <2>1. sockets' = Append(ss, [phase |-> "connecting", settled |-> FALSE])
      BY <1>6, <1>9
    <2>2. Connects(ss) /\ sockets' \in Seq(Socket) /\ Len(sockets') = m + 1
      BY <1>4, <2>1, Connecting DEF Connects
    <2>3. awaits = m + 1 /\ m <= m + 1 /\ m + 1 \in Nat
      BY <1>5, <1>9
    <2>4. PICK r :
            /\ tasks' \in Seq(Task(m + 1))
            /\ Becomes(tasks', t, r) /\ r.at = "recogniser" /\ r.awaits = m + 1
            /\ r.kind = tasks[t].kind /\ r.aborted = tasks[t].aborted
      <3>1. PICK k, c : k \in Nat /\ k = m + 1 /\ c \in 0 .. k /\ c = awaits /\ Len(sockets) <= k
        BY <1>1, <2>3
      <3>2. tasks' = AsksFor(t, c)
        BY <1>5, <3>1
      <3>3. /\ tasks' \in Seq(Task(k))
            /\ \E r \in Task(k) : /\ Becomes(tasks', t, r) /\ r.at = "recogniser" /\ r.awaits = c
                                  /\ r.kind = tasks[t].kind /\ r.aborted = tasks[t].aborted
        BY <3>1, <3>2, Awaiting DEF PageInv
      <3> QED BY <3>1, <3>3, <2>3
    <2>5. voice' = [voice EXCEPT !.socket = m + 1, !.promise = m + 1, !.ready = FALSE]
      BY <1>6, <1>9
    <2>6. /\ Formed(voice') /\ Changes(Asked) /\ voice'.socket = m + 1 /\ voice'.promise = m + 1
          /\ voice'.ready = FALSE /\ voice'.endpoint = voice.endpoint
      BY <2>5 DEF PageInv, Typed, Formed, Changes
    <2>7. IF Open(voice.socket) THEN Releases(ss, voice.socket) /\ hearing' = FALSE
          ELSE ss = sockets /\ hearing' = hearing
      BY <1>2, <1>3, <1>4, <1>8, <1>9
    <2> WITNESS r, ss
    <2> QED BY <1>1, <1>7, <1>9, <2>2, <2>3, <2>4, <2>6, <2>7
  <1>10. CASE ~ (~ (Open(voice.socket) /\ voice.ready) /\ voice.promise = 0)
    <2>1. sockets' = ss /\ sockets' \in Seq(Socket) /\ Len(sockets') = m
      BY <1>4, <1>6, <1>10
    <2>2. awaits \in 0 .. m /\ m <= m
      <3>1. voice.promise \in 0 .. m
        BY <1>1 DEF PageInv, Typed, Fields
      <3> QED BY <1>5, <1>10, <3>1
    <2>3. PICK r :
            /\ tasks' \in Seq(Task(m))
            /\ Becomes(tasks', t, r) /\ r.at = "recogniser" /\ r.awaits = awaits
            /\ r.kind = tasks[t].kind /\ r.aborted = tasks[t].aborted
      <3>1. PICK k, c : k \in Nat /\ k = m /\ c \in 0 .. k /\ c = awaits /\ Len(sockets) <= k
        BY <1>1, <2>2
      <3>2. tasks' = AsksFor(t, c)
        BY <1>5, <3>1
      <3>3. /\ tasks' \in Seq(Task(k))
            /\ \E r \in Task(k) : /\ Becomes(tasks', t, r) /\ r.at = "recogniser" /\ r.awaits = c
                                  /\ r.kind = tasks[t].kind /\ r.aborted = tasks[t].aborted
        BY <3>1, <3>2, Awaiting DEF PageInv
      <3> QED BY <3>1, <3>3
    <2>4. CASE closed
      <3>1. voice' = [voice EXCEPT !.socket = 0, !.ready = FALSE, !.endpoint = "none"]
        BY <1>6, <1>10, <2>4
      <3>2. /\ Formed(voice') /\ Changes(Asked) /\ voice'.socket = 0 /\ voice'.promise = voice.promise
            /\ voice'.ready = FALSE /\ voice'.endpoint = "none"
        BY <3>1 DEF PageInv, Typed, Formed, Changes
      <3>3. /\ Open(voice.socket) /\ ~ voice.ready /\ voice.promise # 0 /\ awaits = voice.promise
            /\ Releases(sockets', voice.socket) /\ hearing' = FALSE
        BY <1>2, <1>4, <1>5, <1>8, <1>10, <2>1, <2>4
      <3> WITNESS r, ss
      <3> QED BY <1>1, <1>7, <2>1, <2>2, <2>3, <3>2, <3>3
    <2>5. CASE ~ closed
      <3>1. voice' = voice /\ sockets' = sockets /\ hearing' = hearing /\ past' = past
        BY <1>3, <1>6, <1>8, <1>10, <2>1, <2>5
      <3>2. Formed(voice') /\ Changes(Asked)
        BY <3>1 DEF PageInv, Typed, Changes
      <3>3. \/ Open(voice.socket) /\ voice.ready /\ awaits = 0
            \/ ~ Open(voice.socket) /\ voice.promise # 0 /\ awaits = voice.promise
        BY <1>2, <1>5, <1>10, <2>5
      <3> WITNESS r, ss
      <3> QED BY <1>1, <2>1, <2>2, <2>3, <3>1, <3>2, <3>3
    <2> QED BY <2>4, <2>5
  <1> QED BY <1>9, <1>10

LEMMA EnsureRecogniserKeeps ==
  ASSUME PageInv, NEW t \in DOMAIN tasks, EnsureRecogniser(t)
  PROVE  PageInv'
  <1> DEFINE Asked == {"socket", "promise", "ready", "endpoint"}
  <1>1. PICK r, ss :
    /\ Becomes(tasks', t, r) /\ tasks' \in Seq(Task(Len(sockets')))
    /\ r.at = "recogniser" /\ r.kind = tasks[t].kind /\ r.aborted = tasks[t].aborted
    /\ sockets' \in Seq(Socket) /\ Len(sockets') \in Nat /\ Len(sockets) <= Len(sockets')
    /\ Formed(voice') /\ Changes(Asked)
    /\ \/ /\ Open(voice.socket) /\ voice.ready /\ r.awaits = 0
          /\ sockets' = sockets /\ voice' = voice /\ past' = past /\ hearing' = hearing
       \/ /\ ~ Open(voice.socket) /\ voice.promise # 0 /\ r.awaits = voice.promise
          /\ sockets' = sockets /\ voice' = voice /\ past' = past /\ hearing' = hearing
       \/ /\ Open(voice.socket) /\ ~ voice.ready /\ voice.promise # 0 /\ r.awaits = voice.promise
          /\ Releases(sockets', voice.socket)
          /\ voice'.socket = 0 /\ voice'.promise = voice.promise /\ voice'.ready = FALSE
          /\ voice'.endpoint = "none" /\ hearing' = FALSE
       \/ /\ ~ (Open(voice.socket) /\ voice.ready) /\ voice.promise = 0 /\ r.awaits = Len(sockets')
          /\ Connects(ss)
          /\ IF Open(voice.socket) THEN Releases(ss, voice.socket) /\ hearing' = FALSE
             ELSE ss = sockets /\ hearing' = hearing
          /\ voice'.socket = Len(sockets') /\ voice'.promise = Len(sockets') /\ voice'.ready = FALSE
          /\ voice'.endpoint = voice.endpoint
    /\ past' = past \/ past' = [past EXCEPT !.lost = Lost("click")]
    BY EnsureRecogniserPage
  <1>2. At(t, "resuming") /\ used' = used
    BY DEF EnsureRecogniser
  <1>3. /\ voice'.endpoint \in {voice.endpoint, "none"}
        /\ (voice'.ready = voice.ready /\ voice'.socket = voice.socket) \/ voice'.ready = FALSE
        /\ hearing' \in {hearing, FALSE}
    BY <1>1
  <1>4. voice.page = "test" => voice.endpoint = "none" /\ voice.continuous
    BY <1>2 DEF PageInv, EndpointOK, TasksOK
  <1>5. Typed'
    <2>1. /\ voice'.socket \in 0 .. Len(sockets') /\ voice'.promise \in 0 .. Len(sockets')
      <3>1. PICK n \in Nat : n = Len(sockets')
        BY <1>1
      <3>2. PICK m \in Nat : m = Len(sockets) /\ m <= n
        BY <1>1, <3>1, Shape DEF PageInv
      <3>3. voice.socket \in 0 .. m /\ voice.promise \in 0 .. m
        BY <3>2 DEF PageInv, Typed, Fields
      <3>4. voice'.socket \in {voice.socket, 0, n} /\ voice'.promise \in {voice.promise, n}
        BY <1>1, <3>1
      <3> QED BY <3>1, <3>2, <3>3, <3>4
    <2>2. voice'.endpoint \in Word /\ voice'.ready \in BOOLEAN
      BY <1>3 DEF PageInv, Typed, Fields, Word
    <2>3. Fit(Asked, Len(tasks), Len(sockets'))
      BY <2>1, <2>2 DEF Fit
    <2>4. Fields(voice', Len(tasks), Len(sockets'))
      <3>1. PICK k, m, n : k = Len(tasks) /\ m = Len(sockets) /\ n = Len(sockets')
        OBVIOUS
      <3>2. k \in Nat /\ m \in Nat /\ n \in Nat /\ m <= n /\ k <= k
        BY <1>1, <3>1, Shape DEF PageInv
      <3>3. Fields(voice, k, m) /\ Fit(Asked, k, n)
        BY <2>3, <3>1 DEF PageInv, Typed
      <3>4. Fields(voice', k, n)
        BY <1>1, <3>2, <3>3, FieldsFit
      <3> QED BY <3>1, <3>4
    <2>5. hearing' \in BOOLEAN
      BY <1>3 DEF PageInv, Typed
    <2> QED BY <1>1, <2>4, <2>5 DEF Typed, Becomes
  <1>6. Counted' /\ past'.leftover = past.leftover /\ past'.unwatched = past.unwatched
    <2>1. CASE past' = past
      BY <1>2, <2>1 DEF PageInv, Counted
    <2>2. CASE past' = [past EXCEPT !.lost = Lost("click")]
      <3>1. Lost("click") \in SUBSET {"playback ended", "noise", "click", "more speech"}
        BY DEF Lost, PageInv, Counted
      <3> QED BY <1>2, <2>2, <3>1, LostCounted DEF PageInv
    <2> QED BY <1>1, <2>1, <2>2
  <1>7. Flags'
    <2>1. voice'.ready => voice'.socket # 0
      BY <1>3 DEF PageInv, Flags
    <2> QED BY <1>1, <1>3, <2>1 DEF PageInv, Flags, Changes
  <1>8. TasksOK'
    <2>1. voice'.controller = voice.controller /\ voice'.page = voice.page /\ voice'.continuous = voice.continuous
      BY <1>1 DEF Changes
    <2>2. DOMAIN tasks' = DOMAIN tasks /\ \A u \in DOMAIN tasks \ {t} : tasks'[u] = tasks[u]
      BY <1>1 DEF Becomes
    <2>3. /\ tasks'[t].at = "recogniser" /\ tasks'[t].kind = tasks[t].kind
          /\ tasks'[t].aborted = tasks[t].aborted /\ tasks[t].at = "resuming"
      BY <1>1, <1>2 DEF Becomes, At
    <2> QED BY <2>1, <2>2, <2>3 DEF PageInv, TasksOK, At, Greeting, ToListen
  <1>9. \A u \in DOMAIN tasks \ {t} : /\ tasks'[u] = tasks[u] /\ ~ At(u, "resuming")
                                      /\ At(u, "recogniser") => ~ Settled(u)
    BY <1>1, <1>2 DEF PageInv, TasksOK, SocketsOK, Becomes
  <1>10. ASSUME NEW s \in DOMAIN sockets, Pending(sockets[s])
         PROVE  \E u \in DOMAIN tasks' : At(u, "recogniser")' /\ tasks'[u].awaits = s
    <2>1. PICK u \in DOMAIN tasks : At(u, "recogniser") /\ tasks[u].awaits = s
      BY <1>10 DEF PageInv, SocketsOK
    <2>2. u # t
      BY <1>2, <2>1 DEF At
    <2> QED BY <1>1, <1>9, <2>1, <2>2 DEF Becomes, At
  <1>11. ~ (voice.socket # 0 /\ voice.promise # voice.socket /\ sockets[voice.socket].phase = "connecting")
    <2>1. SUFFICES ASSUME NEW u \in DOMAIN tasks, At(u, "recogniser"), tasks[u].awaits # 0,
                          Failed(sockets[tasks[u].awaits])
                   PROVE  FALSE
      BY DEF PageInv, SocketsOK
    <2>2. Settled(u)
      BY <2>1 DEF Settled, Failed
    <2> QED BY <1>2, <2>1, <2>2 DEF PageInv, SocketsOK
  <1>12. \A u \in DOMAIN tasks' : ~ At(u, "resuming")'
    BY <1>1, <1>9 DEF Becomes, At
  <1>13. t \in DOMAIN tasks' /\ At(t, "recogniser")' /\ tasks'[t].awaits = r.awaits
    BY <1>1 DEF Becomes, At
  <1>14. \A s \in DOMAIN sockets : s # 0
    BY Shape DEF PageInv
  <1>15. voice'.page = voice.page /\ voice'.continuous = voice.continuous
    BY <1>1 DEF Changes
  <1>16. SocketsOK'
    <2>1. CASE sockets' = sockets /\ voice' = voice /\ hearing' = hearing
      BY <1>10, <1>11, <1>12, <2>1 DEF PageInv, SocketsOK, Connected
    <2>2. CASE /\ Open(voice.socket) /\ ~ voice.ready /\ voice.promise # 0
               /\ Releases(sockets', voice.socket)
               /\ voice'.socket = 0 /\ voice'.promise = voice.promise /\ voice'.ready = FALSE
               /\ hearing' = FALSE
      <3>1. \A s \in DOMAIN sockets :
              /\ Pending(sockets'[s]) <=> Pending(sockets[s])
              /\ sockets'[s].settled = sockets[s].settled
              /\ s = voice.socket => sockets'[s].phase \in {"closing", "closed"}
              /\ s # voice.socket => sockets'[s].phase = sockets[s].phase
        BY <2>2 DEF Releases, Pending
      <3>2. voice.promise = voice.socket /\ Pending(sockets[voice.promise])
        BY <2>2 DEF PageInv, SocketsOK, Open
      <3>3. voice.promise \in DOMAIN sockets
        BY <2>2, Shape DEF PageInv, Typed, Fields
      <3>4. DOMAIN sockets' = DOMAIN sockets
        BY <2>2 DEF Releases
      <3>5. ASSUME NEW s \in DOMAIN sockets'
            PROVE  /\ sockets'[s].phase \in {"connecting", "loading"} => ~ sockets'[s].settled
                   /\ sockets'[s].phase = "ready" => sockets'[s].settled
                   /\ ~ Alive(sockets'[s])
                   /\ voice.page = "pilot" /\ sockets'[s].phase # "closed" =>
                        ~ sockets'[s].settled /\ voice.promise = s
        BY <2>2, <3>1, <3>2, <3>4 DEF PageInv, SocketsOK, Alive, Pending
      <3> QED BY <1>4, <1>10, <1>12, <1>15, <2>2, <3>1, <3>2, <3>3, <3>4, <3>5 DEF SocketsOK
    <2>3. CASE /\ ~ (Open(voice.socket) /\ voice.ready) /\ voice.promise = 0 /\ r.awaits = Len(sockets')
               /\ Connects(ss)
               /\ IF Open(voice.socket) THEN Releases(ss, voice.socket) /\ hearing' = FALSE
                  ELSE ss = sockets /\ hearing' = hearing
               /\ voice'.socket = Len(sockets') /\ voice'.promise = Len(sockets') /\ voice'.ready = FALSE
      <3>1. PICK new : new = Len(sockets')
        OBVIOUS
      <3>2. DOMAIN ss = DOMAIN sockets
        BY <2>3 DEF Releases
      <3>3. \A s \in DOMAIN sockets' : s = new \/ s \in DOMAIN sockets
        BY <2>3, <3>1, <3>2 DEF Connects
      <3>4. /\ new \in DOMAIN sockets' /\ new # 0 /\ sockets'[new].phase = "connecting" /\ ~ sockets'[new].settled
        BY <2>3, <3>1 DEF Connects
      <3>5. ASSUME NEW s \in DOMAIN sockets
            PROVE  /\ s \in DOMAIN sockets'
                   /\ sockets'[s].settled = sockets[s].settled
                   /\ Pending(sockets'[s]) <=> Pending(sockets[s])
                   /\ ~ Alive(sockets'[s])
                   /\ voice.page = "pilot" => sockets'[s].phase = "closed"
        <4>1. s \in DOMAIN ss /\ sockets'[s] = ss[s]
          BY <2>3, <3>2 DEF Connects
        <4>2. CASE Open(voice.socket)
          <5>1. /\ ss[s].settled = sockets[s].settled
                /\ ss[s].phase = IF s = voice.socket /\ sockets[s].phase # "closed" THEN "closing" ELSE sockets[s].phase
            BY <2>3, <4>2 DEF Releases
          <5>2. voice.socket \in DOMAIN sockets
            BY <4>2, Shape DEF PageInv, Typed, Fields, Open
          <5>3. voice.page # "pilot"
            BY <2>3, <4>2, <5>2, <1>14 DEF PageInv, SocketsOK, Open
          <5> QED BY <4>1, <5>1, <5>3, <2>3 DEF PageInv, SocketsOK, Alive, Pending, Connects
        <4>3. CASE ~ Open(voice.socket)
          <5>1. ss[s] = sockets[s]
            BY <2>3, <4>3
          <5>2. ~ Alive(sockets[s])
            BY <1>11, <1>14, <2>3, <4>3 DEF PageInv, SocketsOK, Alive, Open
          <5>3. voice.page = "pilot" => sockets[s].phase = "closed"
            BY <1>14, <2>3, <5>2 DEF PageInv, SocketsOK, Alive
          <5> QED BY <2>3, <4>1, <5>1, <5>2, <5>3 DEF Connects
        <4> QED BY <4>2, <4>3
      <3>6. hearing' => FALSE
        BY <2>3 DEF PageInv, SocketsOK, Connected, Open
      <3>7. \A s \in DOMAIN sockets' : Pending(sockets'[s]) =>
              \E u \in DOMAIN tasks' : At(u, "recogniser")' /\ tasks'[u].awaits = s
        BY <1>10, <1>13, <2>3, <3>1, <3>3, <3>5
      <3>8. ASSUME NEW s \in DOMAIN sockets'
            PROVE  /\ sockets'[s].phase \in {"connecting", "loading"} => ~ sockets'[s].settled
                   /\ sockets'[s].phase = "ready" => sockets'[s].settled
                   /\ Alive(sockets'[s]) => s = new
                   /\ voice.page = "pilot" /\ sockets'[s].phase # "closed" =>
                        ~ sockets'[s].settled /\ s = new
        BY <3>3, <3>4, <3>5 DEF Alive
      <3>9. Pending(sockets'[new])
        BY <3>4 DEF Pending
      <3> QED BY <1>4, <1>12, <1>15, <2>3, <3>1, <3>4, <3>6, <3>7, <3>8, <3>9 DEF SocketsOK
    <2> QED BY <1>1, <2>1, <2>2, <2>3
  <1>17. EndpointOK'
    BY <1>3, <1>4, <1>15 DEF EndpointOK
  <1>18. ASSUME Orderly
         PROVE  OrderlyOK'
    <2>1. DOMAIN tasks' = DOMAIN tasks /\ Current' = Current
      BY <1>1, <1>2 DEF Current, Becomes, At
    <2>2. ASSUME NEW u \in DOMAIN tasks
          PROVE  /\ tasks'[u].kind = tasks[u].kind /\ tasks'[u].aborted = tasks[u].aborted
                 /\ Replying(u)' <=> Replying(u)
                 /\ At(u, "playing")' <=> At(u, "playing")
                 /\ ToListen(u)' <=> ToListen(u)
                 /\ At(u, "done")' <=> At(u, "done")
      BY <1>1, <1>2, <1>9 DEF Becomes, Replying, ToListen, At
    <2>3. OneCurrent'
      BY <1>15, <1>18, <2>1, <2>2 DEF PageInv, OrderlyOK, OneCurrent, Greeting
    <2>4. Current \subseteq DOMAIN tasks
      BY DEF Current
    <2>5. Kept'
      BY <1>1, <1>18, <2>1, <2>2, <2>4, SMTT(30) DEF PageInv, OrderlyOK, Kept, Changes
    <2>6. Silence'
      BY <1>1, <1>3, <1>18, <2>1, <2>2, <2>4 DEF PageInv, OrderlyOK, Silence, Changes
    <2>7. \A u \in DOMAIN tasks \ {t} : ~ At(u, "recogniser")
      <3>1. SUFFICES ASSUME NEW u \in DOMAIN tasks, u # t, At(u, "recogniser")
                     PROVE  FALSE
        OBVIOUS
      <3>2. t \in Current \/ (tasks[t].aborted /\ Greeting(t))
        BY <1>2 DEF PageInv, TasksOK, Current, At
      <3>3. u \in Current \/ (tasks[u].aborted /\ Greeting(u))
        BY <3>1 DEF PageInv, TasksOK, Current, At
      <3>4. ~ (t \in Current /\ u \in Current)
        BY <1>18, <3>1 DEF PageInv, OrderlyOK, OneCurrent
      <3>5. ~ (Greeting(t) /\ Greeting(u))
        BY <1>18, <3>1 DEF PageInv, OrderlyOK, OneCurrent
      <3>6. (tasks[t].aborted /\ Greeting(t)) \/ (tasks[u].aborted /\ Greeting(u)) => Current = {}
        BY <1>2, <1>18, <3>1 DEF PageInv, OrderlyOK, OneCurrent, At
      <3> QED BY <3>2, <3>3, <3>4, <3>5, <3>6
    <2>8. Waited'
      <3>1. r.awaits # 0 => voice'.socket \in {0, r.awaits}
        BY <1>1 DEF PageInv, SocketsOK
      <3> QED BY <1>13, <1>9, <2>1, <2>7, <3>1 DEF Waited, At
    <2>9. Resuming'
      BY <1>13 DEF Resuming, At
    <2>10. SilenceIsNoticed' /\ StaleWordsNeedBargeIn'
      BY <1>1, <1>3, <1>18, <2>9 DEF SilenceIsNoticed, StaleWordsNeedBargeIn, Changes, PageInv, OrderlyOK
    <2> QED BY <2>3, <2>5, <2>6, <2>8, <2>10 DEF OrderlyOK
  <1>19. Orderly' => OrderlyOK'
    BY <1>6, <1>18 DEF Orderly
  <1> QED BY <1>5, <1>6, <1>7, <1>8, <1>16, <1>17, <1>19 DEF PageInv

\* What becomes of one connection.
Turns(ss, s, phase, settled) ==
  /\ DOMAIN ss = DOMAIN sockets /\ Len(ss) = Len(sockets)
  /\ ss[s].phase = phase /\ ss[s].settled = settled
  /\ \A i \in DOMAIN sockets \ {s} : ss[i] = sockets[i]

LEMMA SetSocket ==
  ASSUME Typed, NEW s \in DOMAIN sockets, NEW c \in Socket, NEW ss, ss = [sockets EXCEPT ![s] = c]
  PROVE  Turns(ss, s, c.phase, c.settled) /\ ss \in Seq(Socket)
  <1>1. PICK S : S = Socket
    OBVIOUS
  <1>2. sockets \in Seq(S) /\ s \in 1 .. Len(sockets) /\ c \in S /\ DOMAIN sockets = 1 .. Len(sockets)
    BY <1>1, Shape DEF Typed
  <1>3. ss \in Seq(S) /\ Len(ss) = Len(sockets)
    BY <1>2, ExceptSeq
  <1>4. DOMAIN ss = DOMAIN sockets
    OBVIOUS
  <1> QED BY <1>1, <1>3, <1>4 DEF Turns

LEMMA SocketGoesOn ==
  ASSUME Typed, NEW s \in DOMAIN sockets, NEW phase \in Phases, NEW ss
  PROVE  /\ ss = [sockets EXCEPT ![s].phase = phase] =>
              Turns(ss, s, phase, sockets[s].settled) /\ ss \in Seq(Socket)
         /\ ss = [sockets EXCEPT ![s].phase = phase, ![s].settled = TRUE] =>
              Turns(ss, s, phase, TRUE) /\ ss \in Seq(Socket)
  <1>1. PICK old \in Socket : old = sockets[s]
    BY Shape
  <1>2. ASSUME ss = [sockets EXCEPT ![s].phase = phase]
        PROVE  Turns(ss, s, phase, sockets[s].settled) /\ ss \in Seq(Socket)
    <2>1. PICK c : c = [old EXCEPT !.phase = phase]
      OBVIOUS
    <2>2. c \in Socket /\ c.phase = phase /\ c.settled = old.settled
      BY <1>1, <2>1 DEF Socket
    <2>3. ss = [sockets EXCEPT ![s] = c]
      BY <1>1, <1>2, <2>1
    <2>4. Turns(ss, s, c.phase, c.settled) /\ ss \in Seq(Socket)
      BY <2>2, <2>3, SetSocket
    <2> QED BY <1>1, <2>2, <2>4
  <1>3. ASSUME ss = [sockets EXCEPT ![s].phase = phase, ![s].settled = TRUE]
        PROVE  Turns(ss, s, phase, TRUE) /\ ss \in Seq(Socket)
    <2>1. PICK c : c = [old EXCEPT !.phase = phase, !.settled = TRUE]
      OBVIOUS
    <2>2. c \in Socket /\ c.phase = phase /\ c.settled = TRUE
      BY <1>1, <2>1 DEF Socket
    <2>3. ss = [sockets EXCEPT ![s] = c]
      BY <1>1, <1>3, <2>1
    <2>4. Turns(ss, s, c.phase, c.settled) /\ ss \in Seq(Socket)
      BY <2>2, <2>3, SetSocket
    <2> QED BY <2>2, <2>4
  <1> QED BY <1>2, <1>3

\* Nothing else of the page depends on a connection that comes or goes.
LEMMA OnlyConnection ==
  ASSUME PageInv, tasks' = tasks, used' = used, past' = past, hearing' \in BOOLEAN,
         sockets' \in Seq(Socket), Len(sockets') = Len(sockets),
         Formed(voice'), Changes({"ready", "promise"}),
         voice'.ready \in BOOLEAN, voice'.promise \in {0, voice.promise}, voice'.ready => voice'.socket # 0
  PROVE  /\ Typed' /\ Counted' /\ Flags' /\ TasksOK'
         /\ Orderly' => Orderly /\ OneCurrent' /\ Kept' /\ Silence' /\ StaleWordsNeedBargeIn'
  <1>1. Typed'
    <2>1. PICK m \in Nat : m = Len(sockets)
      BY Shape DEF PageInv
    <2>2. voice'.promise \in 0 .. m
      <3>1. voice.promise \in 0 .. m
        BY <2>1 DEF PageInv, Typed, Fields
      <3> QED BY <3>1
    <2>3. Fit({"ready", "promise"}, Len(tasks), m)
      BY <2>2 DEF Fit
    <2>4. Fields(voice', Len(tasks), m)
      BY <2>1, <2>3, Shape, FieldsFit DEF PageInv, Typed
    <2> QED BY <2>1, <2>4 DEF PageInv, Typed
  <1>2. Counted'
    BY DEF PageInv, Counted
  <1>3. Flags' /\ TasksOK'
    BY DEF PageInv, Flags, TasksOK, Changes, At, Greeting, ToListen
  <1>4. ASSUME Orderly
        PROVE  OneCurrent' /\ Kept' /\ Silence' /\ StaleWordsNeedBargeIn'
    <2>1. OneCurrent'
      BY <1>4 DEF PageInv, OrderlyOK, OneCurrent, Current, Changes, Greeting, At
    <2>2. Kept'
      BY <1>4 DEF PageInv, OrderlyOK, Kept, Current, Changes, Replying, ToListen, At
    <2>3. Silence'
      BY <1>4 DEF PageInv, OrderlyOK, Silence, Current, Changes, ToListen, At
    <2>4. StaleWordsNeedBargeIn'
      BY <1>4 DEF PageInv, OrderlyOK, StaleWordsNeedBargeIn, Changes
    <2> QED BY <2>1, <2>2, <2>3, <2>4
  <1> QED BY <1>1, <1>2, <1>3, <1>4 DEF Orderly

LEMMA SocketOpensKeeps ==
  ASSUME PageInv, NEW s \in DOMAIN sockets, SocketOpens(s)
  PROVE  PageInv'
  <1>1. /\ sockets[s].phase = "connecting" /\ UNCHANGED <<voice, tasks, hearing, used, past>>
        /\ sockets' = [sockets EXCEPT ![s].phase = "loading"]
    BY DEF SocketOpens
  <1>2. Turns(sockets', s, "loading", sockets[s].settled) /\ sockets' \in Seq(Socket)
    BY <1>1, SocketGoesOn DEF PageInv, Phases
  <1>3. /\ DOMAIN sockets' = DOMAIN sockets /\ s # 0
        /\ sockets'[s].phase = "loading" /\ sockets'[s].settled = sockets[s].settled
        /\ \A i \in DOMAIN sockets \ {s} : sockets'[i] = sockets[i]
    BY <1>2, Shape DEF Turns, PageInv
  <1>4. /\ Typed' /\ Counted' /\ Flags' /\ TasksOK'
        /\ Orderly' => Orderly /\ OneCurrent' /\ Kept' /\ Silence' /\ StaleWordsNeedBargeIn'
    <2>1. Formed(voice') /\ Changes({"ready", "promise"})
      BY <1>1 DEF PageInv, Typed, Changes
    <2>2. voice'.ready \in BOOLEAN /\ (voice'.ready => voice'.socket # 0) /\ hearing' \in BOOLEAN
      BY <1>1 DEF PageInv, Typed, Fields, Flags
    <2> QED BY <1>1, <1>2, <2>1, <2>2, OnlyConnection DEF Turns
  <1>5. ASSUME NEW i \in DOMAIN sockets
        PROVE  /\ Pending(sockets'[i]) <=> Pending(sockets[i])
               /\ Failed(sockets'[i]) <=> Failed(sockets[i])
               /\ Alive(sockets'[i]) <=> Alive(sockets[i])
               /\ sockets'[i].settled = sockets[i].settled
               /\ sockets'[i].phase = "closed" <=> sockets[i].phase = "closed"
               /\ sockets'[i].phase = "ready" <=> sockets[i].phase = "ready"
               /\ sockets'[i].phase = "connecting" => sockets[i].phase = "connecting"
    BY <1>1, <1>3 DEF Pending, Failed, Alive
  <1>6. \A u \in DOMAIN tasks : tasks[u].awaits # 0 => tasks[u].awaits \in DOMAIN sockets
    BY WaitedFor DEF PageInv
  <1>7. \A u \in DOMAIN tasks : Settled(u)' <=> Settled(u)
    BY <1>1, <1>5, <1>6 DEF Settled, At
  <1>8. voice.socket # 0 => voice.socket \in DOMAIN sockets
    BY Shape DEF PageInv, Typed, Fields
  <1>9. voice.promise # 0 => voice.promise \in DOMAIN sockets
    BY Shape DEF PageInv, Typed, Fields
  <1>10. SocketsOK'
    <2>1. ASSUME NEW i \in DOMAIN sockets
          PROVE  /\ sockets'[i].phase \in {"connecting", "loading"} => ~ sockets'[i].settled
                 /\ sockets'[i].phase = "ready" => sockets'[i].settled
                 /\ Alive(sockets'[i]) => i = voice.socket
                 /\ Pending(sockets'[i]) => \E t \in DOMAIN tasks : At(t, "recogniser") /\ tasks[t].awaits = i
                 /\ voice.page = "pilot" /\ sockets'[i].phase # "closed" =>
                      \/ ~ sockets'[i].settled /\ voice.promise = i
                      \/ sockets'[i].phase = "ready" /\ i = voice.socket /\ voice.ready
      BY <1>1, <1>3, <1>5 DEF PageInv, SocketsOK
    <2>2. voice.promise # 0 => Pending(sockets'[voice.promise]) /\ voice.socket \in {0, voice.promise}
      BY <1>5, <1>9 DEF PageInv, SocketsOK
    <2>3. voice.socket # 0 /\ voice.promise # voice.socket /\ sockets'[voice.socket].phase = "connecting" =>
            \E t \in DOMAIN tasks : /\ At(t, "recogniser")
                                    /\ tasks[t].awaits # 0 /\ Failed(sockets'[tasks[t].awaits])
      BY <1>5, <1>6, <1>8 DEF PageInv, SocketsOK
    <2>4. hearing => voice.socket # 0 /\ sockets'[voice.socket].phase = "ready"
      BY <1>5, <1>8 DEF PageInv, SocketsOK, Connected
    <2>5. \A t, u \in DOMAIN tasks : At(t, "resuming") /\ At(u, "recogniser") => ~ Settled(u)'
      BY <1>7 DEF PageInv, SocketsOK
    <2>6. voice.page = "test" /\ ~ voice.continuous => voice.socket = 0
      BY DEF PageInv, SocketsOK
    <2> QED BY <1>1, <1>3, <2>1, <2>2, <2>3, <2>4, <2>5, <2>6 DEF SocketsOK, Connected, At
  <1>11. EndpointOK'
    BY <1>1, <1>5, <1>6 DEF PageInv, EndpointOK, At
  <1>12. Orderly' => Waited' /\ SilenceIsNoticed'
    BY <1>1, <1>4, <1>5, <1>6 DEF PageInv, OrderlyOK, Waited, SilenceIsNoticed, Resuming, At, Orderly
  <1> QED BY <1>4, <1>10, <1>11, <1>12 DEF PageInv, OrderlyOK

LEMMA RecogniserReadyKeeps ==
  ASSUME PageInv, NoMicrotask, NEW s \in DOMAIN sockets, RecogniserReady(s)
  PROVE  PageInv'
  <1>1. /\ sockets[s].phase = "loading" /\ UNCHANGED <<tasks, hearing, used, past>>
        /\ sockets' = [sockets EXCEPT ![s].phase = "ready", ![s].settled = TRUE]
        /\ voice' = [voice EXCEPT !.ready = TRUE, !.promise = 0]
    BY DEF RecogniserReady
  <1>2. Turns(sockets', s, "ready", TRUE) /\ sockets' \in Seq(Socket)
    BY <1>1, SocketGoesOn DEF PageInv, Phases
  <1>3. /\ DOMAIN sockets' = DOMAIN sockets /\ s # 0
        /\ sockets'[s].phase = "ready" /\ sockets'[s].settled = TRUE
        /\ \A i \in DOMAIN sockets \ {s} : sockets'[i] = sockets[i]
    BY <1>2, Shape DEF Turns, PageInv
  <1>4. Formed(voice') /\ Changes({"ready", "promise"}) /\ voice'.ready = TRUE /\ voice'.promise = 0
    BY <1>1 DEF PageInv, Typed, Formed, Changes
  <1>5. voice.socket = s /\ voice'.socket = s /\ Alive(sockets[s]) /\ ~ sockets[s].settled
    BY <1>1, <1>4 DEF PageInv, SocketsOK, Alive, Changes
  <1>6. /\ Typed' /\ Counted' /\ Flags' /\ TasksOK'
        /\ Orderly' => Orderly /\ OneCurrent' /\ Kept' /\ Silence' /\ StaleWordsNeedBargeIn'
    <2>1. hearing' \in BOOLEAN
      BY <1>1 DEF PageInv, Typed
    <2> QED BY <1>1, <1>2, <1>3, <1>4, <1>5, <2>1, OnlyConnection DEF Turns
  <1>7. \A u \in DOMAIN tasks : ~ At(u, "resuming")
    BY DEF NoMicrotask, Settled
  <1>8. ~ hearing
    BY <1>1, <1>5 DEF PageInv, SocketsOK, Connected
  <1>9. voice'.page = voice.page /\ voice'.continuous = voice.continuous /\ voice'.endpoint = voice.endpoint
    BY <1>4 DEF Changes
  <1>10. SocketsOK'
    <2>1. ASSUME NEW i \in DOMAIN sockets, i # s
          PROVE  /\ sockets[i].phase \in {"connecting", "loading"} => ~ sockets[i].settled
                 /\ sockets[i].phase = "ready" => sockets[i].settled
                 /\ ~ Alive(sockets[i])
                 /\ Pending(sockets[i]) => \E t \in DOMAIN tasks : At(t, "recogniser") /\ tasks[t].awaits = i
                 /\ voice.page = "pilot" => sockets[i].phase = "closed"
      BY <1>1, <1>5, <2>1 DEF PageInv, SocketsOK
    <2>2. ~ Pending(sockets'[s])
      BY <1>3 DEF Pending
    <2> QED BY <1>1, <1>3, <1>4, <1>5, <1>7, <1>8, <1>9, <2>1, <2>2 DEF SocketsOK, Connected, At,  PageInv
  <1>11. EndpointOK'
    <2>1. ASSUME voice.page = "test", NEW t \in DOMAIN tasks, At(t, "recogniser"),
                 \/ tasks[t].awaits = 0
                 \/ sockets'[tasks[t].awaits].settled
                 \/ Alive(sockets'[tasks[t].awaits])
          PROVE  voice.endpoint = "none"
      <3>1. CASE tasks[t].awaits = s
        BY <1>5, <2>1, <3>1 DEF PageInv, EndpointOK
      <3>2. CASE tasks[t].awaits # s
        BY <1>3, <2>1, <3>2, WaitedFor DEF PageInv, EndpointOK
      <3> QED BY <3>1, <3>2
    <2> QED BY <1>1, <1>7, <1>9, <2>1 DEF EndpointOK, At
  <1>12. ASSUME Orderly
         PROVE  Waited' /\ SilenceIsNoticed'
    <2>1. Waited'
      <3>1. ASSUME NEW t \in DOMAIN tasks, At(t, "recogniser"), tasks[t].awaits # 0,
                   Pending(sockets'[tasks[t].awaits])
            PROVE  voice.socket \in {0, tasks[t].awaits}
        BY <1>3, <1>5, <1>12, <3>1, WaitedFor DEF PageInv, OrderlyOK, Waited, Pending
      <3> QED BY <1>1, <1>5, <3>1 DEF Waited, At
    <2>2. SilenceIsNoticed'
      BY <1>1, <1>4, <1>12 DEF PageInv, OrderlyOK, SilenceIsNoticed, Resuming, Changes, At, Orderly
    <2> QED BY <2>1, <2>2
  <1> QED BY <1>6, <1>10, <1>11, <1>12 DEF PageInv, OrderlyOK

\* A connection closes that was not ready yet, or when no call goes on.
LEMMA SocketClosesQuietly ==
  ASSUME PageInv, NoMicrotask, NEW s \in DOMAIN sockets, SocketCloses(s),
         ~ (sockets[s].settled /\ voice.continuous)
  PROVE  PageInv'
  <1>1. /\ sockets[s].phase # "closed" /\ UNCHANGED <<tasks, used, past>>
        /\ sockets' = [sockets EXCEPT ![s].phase = "closed"]
        /\ voice' = [voice EXCEPT !.ready = FALSE, !.promise = 0]
        /\ hearing' = (hearing /\ s # voice.socket)
    BY DEF SocketCloses
  <1>2. Turns(sockets', s, "closed", sockets[s].settled) /\ sockets' \in Seq(Socket)
    BY <1>1, SocketGoesOn DEF PageInv, Phases
  <1>3. /\ DOMAIN sockets' = DOMAIN sockets /\ s # 0
        /\ sockets'[s].phase = "closed" /\ sockets'[s].settled = sockets[s].settled
        /\ \A i \in DOMAIN sockets \ {s} : sockets'[i] = sockets[i]
    BY <1>2, Shape DEF Turns, PageInv
  <1>4. Formed(voice') /\ Changes({"ready", "promise"}) /\ voice'.ready = FALSE /\ voice'.promise = 0
    BY <1>1 DEF PageInv, Typed, Formed, Changes
  <1>5. /\ voice'.page = voice.page /\ voice'.continuous = voice.continuous
        /\ voice'.endpoint = voice.endpoint /\ voice'.socket = voice.socket
    BY <1>4 DEF Changes
  <1>6. /\ Typed' /\ Counted' /\ Flags' /\ TasksOK'
        /\ Orderly' => Orderly /\ OneCurrent' /\ Kept' /\ Silence' /\ StaleWordsNeedBargeIn'
    <2>1. hearing' \in BOOLEAN
      BY <1>1 DEF PageInv, Typed
    <2> QED BY <1>1, <1>2, <1>3, <1>4, <2>1, OnlyConnection DEF Turns
  <1>7. \A u \in DOMAIN tasks : ~ At(u, "resuming")
    BY DEF NoMicrotask, Settled
  <1>8. voice.page = "pilot" => \A i \in DOMAIN sockets \ {s} : sockets[i].phase = "closed"
    <2>1. SUFFICES ASSUME voice.page = "pilot", NEW i \in DOMAIN sockets, i # s, sockets[i].phase # "closed"
                   PROVE  FALSE
      OBVIOUS
    <2>2. \/ ~ sockets[i].settled /\ voice.promise = i
          \/ sockets[i].phase = "ready" /\ i = voice.socket /\ voice.ready
      BY <2>1 DEF PageInv, SocketsOK
    <2>3. \/ ~ sockets[s].settled /\ voice.promise = s
          \/ sockets[s].phase = "ready" /\ s = voice.socket /\ voice.ready
      BY <1>1, <2>1 DEF PageInv, SocketsOK
    <2>4. voice.promise # 0 => voice.socket \in {0, voice.promise}
      BY DEF PageInv, SocketsOK
    <2>5. i # 0
      BY Shape DEF PageInv
    <2> QED BY <1>3, <2>1, <2>2, <2>3, <2>4, <2>5
  <1>9. ASSUME voice.socket # 0, sockets'[voice.socket].phase = "connecting"
        PROVE  \E t \in DOMAIN tasks : /\ At(t, "recogniser")
                                       /\ tasks[t].awaits # 0 /\ Failed(sockets'[tasks[t].awaits])
    <2>1. voice.socket \in DOMAIN sockets \ {s} /\ sockets[voice.socket].phase = "connecting"
      BY <1>3, <1>9, Shape DEF PageInv, Typed, Fields
    <2>2. voice.page = "test" /\ voice.continuous
      BY <1>8, <2>1, <1>9, PagesAssumption DEF PageInv, Typed, Fields, SocketsOK
    <2>3. ~ sockets[s].settled
      BY <2>2
    <2>4. PICK t \in DOMAIN tasks : At(t, "recogniser") /\ tasks[t].awaits = s
      BY <1>1, <2>3 DEF PageInv, SocketsOK, Pending
    <2> QED BY <1>3, <2>3, <2>4 DEF Failed
  <1>10. SocketsOK'
    <2>1. ASSUME NEW i \in DOMAIN sockets, i # s
          PROVE  /\ sockets[i].phase \in {"connecting", "loading"} => ~ sockets[i].settled
                 /\ sockets[i].phase = "ready" => sockets[i].settled
                 /\ Alive(sockets[i]) => i = voice.socket
                 /\ Pending(sockets[i]) => \E t \in DOMAIN tasks : At(t, "recogniser") /\ tasks[t].awaits = i
                 /\ voice.page = "pilot" => sockets[i].phase = "closed"
      BY <1>8, <2>1 DEF PageInv, SocketsOK
    <2>2. ~ Pending(sockets'[s]) /\ ~ Alive(sockets'[s])
      BY <1>3 DEF Pending, Alive
    <2>3. hearing' => voice.socket # 0 /\ sockets'[voice.socket].phase = "ready"
      <3>1. hearing => voice.socket # 0 /\ sockets[voice.socket].phase = "ready"
        BY DEF PageInv, SocketsOK, Connected
      <3>2. voice.socket # 0 => voice.socket \in DOMAIN sockets
        BY Shape DEF PageInv, Typed, Fields
      <3> QED BY <1>1, <1>3, <3>1, <3>2
    <2>4. voice.page = "test" /\ ~ voice.continuous => voice.socket = 0
      BY DEF PageInv, SocketsOK
    <2> QED BY <1>1, <1>3, <1>4, <1>5, <1>7, <1>9, <2>1, <2>2, <2>3, <2>4 DEF SocketsOK, Connected, At
  <1>11. EndpointOK'
    <2>1. ASSUME voice.page = "test", NEW t \in DOMAIN tasks, At(t, "recogniser"),
                 \/ tasks[t].awaits = 0
                 \/ sockets'[tasks[t].awaits].settled
                 \/ Alive(sockets'[tasks[t].awaits])
          PROVE  voice.endpoint = "none"
      <3>1. CASE tasks[t].awaits = s
        BY <1>3, <2>1, <3>1 DEF PageInv, EndpointOK, Alive
      <3>2. CASE tasks[t].awaits # s
        BY <1>3, <2>1, <3>2, WaitedFor DEF PageInv, EndpointOK
      <3> QED BY <3>1, <3>2
    <2> QED BY <1>1, <1>5, <1>7, <2>1 DEF EndpointOK, At
  <1>12. ASSUME Orderly
         PROVE  Waited' /\ SilenceIsNoticed'
    <2>1. Waited'
      <3>1. ASSUME NEW t \in DOMAIN tasks, At(t, "recogniser"), tasks[t].awaits # 0,
                   Pending(sockets'[tasks[t].awaits])
            PROVE  voice.socket \in {0, tasks[t].awaits}
        BY <1>3, <1>12, <3>1, WaitedFor DEF PageInv, OrderlyOK, Waited, Pending
      <3> QED BY <1>1, <1>5, <3>1 DEF Waited, At
    <2>2. voice.continuous => hearing' = hearing
      <3>1. voice.continuous /\ s = voice.socket => ~ hearing
        BY DEF PageInv, SocketsOK, Connected
      <3> QED BY <1>1, <3>1 DEF PageInv, Typed
    <2>3. SilenceIsNoticed'
      BY <1>1, <1>4, <1>12, <2>2 DEF PageInv, OrderlyOK, SilenceIsNoticed, Resuming, Changes, At, Orderly
    <2> QED BY <2>1, <2>3
  <1> QED BY <1>6, <1>10, <1>11, <1>12 DEF PageInv, OrderlyOK

-----------------------------------------------------------------------------
(* The session stops *)

Reset == {"busy", "idle", "endpoint", "stage", "continuous", "listening", "replying", "controller",
          "playing", "armed", "barge", "socket", "ready", "promise"}

\* The tasks as they are, but for one that ends and waits for no connection.
OnlyEnds(ts) ==
  /\ DOMAIN ts = DOMAIN tasks /\ Len(ts) = Len(tasks)
  /\ \A u \in DOMAIN tasks :
       \/ ts[u] = tasks[u]
       \/ /\ ts[u].at = "done" /\ ts[u].kind = "listen" /\ ~ ts[u].aborted
          /\ ~ (At(u, "recogniser") /\ tasks[u].awaits # 0 /\ Pending(sockets[tasks[u].awaits]))

\* What a stopped session leaves of the page.
Stops(ts) ==
  /\ Formed(voice') /\ Changes(Reset)
  /\ voice'.busy = FALSE /\ voice'.idle = FALSE /\ voice'.endpoint = "none" /\ voice'.stage = 0
  /\ voice'.continuous = FALSE /\ voice'.listening = FALSE /\ voice'.replying = FALSE
  /\ voice'.controller = 0 /\ voice'.playing = 0 /\ voice'.armed = FALSE /\ voice'.barge = FALSE
  /\ voice.page = "test" => voice'.socket = 0 /\ voice'.ready = FALSE
  /\ voice.page # "test" => voice'.socket = voice.socket /\ voice'.ready \in {voice.ready, FALSE}
  /\ voice'.promise \in {voice.promise, 0}
  /\ hearing' = FALSE /\ past' = [past EXCEPT !.unwatched = FALSE] /\ used' = used
  /\ Aborts(ts, tasks') /\ tasks' \in Seq(Task(Len(sockets)))
  /\ sockets' \in Seq(Socket) /\ Len(sockets') = Len(sockets)

LEMMA StopsKeeps ==
  ASSUME PageInv, NEW ts, OnlyEnds(ts), Stops(ts), \A u \in DOMAIN tasks : ~ At(u, "resuming")
  PROVE  /\ Typed' /\ Counted' /\ Flags' /\ TasksOK' /\ EndpointOK'
         /\ Orderly' => /\ Orderly /\ OneCurrent' /\ Kept' /\ Silence'
                        /\ SilenceIsNoticed' /\ StaleWordsNeedBargeIn'
  <1>1. /\ Formed(voice') /\ Changes(Reset)
        /\ voice'.busy = FALSE /\ voice'.idle = FALSE /\ voice'.endpoint = "none" /\ voice'.stage = 0
        /\ voice'.continuous = FALSE /\ voice'.listening = FALSE /\ voice'.replying = FALSE
        /\ voice'.controller = 0 /\ voice'.playing = 0 /\ voice'.armed = FALSE /\ voice'.barge = FALSE
    BY DEF Stops
  <1>2. /\ voice'.socket \in {0, voice.socket} /\ voice'.promise \in {0, voice.promise}
        /\ voice'.ready = FALSE \/ (voice'.ready = voice.ready /\ voice'.socket = voice.socket)
    BY DEF Stops
  <1>3. /\ DOMAIN tasks' = DOMAIN tasks /\ Len(tasks') = Len(tasks)
        /\ tasks' \in Seq(Task(Len(sockets))) /\ sockets' \in Seq(Socket) /\ Len(sockets') = Len(sockets)
    BY DEF Stops, Aborts, OnlyEnds
  <1>4. ASSUME NEW u \in DOMAIN tasks
        PROVE  \/ /\ tasks'[u].kind = tasks[u].kind /\ tasks'[u].at = tasks[u].at
                  /\ tasks'[u].aborted = (tasks[u].aborted \/ u = voice.controller)
               \/ tasks'[u].at = "done" /\ tasks'[u].kind = "listen"
    BY DEF Stops, Aborts, OnlyEnds
  <1>5. Typed'
    <2>1. PICK k \in Nat, m \in Nat : k = Len(tasks) /\ m = Len(sockets)
      BY Shape DEF PageInv
    <2>2. voice'.socket \in 0 .. m /\ voice'.promise \in 0 .. m
      <3>1. voice.socket \in 0 .. m /\ voice.promise \in 0 .. m
        BY <2>1 DEF PageInv, Typed, Fields
      <3> QED BY <1>2, <3>1
    <2>3. voice'.ready \in BOOLEAN
      BY <1>2 DEF PageInv, Typed, Fields
    <2>4. voice'.controller \in 0 .. k /\ voice'.playing \in 0 .. k /\ voice'.stage \in 0 .. 1
      BY <1>1
    <2>5. /\ voice'.busy \in BOOLEAN /\ voice'.idle \in BOOLEAN /\ voice'.continuous \in BOOLEAN
          /\ voice'.listening \in BOOLEAN /\ voice'.replying \in BOOLEAN
          /\ voice'.armed \in BOOLEAN /\ voice'.barge \in BOOLEAN
      BY <1>1
    <2>6. voice'.endpoint \in Word
      BY <1>1 DEF Word
    <2>7. Fit(Reset, k, m)
      BY <2>2, <2>3, <2>4, <2>5, <2>6 DEF Fit, Reset
    <2>8. Fields(voice', k, m)
      BY <1>1, <2>1, <2>7, FieldsFit DEF PageInv, Typed
    <2>9. hearing' \in BOOLEAN
      BY DEF Stops
    <2> QED BY <1>1, <1>3, <2>1, <2>8, <2>9 DEF Typed
  <1>6. past'.leftover = past.leftover /\ Counted'
    <2>1. /\ past' = [lost |-> past'.lost, leftover |-> past'.leftover, unwatched |-> past'.unwatched]
          /\ past'.lost = past.lost /\ past'.leftover = past.leftover /\ past'.unwatched = FALSE
      BY DEF PageInv, Counted, Stops
    <2> QED BY <2>1 DEF PageInv, Counted, Stops
  <1>7. Flags'
    BY <1>1, <1>2 DEF PageInv, Flags
  <1>8. voice'.page = voice.page
    BY <1>1 DEF Changes, Reset
  <1>9. TasksOK'
    <2>1. ASSUME NEW u \in DOMAIN tasks
          PROVE  /\ (u = voice'.controller \/ tasks'[u].aborted) /\ ~ At(u, "done")' =>
                      At(u, "asked")' \/ At(u, "playing")' \/ (Greeting(u)' /\ ToListen(u)')
                 /\ voice'.controller # u
                 /\ Greeting(u)' => voice'.page = "test"
                 /\ At(u, "starting")' => Greeting(u)'
                 /\ At(u, "done")' => ~ Greeting(u)'
                 /\ At(u, "microphone")' /\ tasks'[u].kind = "listen" => voice'.page = "pilot"
                 /\ ~ At(u, "resuming")'
      <3>1. u # 0
        BY Shape DEF PageInv
      <3>2. CASE tasks'[u].at = "done" /\ tasks'[u].kind = "listen"
        BY <1>1, <3>1, <3>2 DEF At, Greeting
      <3>3. CASE /\ tasks'[u].kind = tasks[u].kind /\ tasks'[u].at = tasks[u].at
                 /\ tasks'[u].aborted = (tasks[u].aborted \/ u = voice.controller)
        <4>1. voice'.controller # u /\ ~ At(u, "resuming")'
          BY <1>1, <3>1, <3>3 DEF At
        <4> QED BY <1>1, <1>8, <3>3, <4>1 DEF PageInv, TasksOK, At, Greeting, ToListen
      <3> QED BY <1>4, <3>2, <3>3
    <2> QED BY <1>3, <2>1 DEF TasksOK
  <1>10. EndpointOK'
    BY <1>1 DEF EndpointOK
  <1>11. ASSUME Orderly
         PROVE  /\ OneCurrent' /\ Kept' /\ Silence'
                /\ SilenceIsNoticed' /\ StaleWordsNeedBargeIn'
    <2>1. \A u \in Current' : /\ u \in Current /\ u # voice.controller
                              /\ tasks'[u].at = tasks[u].at /\ tasks'[u].kind = tasks[u].kind
      BY <1>3, <1>4 DEF Current, At
    <2>2. OneCurrent'
      <3>1. \A t, u \in Current' : t = u
        BY <1>11, <2>1 DEF PageInv, OrderlyOK, OneCurrent
      <3>2. \A u \in DOMAIN tasks : Greeting(u)' => Greeting(u)
        BY <1>4 DEF Greeting
      <3>3. ASSUME NEW u \in DOMAIN tasks, Greeting(u)', tasks'[u].aborted, ~ At(u, "done")'
            PROVE  Current' = {}
        <4>1. Greeting(u) /\ ~ At(u, "done") /\ (tasks[u].aborted \/ u = voice.controller)
          BY <1>4, <3>3 DEF Greeting, At
        <4>2. CASE tasks[u].aborted
          BY <1>11, <2>1, <4>1, <4>2 DEF PageInv, OrderlyOK, OneCurrent
        <4>3. CASE ~ tasks[u].aborted
          <5>1. u \in Current /\ u = voice.controller
            BY <4>1, <4>3 DEF Current
          <5> QED BY <1>11, <2>1, <5>1 DEF PageInv, OrderlyOK, OneCurrent
        <4> QED BY <4>2, <4>3
      <3> QED BY <1>1, <1>3, <1>11, <3>1, <3>2, <3>3 DEF PageInv, OrderlyOK, OneCurrent
    <2>3. \A u \in Current' : ~ At(u, "asked")' /\ ~ At(u, "playing")'
      <3>1. SUFFICES ASSUME NEW u \in Current', At(u, "asked")' \/ At(u, "playing")'
                     PROVE  FALSE
        OBVIOUS
      <3>2. u \in Current /\ u # voice.controller /\ Replying(u)
        BY <2>1, <3>1 DEF Current, Replying, At
      <3> QED BY <1>11, <3>2 DEF PageInv, OrderlyOK, Kept
    <2>4. Kept'
      BY <1>1, <2>3 DEF Kept, Replying, At
    <2>5. Silence' /\ SilenceIsNoticed' /\ StaleWordsNeedBargeIn'
      BY <1>1 DEF Silence, SilenceIsNoticed, StaleWordsNeedBargeIn
    <2> QED BY <2>2, <2>4, <2>5
  <1> QED BY <1>5, <1>6, <1>7, <1>9, <1>10, <1>11 DEF Orderly

LEMMA StopSessionStops ==
  ASSUME PageInv, NEW ts \in Seq(Task(Len(sockets))), StopSession(ts), used' = used
  PROVE  /\ Stops(ts) /\ voice'.promise = voice.promise
         /\ voice.page # "test" => voice'.ready = voice.ready /\ sockets' = sockets
         /\ voice.page = "test" => Releases(sockets', voice.socket)
  <1>1. PICK q : q = Quiet
    OBVIOUS
  <1>2. q = [voice EXCEPT !.busy = FALSE, !.idle = FALSE, !.endpoint = "none", !.stage = 0,
                          !.continuous = FALSE, !.listening = FALSE, !.replying = FALSE,
                          !.controller = 0, !.playing = 0, !.armed = FALSE, !.barge = FALSE]
    BY <1>1 DEF Quiet, Disarmed, PageInv, Typed, Formed
  <1>3. voice' = IF voice.page = "test" THEN [q EXCEPT !.socket = 0, !.ready = FALSE] ELSE q
    BY <1>1 DEF StopSession, Stopped
  <1>4. /\ Formed(voice') /\ Changes(Reset)
        /\ voice'.busy = FALSE /\ voice'.idle = FALSE /\ voice'.endpoint = "none" /\ voice'.stage = 0
        /\ voice'.continuous = FALSE /\ voice'.listening = FALSE /\ voice'.replying = FALSE
        /\ voice'.controller = 0 /\ voice'.playing = 0 /\ voice'.armed = FALSE /\ voice'.barge = FALSE
        /\ voice.page = "test" => voice'.socket = 0 /\ voice'.ready = FALSE
        /\ voice.page # "test" => voice'.socket = voice.socket /\ voice'.ready = voice.ready
        /\ voice'.promise = voice.promise
    <2>1. CASE voice.page = "test"
      <3>1. voice' = [voice EXCEPT !.busy = FALSE, !.idle = FALSE, !.endpoint = "none", !.stage = 0,
                                   !.continuous = FALSE, !.listening = FALSE, !.replying = FALSE,
                                   !.controller = 0, !.playing = 0, !.armed = FALSE, !.barge = FALSE,
                                   !.socket = 0, !.ready = FALSE]
        BY <1>2, <1>3, <2>1 DEF PageInv, Typed, Formed
      <3> QED BY <2>1, <3>1 DEF PageInv, Typed, Formed, Changes, Reset
    <2>2. CASE voice.page # "test"
      <3>1. voice' = [voice EXCEPT !.busy = FALSE, !.idle = FALSE, !.endpoint = "none", !.stage = 0,
                                   !.continuous = FALSE, !.listening = FALSE, !.replying = FALSE,
                                   !.controller = 0, !.playing = 0, !.armed = FALSE, !.barge = FALSE]
        BY <1>2, <1>3, <2>2
      <3> QED BY <2>2, <3>1 DEF PageInv, Typed, Formed, Changes, Reset
    <2> QED BY <2>1, <2>2
  <1>5. tasks' = Abort(ts) /\ hearing' = FALSE /\ past' = [past EXCEPT !.unwatched = FALSE]
    BY DEF StopSession
  <1>6. Aborts(ts, tasks') /\ tasks' \in Seq(Task(Len(sockets)))
    <2>1. PICK n \in Nat : n = Len(sockets)
      BY Shape DEF PageInv
    <2>2. ts \in Seq(Task(n))
      BY <2>1
    <2>3. Aborts(ts, Abort(ts)) /\ Abort(ts) \in Seq(Task(n))
      BY <2>2, Aborting
    <2> QED BY <1>5, <2>1, <2>3
  <1>7. /\ sockets' \in Seq(Socket) /\ Len(sockets') = Len(sockets)
        /\ voice.page # "test" => sockets' = sockets
        /\ voice.page = "test" => Releases(sockets', voice.socket)
    <2>1. CASE voice.page = "test"
      <3>1. sockets' = Closing(voice.socket)
        BY <2>1 DEF StopSession, LetGo
      <3>2. Releases(Closing(voice.socket), voice.socket) /\ Closing(voice.socket) \in Seq(Socket)
        BY ClosingReleases DEF PageInv
      <3> QED BY <2>1, <3>1, <3>2 DEF Releases
    <2>2. CASE voice.page # "test"
      <3>1. sockets' = sockets
        BY <2>2 DEF StopSession, LetGo
      <3> QED BY <2>2, <3>1 DEF PageInv, Typed
    <2> QED BY <2>1, <2>2
  <1> QED BY <1>4, <1>5, <1>6, <1>7 DEF Stops

LEMMA StopSessionKeeps ==
  ASSUME PageInv, NEW ts \in Seq(Task(Len(sockets))), OnlyEnds(ts), StopSession(ts), used' = used,
         \A u \in DOMAIN tasks : ~ At(u, "resuming")
  PROVE  PageInv'
  <1>1. /\ Stops(ts) /\ voice'.promise = voice.promise
        /\ voice.page # "test" => voice'.ready = voice.ready /\ sockets' = sockets
        /\ voice.page = "test" => Releases(sockets', voice.socket)
    BY StopSessionStops
  <1>2. /\ Typed' /\ Counted' /\ Flags' /\ TasksOK' /\ EndpointOK'
        /\ Orderly' => /\ Orderly /\ OneCurrent' /\ Kept' /\ Silence'
                       /\ SilenceIsNoticed' /\ StaleWordsNeedBargeIn'
    BY <1>1, StopsKeeps
  <1>3. /\ DOMAIN tasks' = DOMAIN tasks /\ DOMAIN sockets' = DOMAIN sockets
        /\ voice'.page = voice.page /\ voice'.continuous = FALSE /\ hearing' = FALSE
        /\ voice.page = "test" => voice'.socket = 0
        /\ voice.page # "test" => voice'.socket = voice.socket
    BY <1>1 DEF Stops, Aborts, OnlyEnds, Releases, Changes, Reset
  <1>4. ASSUME NEW s \in DOMAIN sockets
        PROVE  /\ sockets'[s].settled = sockets[s].settled
               /\ Pending(sockets'[s]) <=> Pending(sockets[s])
               /\ sockets'[s].phase # sockets[s].phase => sockets'[s].phase = "closing"
               /\ voice.page = "test" => ~ Alive(sockets'[s])
    <2>1. CASE voice.page = "test"
      <3>1. /\ sockets'[s].settled = sockets[s].settled
            /\ sockets'[s].phase = IF s = voice.socket /\ sockets[s].phase # "closed" THEN "closing" ELSE sockets[s].phase
        BY <1>1, <2>1 DEF Releases
      <3>2. Alive(sockets[s]) => s = voice.socket
        BY DEF PageInv, SocketsOK
      <3> QED BY <3>1, <3>2 DEF Pending, Alive
    <2>2. CASE voice.page # "test"
      BY <1>1, <2>2
    <2> QED BY <2>1, <2>2
  <1>5. \A u \in DOMAIN tasks : At(u, "recogniser")' => At(u, "recogniser") /\ tasks'[u].awaits = tasks[u].awaits
    BY <1>1 DEF Stops, Aborts, OnlyEnds, At
  <1>6. \A u \in DOMAIN tasks : At(u, "recogniser") /\ tasks[u].awaits # 0 /\ Pending(sockets[tasks[u].awaits]) =>
          At(u, "recogniser")' /\ tasks'[u].awaits = tasks[u].awaits
    BY <1>1 DEF Stops, Aborts, OnlyEnds, At
  <1>7. \A u \in DOMAIN tasks : ~ At(u, "resuming")'
    <2>1. ASSUME NEW u \in DOMAIN tasks
          PROVE  tasks'[u].at # "resuming"
      <3>1. ts[u].at = tasks[u].at \/ ts[u].at = "done"
        BY DEF OnlyEnds
      <3>2. tasks'[u].at = ts[u].at
        BY <1>1 DEF Stops, Aborts, OnlyEnds
      <3> QED BY <3>1, <3>2 DEF At
    <2> QED BY <2>1 DEF At
  <1>8. SocketsOK'
    <2>1. ASSUME NEW s \in DOMAIN sockets
          PROVE  /\ sockets'[s].phase \in {"connecting", "loading"} => ~ sockets'[s].settled
                 /\ sockets'[s].phase = "ready" => sockets'[s].settled
                 /\ Alive(sockets'[s]) => s = voice'.socket
                 /\ voice.page = "pilot" /\ sockets'[s].phase # "closed" =>
                      \/ ~ sockets'[s].settled /\ voice'.promise = s
                      \/ sockets'[s].phase = "ready" /\ s = voice'.socket /\ voice'.ready
      BY <1>1, <1>3, <1>4 DEF PageInv, SocketsOK
    <2>2. ASSUME NEW s \in DOMAIN sockets, Pending(sockets'[s])
          PROVE  \E u \in DOMAIN tasks : At(u, "recogniser")' /\ tasks'[u].awaits = s
      <3>1. PICK u \in DOMAIN tasks : At(u, "recogniser") /\ tasks[u].awaits = s
        BY <1>4, <2>2 DEF PageInv, SocketsOK
      <3>2. s # 0 /\ Pending(sockets[s])
        BY <1>4, <2>2, Shape DEF PageInv
      <3> QED BY <1>6, <3>1, <3>2
    <2>3. voice'.promise # 0 => Pending(sockets'[voice'.promise]) /\ voice'.socket \in {0, voice'.promise}
      <3>1. voice.promise # 0 => voice.promise \in DOMAIN sockets
        BY Shape DEF PageInv, Typed, Fields
      <3> QED BY <1>1, <1>3, <1>4, <3>1 DEF PageInv, SocketsOK
    <2>4. ~ (voice'.socket # 0 /\ voice'.promise # voice'.socket /\ sockets'[voice'.socket].phase = "connecting")
      <3>1. voice.socket # 0 => voice.socket \in DOMAIN sockets
        BY Shape DEF PageInv, Typed, Fields
      <3>2. voice.page \in {"test", "pilot"}
        BY PagesAssumption DEF PageInv, Typed, Fields
      <3> QED BY <1>1, <1>3, <3>1, <3>2 DEF PageInv, SocketsOK
    <2> QED BY <1>3, <1>7, <2>1, <2>2, <2>3, <2>4 DEF SocketsOK
  <1>9. Orderly' => Waited'
    BY <1>2, <1>3, <1>4, <1>5, WaitedFor DEF PageInv, OrderlyOK, Waited
  <1> QED BY <1>2, <1>8, <1>9 DEF PageInv, OrderlyOK

\* The call stops whatever its functions are doing.
LEMMA StopsAsItIs ==
  ASSUME PageInv, NoMicrotask, StopSession(tasks), used' = used
  PROVE  PageInv'
  <1>1. OnlyEnds(tasks)
    BY DEF OnlyEnds
  <1>2. \A u \in DOMAIN tasks : ~ At(u, "resuming")
    BY DEF NoMicrotask, Settled
  <1>3. tasks \in Seq(Task(Len(sockets)))
    BY DEF PageInv, Typed
  <1> QED BY <1>1, <1>2, <1>3, StopSessionKeeps

\* A function stops the call and is over.
LEMMA StopsAtEnd ==
  ASSUME PageInv, NEW t \in DOMAIN tasks, StopSession(Finished(t)), used' = used,
         \A u \in DOMAIN tasks : ~ At(u, "resuming"),
         ~ (At(t, "recogniser") /\ tasks[t].awaits # 0 /\ Pending(sockets[tasks[t].awaits]))
  PROVE  PageInv'
  <1>1. PICK ts : ts = Finished(t)
    OBVIOUS
  <1>2. /\ Becomes(ts, t, FinishedTask) /\ ts \in Seq(Task(Len(sockets)))
        /\ FinishedTask.at = "done" /\ FinishedTask.kind = "listen" /\ ~ FinishedTask.aborted
    BY <1>1, Finishes DEF PageInv
  <1>3. OnlyEnds(ts)
    BY <1>2 DEF OnlyEnds, Becomes
  <1>4. StopSession(ts)
    BY <1>1
  <1> QED BY <1>2, <1>3, <1>4, StopSessionKeeps

LEMMA HangUpKeeps ==
  ASSUME PageInv, NoMicrotask, HangUp
  PROVE  PageInv'
  BY StopsAsItIs DEF HangUp

LEMMA RecogniserFailsKeeps ==
  ASSUME PageInv, NoMicrotask, RecogniserFails
  PROVE  PageInv'
  BY StopsAsItIs DEF RecogniserFails

LEMMA MicrophoneFailsKeeps ==
  ASSUME PageInv, NoMicrotask, NEW t \in DOMAIN tasks, MicrophoneFails(t)
  PROVE  PageInv'
  <1>1. StopSession(Finished(t)) /\ used' = used /\ ~ At(t, "recogniser")
    BY DEF MicrophoneFails, At
  <1>2. \A u \in DOMAIN tasks : ~ At(u, "resuming")
    BY DEF NoMicrotask, Settled
  <1> QED BY <1>1, <1>2, StopsAtEnd

LEMMA ReplyEndsCallKeeps ==
  ASSUME PageInv, NoMicrotask, NEW t \in DOMAIN tasks, ReplyEndsCall(t)
  PROVE  PageInv'
  <1>1. StopSession(Finished(t)) /\ used' = used /\ ~ At(t, "recogniser")
    BY DEF ReplyEndsCall, At
  <1>2. \A u \in DOMAIN tasks : ~ At(u, "resuming")
    BY DEF NoMicrotask, Settled
  <1> QED BY <1>1, <1>2, StopsAtEnd

LEMMA FarewellWasOverKeeps ==
  ASSUME PageInv, NoMicrotask, NEW t \in DOMAIN tasks, FarewellWasOver(t)
  PROVE  PageInv'
  <1>1. StopSession(Finished(t)) /\ used' = used /\ ~ At(t, "recogniser")
    BY DEF FarewellWasOver, At
  <1>2. \A u \in DOMAIN tasks : ~ At(u, "resuming")
    BY DEF NoMicrotask, Settled
  <1> QED BY <1>1, <1>2, StopsAtEnd

LEMMA ListenFailsKeeps ==
  ASSUME PageInv, NEW t \in DOMAIN tasks, ListenFails(t)
  PROVE  PageInv'
  <1>1. /\ StopSession(Finished(t)) /\ used' = used /\ At(t, "recogniser")
        /\ tasks[t].awaits # 0 /\ sockets[tasks[t].awaits].phase = "closed"
    BY DEF ListenFails
  <1>2. Settled(t)
    BY <1>1 DEF Settled
  <1>3. \A u \in DOMAIN tasks : ~ At(u, "resuming")
    BY <1>1, <1>2 DEF PageInv, SocketsOK
  <1>4. ~ Pending(sockets[tasks[t].awaits])
    BY <1>1 DEF Pending
  <1> QED BY <1>1, <1>3, <1>4, StopsAtEnd

\* A connection that was ready closes while the call goes on.
LEMMA SocketClosesInCall ==
  ASSUME PageInv, NoMicrotask, NEW s \in DOMAIN sockets, SocketCloses(s),
         sockets[s].settled, voice.continuous
  PROVE  PageInv'
  <1>1. /\ sockets[s].phase # "closed" /\ used' = used
        /\ voice' = [Stopped EXCEPT !.promise = 0, !.ready = FALSE]
        /\ tasks' = Abort(tasks) /\ sockets' = [LetGo EXCEPT ![s].phase = "closed"]
        /\ hearing' = FALSE /\ past' = [past EXCEPT !.unwatched = FALSE]
    BY DEF SocketCloses
  <1>2. /\ Formed(voice') /\ Changes(Reset)
        /\ voice'.busy = FALSE /\ voice'.idle = FALSE /\ voice'.endpoint = "none" /\ voice'.stage = 0
        /\ voice'.continuous = FALSE /\ voice'.listening = FALSE /\ voice'.replying = FALSE
        /\ voice'.controller = 0 /\ voice'.playing = 0 /\ voice'.armed = FALSE /\ voice'.barge = FALSE
        /\ voice'.ready = FALSE /\ voice'.promise = 0
        /\ voice.page = "test" => voice'.socket = 0
        /\ voice.page # "test" => voice'.socket = voice.socket
    <2>1. PICK q : q = Quiet
      OBVIOUS
    <2>2. q = [voice EXCEPT !.busy = FALSE, !.idle = FALSE, !.endpoint = "none", !.stage = 0,
                            !.continuous = FALSE, !.listening = FALSE, !.replying = FALSE,
                            !.controller = 0, !.playing = 0, !.armed = FALSE, !.barge = FALSE]
      BY <2>1 DEF Quiet, Disarmed, PageInv, Typed, Formed
    <2>3. PICK p : p = IF voice.page = "test" THEN [q EXCEPT !.socket = 0, !.ready = FALSE] ELSE q
      OBVIOUS
    <2>4. voice' = [p EXCEPT !.promise = 0, !.ready = FALSE]
      BY <1>1, <2>1, <2>3 DEF Stopped
    <2>5. PICK socket : socket = IF voice.page = "test" THEN 0 ELSE voice.socket
      OBVIOUS
    <2>6. q = [page |-> voice.page, busy |-> FALSE, microphone |-> voice.microphone,
               continuous |-> FALSE, listening |-> FALSE, replying |-> FALSE, idle |-> FALSE,
               stage |-> 0, controller |-> 0, playing |-> 0, armed |-> FALSE, barge |-> FALSE,
               endpoint |-> "none", words |-> voice.words,
               socket |-> voice.socket, promise |-> voice.promise, ready |-> voice.ready]
      BY <2>2 DEF PageInv, Typed, Formed
    <2>7. voice' = [page |-> voice.page, busy |-> FALSE, microphone |-> voice.microphone,
                   continuous |-> FALSE, listening |-> FALSE, replying |-> FALSE, idle |-> FALSE,
                   stage |-> 0, controller |-> 0, playing |-> 0, armed |-> FALSE, barge |-> FALSE,
                   endpoint |-> "none", words |-> voice.words,
                   socket |-> socket, promise |-> 0, ready |-> FALSE]
      <3>1. CASE voice.page = "test"
        <4>1. voice' = [[q EXCEPT !.socket = 0, !.ready = FALSE] EXCEPT !.promise = 0, !.ready = FALSE]
          BY <2>3, <2>4, <3>1
        <4> QED BY <2>5, <2>6, <3>1, <4>1
      <3>2. CASE voice.page # "test"
        <4>1. voice' = [q EXCEPT !.promise = 0, !.ready = FALSE]
          BY <2>3, <2>4, <3>2
        <4> QED BY <2>5, <2>6, <3>2, <4>1
      <3> QED BY <3>1, <3>2
    <2> QED BY <2>5, <2>7 DEF Formed, Changes, Reset
  <1>3. Aborts(tasks, tasks') /\ tasks' \in Seq(Task(Len(sockets)))
    <2>1. PICK n \in Nat : n = Len(sockets)
      BY Shape DEF PageInv
    <2>2. tasks \in Seq(Task(n))
      BY <2>1 DEF PageInv, Typed
    <2>3. Aborts(tasks, Abort(tasks)) /\ Abort(tasks) \in Seq(Task(n))
      BY <2>2, Aborting
    <2> QED BY <1>1, <2>1, <2>3
  <1>4. /\ sockets' \in Seq(Socket) /\ Len(sockets') = Len(sockets) /\ DOMAIN sockets' = DOMAIN sockets
        /\ \A i \in DOMAIN sockets :
             /\ sockets'[i].settled = sockets[i].settled
             /\ sockets'[i].phase = IF i = s THEN "closed"
                                    ELSE IF voice.page = "test" /\ i = voice.socket /\ sockets[i].phase # "closed"
                                    THEN "closing" ELSE sockets[i].phase
    <2>1. PICK ss : ss = LetGo
      OBVIOUS
    <2>2. /\ ss \in Seq(Socket) /\ Len(ss) = Len(sockets) /\ DOMAIN ss = DOMAIN sockets
          /\ \A i \in DOMAIN sockets :
               /\ ss[i].settled = sockets[i].settled
               /\ ss[i].phase = IF voice.page = "test" /\ i = voice.socket /\ sockets[i].phase # "closed"
                                THEN "closing" ELSE sockets[i].phase
      <3>1. CASE voice.page = "test"
        <4>1. ss = Closing(voice.socket)
          BY <2>1, <3>1 DEF LetGo
        <4>2. Releases(Closing(voice.socket), voice.socket) /\ Closing(voice.socket) \in Seq(Socket)
          BY ClosingReleases DEF PageInv
        <4> QED BY <3>1, <4>1, <4>2 DEF Releases
      <3>2. CASE voice.page # "test"
        <4>1. ss = sockets
          BY <2>1, <3>2 DEF LetGo
        <4> QED BY <3>2, <4>1 DEF PageInv, Typed
      <3> QED BY <3>1, <3>2
    <2>3. PICK k, S : /\ k \in Nat /\ k = Len(ss) /\ S = Socket /\ DOMAIN ss = 1 .. k /\ ss \in Seq(S)
                      /\ ss \in [1 .. k -> S]
      BY <2>2, LenProperties
    <2>4. PICK old \in S : old = ss[s]
      BY <2>2, <2>3
    <2>5. PICK c : c = [old EXCEPT !.phase = "closed"]
      OBVIOUS
    <2>6. c \in S /\ c.phase = "closed" /\ c.settled = old.settled
      BY <2>3, <2>4, <2>5 DEF Socket, Phases
    <2>7. sockets' = [ss EXCEPT ![s] = c]
      BY <1>1, <2>1, <2>4, <2>5
    <2>8. s \in 1 .. Len(ss)
      BY <2>2, <2>3
    <2>9. [ss EXCEPT ![s] = c] \in Seq(S) /\ Len([ss EXCEPT ![s] = c]) = Len(ss)
      BY <2>3, <2>6, <2>8, ExceptSeq
    <2>10. DOMAIN sockets' = DOMAIN ss /\ sockets'[s] = c /\ \A i \in DOMAIN ss \ {s} : sockets'[i] = ss[i]
      BY <2>2, <2>7
    <2>11. sockets' \in Seq(Socket) /\ Len(sockets') = Len(sockets) /\ DOMAIN sockets' = DOMAIN sockets
      BY <2>2, <2>3, <2>7, <2>9, <2>10
    <2> QED BY <2>2, <2>4, <2>6, <2>10, <2>11
  <1>5. Stops(tasks)
    BY <1>1, <1>2, <1>3, <1>4 DEF Stops
  <1>6. \A u \in DOMAIN tasks : ~ At(u, "resuming")
    BY DEF NoMicrotask, Settled
  <1>7. /\ Typed' /\ Counted' /\ Flags' /\ TasksOK' /\ EndpointOK'
        /\ Orderly' => /\ Orderly /\ OneCurrent' /\ Kept' /\ Silence'
                       /\ SilenceIsNoticed' /\ StaleWordsNeedBargeIn'
    <2>1. OnlyEnds(tasks)
      BY DEF OnlyEnds
    <2> QED BY <1>5, <1>6, <2>1, StopsKeeps
  <1>8. /\ DOMAIN tasks' = DOMAIN tasks
        /\ \A u \in DOMAIN tasks : tasks'[u].at = tasks[u].at /\ tasks'[u].awaits = tasks[u].awaits
    BY <1>3 DEF Aborts
  <1>9. voice'.page = voice.page /\ s # 0
    BY <1>2, Shape DEF Changes, Reset, PageInv
  <1>10. voice.page = "pilot" => \A i \in DOMAIN sockets' : sockets'[i].phase = "closed"
    <2>1. SUFFICES ASSUME voice.page = "pilot", NEW i \in DOMAIN sockets, i # s, sockets[i].phase # "closed"
                   PROVE  FALSE
      BY <1>4
    <2>2. \/ ~ sockets[i].settled /\ voice.promise = i
          \/ sockets[i].phase = "ready" /\ i = voice.socket /\ voice.ready
      BY <2>1 DEF PageInv, SocketsOK
    <2>3. s = voice.socket
      BY <1>1, <2>1 DEF PageInv, SocketsOK
    <2>4. voice.promise # 0 => voice.socket \in {0, voice.promise}
      BY DEF PageInv, SocketsOK
    <2>5. i # 0
      BY Shape DEF PageInv
    <2> QED BY <1>9, <2>1, <2>2, <2>3, <2>4, <2>5
  <1>11. \A i \in DOMAIN sockets : Pending(sockets'[i]) => Pending(sockets[i])
    BY <1>4 DEF Pending
  <1>12. SocketsOK'
    <2>1. voice.page \in {"test", "pilot"}
      BY PagesAssumption DEF PageInv, Typed, Fields
    <2>2. ASSUME NEW i \in DOMAIN sockets
          PROVE  /\ sockets'[i].phase \in {"connecting", "loading"} => ~ sockets'[i].settled
                 /\ sockets'[i].phase = "ready" => sockets'[i].settled
                 /\ ~ Alive(sockets'[i])
                 /\ Pending(sockets'[i]) => \E t \in DOMAIN tasks : At(t, "recogniser") /\ tasks[t].awaits = i
                 /\ voice.page = "pilot" => sockets'[i].phase = "closed"
      BY <1>4, <1>10, <1>11, <2>1 DEF PageInv, SocketsOK, Alive
    <2>3. ~ (voice'.socket # 0 /\ sockets'[voice'.socket].phase = "connecting")
      <3>1. voice.socket # 0 => voice.socket \in DOMAIN sockets
        BY Shape DEF PageInv, Typed, Fields
      <3> QED BY <1>2, <1>4, <1>10, <2>1, <3>1
    <2>4. \A u, w \in DOMAIN tasks' : ~ At(u, "resuming")'
      BY <1>6, <1>8 DEF At
    <2>5. voice'.page = "test" /\ ~ voice'.continuous => voice'.socket = 0
      BY <1>2, <1>9
    <2>6. \A i \in DOMAIN sockets : Pending(sockets'[i]) =>
             \E t \in DOMAIN tasks' : At(t, "recogniser")' /\ tasks'[t].awaits = i
      BY <1>8, <2>2 DEF At
    <2>7. /\ DOMAIN sockets' = DOMAIN sockets /\ voice'.page = voice.page
          /\ voice'.promise = 0 /\ hearing' = FALSE
      BY <1>1, <1>2, <1>4, <1>9
    <2> QED BY <2>2, <2>3, <2>4, <2>5, <2>6, <2>7 DEF SocketsOK
  <1>13. Orderly' => Waited'
    <2>1. ASSUME NEW u \in DOMAIN tasks, tasks[u].awaits # 0, Pending(sockets'[tasks[u].awaits])
          PROVE  voice.page # "pilot"
      BY <1>4, <1>10, <2>1, WaitedFor DEF Pending, PageInv
    <2>2. voice.page # "pilot" => voice'.socket = 0
      BY <1>2, PagesAssumption DEF PageInv, Typed, Fields
    <2> QED BY <1>8, <2>1, <2>2 DEF Waited, At
  <1> QED BY <1>7, <1>12, <1>13 DEF PageInv, OrderlyOK

LEMMA SocketClosesKeeps ==
  ASSUME PageInv, NoMicrotask, NEW s \in DOMAIN sockets, SocketCloses(s)
  PROVE  PageInv'
  BY SocketClosesInCall, SocketClosesQuietly

-----------------------------------------------------------------------------
(* Tasks begin *)

\* The tasks are what ts makes of them, and a new one.
Starts(ts, kind, stage, preserve) ==
  /\ ts \in Seq(Task(Len(sockets))) /\ Len(ts) = Len(tasks) /\ DOMAIN ts = DOMAIN tasks
  /\ kind \in Kinds /\ stage \in Stages /\ preserve \in BOOLEAN
  /\ tasks' = Append(ts, NewTask(kind, stage, preserve))

LEMMA TypedBegins ==
  ASSUME Typed, sockets' = sockets, hearing' = hearing,
         NEW ts, NEW kind, NEW stage, NEW preserve, Starts(ts, kind, stage, preserve),
         NEW fields, Formed(voice'), Changes(fields), Fit(fields, Len(tasks) + 1, Len(sockets))
  PROVE  /\ Typed'
         /\ DOMAIN tasks' = DOMAIN tasks \cup {Next1} /\ Next1 \notin DOMAIN tasks /\ Next1 # 0
         /\ \A u \in DOMAIN tasks : u # Next1 /\ tasks'[u] = ts[u]
         /\ tasks'[Next1].kind = kind /\ tasks'[Next1].at = stage /\ tasks'[Next1].aborted = FALSE
  <1>1. PICK r : r = NewTask(kind, stage, preserve)
    OBVIOUS
  <1>2. PICK n \in Nat : n = Len(sockets)
    BY Shape
  <1>3. r \in Task(n) /\ r.kind = kind /\ r.at = stage /\ r.aborted = FALSE
    BY <1>1, <1>2 DEF NewTask, Task, Starts
  <1>4. Begins(ts, r) /\ tasks' \in Seq(Task(n))
    <2>1. ts \in Seq(Task(n)) /\ tasks' = Append(ts, r)
      BY <1>1, <1>2 DEF Starts
    <2> QED BY <1>2, <1>3, <2>1, Appending
  <1>5. PICK k \in Nat : k = Len(tasks) /\ DOMAIN tasks = 1 .. k /\ Next1 = k + 1
    BY Shape DEF Next1
  <1>6. Len(tasks') = k + 1 /\ k + 1 \in Nat /\ k <= k + 1
    BY <1>4, <1>5 DEF Begins, Starts
  <1>7. Typed'
    <2>1. PICK l : l \in Nat /\ l = Len(tasks') /\ Len(tasks) <= l /\ l = Len(tasks) + 1
      BY <1>5, <1>6
    <2>2. hearing' \in BOOLEAN /\ tasks' \in Seq(Task(Len(sockets))) /\ Fit(fields, l, Len(sockets))
      BY <1>2, <1>4, <2>1 DEF Typed
    <2> QED BY <2>1, <2>2, TypedAfter
  <1> QED BY <1>3, <1>4, <1>5, <1>7 DEF Begins, Starts

LEMMA StartCallKeeps ==
  ASSUME PageInv, NoMicrotask, StartCall
  PROVE  PageInv'
  <1> DEFINE Started == {"continuous", "busy", "idle", "endpoint"}
  <1>1. /\ ~ voice.continuous /\ ~ voice.replying /\ used.calls < MaxCalls
        /\ used' = [used EXCEPT !.calls = @ + 1] /\ UNCHANGED <<sockets, hearing>>
        /\ past' = [past EXCEPT !.leftover = @ \/ \E t \in DOMAIN tasks : ~ At(t, "done")]
    BY DEF StartCall
  <1>2. PICK kind, stage :
          /\ tasks' = Append(tasks, NewTask(kind, stage, FALSE))
          /\ Formed(voice') /\ Changes(Started) /\ voice'.continuous = TRUE
          /\ \/ /\ voice.page = "test" /\ kind = "greeting" /\ stage \in {"starting", "microphone"}
                /\ voice'.busy = TRUE /\ voice'.idle = voice.idle /\ voice'.endpoint = voice.endpoint
             \/ /\ voice.page = "pilot" /\ kind = "listen" /\ stage \in {"resuming", "microphone"}
                /\ voice'.busy = voice.busy /\ voice'.idle = FALSE /\ voice'.endpoint = "none"
    <2>1. CASE voice.page = "test"
      <3>1. PICK stage : stage = IF voice.microphone THEN "starting" ELSE "microphone"
        OBVIOUS
      <3>2. tasks' = Append(tasks, NewTask("greeting", stage, FALSE))
        BY <2>1, <3>1 DEF StartCall
      <3>3. voice' = [voice EXCEPT !.continuous = TRUE, !.busy = TRUE]
        BY <2>1 DEF StartCall
      <3>4. /\ Formed(voice') /\ Changes(Started) /\ voice'.continuous = TRUE /\ voice'.busy = TRUE
            /\ voice'.idle = voice.idle /\ voice'.endpoint = voice.endpoint
        BY <3>3 DEF PageInv, Typed, Formed, Changes
      <3>5. stage \in {"starting", "microphone"}
        BY <3>1
      <3> QED BY <2>1, <3>2, <3>4, <3>5
    <2>2. CASE voice.page # "test"
      <3>1. PICK stage : stage = IF voice.microphone THEN "resuming" ELSE "microphone"
        OBVIOUS
      <3>2. tasks' = Append(tasks, NewTask("listen", stage, FALSE))
        BY <2>2, <3>1 DEF StartCall
      <3>3. voice' = [voice EXCEPT !.continuous = TRUE, !.idle = FALSE, !.endpoint = "none"]
        BY <2>2 DEF StartCall, BeforeListening, PageInv, Typed, Formed
      <3>4. /\ Formed(voice') /\ Changes(Started) /\ voice'.continuous = TRUE /\ voice'.busy = voice.busy
            /\ voice'.idle = FALSE /\ voice'.endpoint = "none"
        BY <3>3 DEF PageInv, Typed, Formed, Changes
      <3>5. stage \in {"resuming", "microphone"} /\ voice.page = "pilot"
        BY <2>2, <3>1, PagesAssumption DEF PageInv, Typed, Fields
      <3> QED BY <3>2, <3>4, <3>5
    <2> QED BY <2>1, <2>2
  <1>3. PICK new : new = Next1
    OBVIOUS
  <1>4. /\ Typed'
        /\ DOMAIN tasks' = DOMAIN tasks \cup {new} /\ new \notin DOMAIN tasks /\ new # 0
        /\ \A u \in DOMAIN tasks : u # new /\ tasks'[u] = tasks[u]
        /\ tasks'[new].kind = kind /\ tasks'[new].at = stage /\ tasks'[new].aborted = FALSE
    <2>1. kind \in Kinds /\ stage \in Stages
      BY <1>2 DEF Kinds, Stages
    <2>2. voice'.endpoint \in Word
      <3>1. voice'.endpoint \in {voice.endpoint, "none"}
        BY <1>2
      <3> QED BY <3>1 DEF PageInv, Typed, Fields, Word
    <2>3. voice'.continuous \in BOOLEAN /\ voice'.busy \in BOOLEAN /\ voice'.idle \in BOOLEAN
      <3>1. voice'.busy \in {voice.busy, TRUE} /\ voice'.idle \in {voice.idle, FALSE}
        BY <1>2
      <3> QED BY <1>2, <3>1 DEF PageInv, Typed, Fields
    <2>4. Fit(Started, Len(tasks) + 1, Len(sockets))
      BY <2>2, <2>3 DEF Fit
    <2>5. Starts(tasks, kind, stage, FALSE)
      BY <1>2, <2>1 DEF PageInv, Typed, Starts
    <2>6. sockets' = sockets /\ hearing' = hearing /\ Formed(voice') /\ Changes(Started) /\ Typed
      BY <1>1, <1>2 DEF PageInv
    <2> HIDE DEF Started
    <2>7. /\ Typed'
          /\ DOMAIN tasks' = DOMAIN tasks \cup {Next1} /\ Next1 \notin DOMAIN tasks /\ Next1 # 0
          /\ \A u \in DOMAIN tasks : u # Next1 /\ tasks'[u] = tasks[u]
          /\ tasks'[Next1].kind = kind /\ tasks'[Next1].at = stage /\ tasks'[Next1].aborted = FALSE
      BY <2>4, <2>5, <2>6, TypedBegins
    <2> QED BY <1>3, <2>7
  <1>5. Counted'
    <2>1. /\ used' = [calls |-> used'.calls, speech |-> used'.speech, clicks |-> used'.clicks]
          /\ used'.calls = used.calls + 1 /\ used'.speech = used.speech /\ used'.clicks = used.clicks
      BY <1>1 DEF PageInv, Counted
    <2>2. used'.calls \in 0 .. MaxCalls
      <3>1. PICK c \in 0 .. MaxCalls : c = used.calls
        BY DEF PageInv, Counted
      <3> QED BY <1>1, <2>1, <3>1, PagesAssumption
    <2>3. PICK leftover \in BOOLEAN : past' = [past EXCEPT !.leftover = leftover]
      BY <1>1 DEF PageInv, Counted
    <2>4. /\ past' = [lost |-> past'.lost, leftover |-> past'.leftover, unwatched |-> past'.unwatched]
          /\ past'.lost = past.lost /\ past'.leftover = leftover /\ past'.unwatched = past.unwatched
      BY <2>3 DEF PageInv, Counted
    <2> QED BY <2>1, <2>2, <2>4 DEF PageInv, Counted
  <1>6. Orderly' => Orderly /\ \A t \in DOMAIN tasks : At(t, "done")
    BY <1>1 DEF Orderly, PageInv, Counted
  <1>7. Flags'
    BY <1>1, <1>2 DEF PageInv, Flags, Changes
  <1>8. \A u \in DOMAIN tasks : ~ At(u, "resuming")
    BY DEF NoMicrotask, Settled
  <1>9. voice'.controller = voice.controller /\ voice'.page = voice.page /\ voice.controller # new
    <2>1. PICK k \in Nat : k = Len(tasks) /\ new = k + 1
      BY <1>3, Shape DEF PageInv, Next1
    <2>2. voice.controller \in 0 .. k
      BY <2>1 DEF PageInv, Typed, Fields
    <2> QED BY <1>2, <2>1, <2>2 DEF Changes
  <1>10. TasksOK'
    <2>1. ASSUME NEW u \in DOMAIN tasks
          PROVE  /\ (u = voice'.controller \/ tasks'[u].aborted) /\ ~ At(u, "done")' =>
                      At(u, "asked")' \/ At(u, "playing")' \/ (Greeting(u)' /\ ToListen(u)')
                 /\ voice'.page = "test" /\ tasks'[u].aborted /\ ~ At(u, "done")' => voice'.controller # u
                 /\ Greeting(u)' => voice'.page = "test"
                 /\ At(u, "starting")' => Greeting(u)'
                 /\ At(u, "done")' => ~ Greeting(u)'
                 /\ At(u, "microphone")' /\ tasks'[u].kind = "listen" => voice'.page = "pilot"
                 /\ ~ At(u, "resuming")'
      BY <1>4, <1>8, <1>9 DEF PageInv, TasksOK, At, Greeting, ToListen
    <2>2. /\ new # voice'.controller /\ ~ tasks'[new].aborted
          /\ Greeting(new)' => voice'.page = "test"
          /\ At(new, "starting")' => Greeting(new)'
          /\ ~ At(new, "done")'
          /\ At(new, "microphone")' /\ tasks'[new].kind = "listen" => voice'.page = "pilot"
          /\ At(new, "resuming")' => voice'.page # "test"
      BY <1>2, <1>4, <1>9 DEF At, Greeting
    <2> QED BY <1>4, <2>1, <2>2 DEF TasksOK
  <1>11. SameWaits /\ SameResumes
    BY <1>1, <1>2, <1>4, <1>8 DEF SameWaits, SameResumes, At
  <1>12. SocketsOK' /\ EndpointOK'
    BY <1>1, <1>2, <1>11, Undisturbed DEF PageInv, Changes
  <1>13. ASSUME Orderly, \A t \in DOMAIN tasks : At(t, "done")
         PROVE  OrderlyOK'
    <2>1. Current = {}
      BY <1>13 DEF Current
    <2>2. \A u \in Current' : u = new
      BY <1>4, <1>13 DEF Current, At
    <2>3. \A u \in DOMAIN tasks : ~ Greeting(u)' /\ At(u, "done")'
      BY <1>4, <1>13 DEF PageInv, TasksOK, Greeting, At
    <2>4. OneCurrent'
      BY <1>4, <2>2, <2>3 DEF OneCurrent
    <2>5. /\ voice.playing = 0 /\ ~ voice.armed /\ ~ voice.barge /\ ~ voice.listening /\ ~ voice.idle
      BY <1>1, <1>13, <2>1 DEF PageInv, OrderlyOK, Kept, Silence, Flags
    <2>6. /\ voice'.playing = 0 /\ ~ voice'.armed /\ ~ voice'.barge /\ ~ voice'.listening /\ ~ voice'.idle
          /\ ~ voice'.replying
      BY <1>1, <1>2, <2>5 DEF Changes
    <2>7. Kept'
      BY <1>2, <1>4, <2>2, <2>6 DEF Kept, Replying, At
    <2>8. Silence'
      BY <2>6 DEF Silence
    <2>9. Waited'
      BY <1>2, <1>4, <2>3 DEF Waited, At
    <2>10. SilenceIsNoticed' /\ StaleWordsNeedBargeIn'
      BY <1>7, <2>6 DEF SilenceIsNoticed, StaleWordsNeedBargeIn, Flags
    <2> QED BY <2>4, <2>7, <2>8, <2>9, <2>10 DEF OrderlyOK
  <1> QED BY <1>4, <1>5, <1>6, <1>7, <1>10, <1>12, <1>13 DEF PageInv

LEMMA InterruptKeeps ==
  ASSUME PageInv, NoMicrotask, Interrupt
  PROVE  PageInv'
  <1> DEFINE Cut == {"playing", "replying", "continuous", "armed", "barge", "idle", "endpoint"}
  <1>1. /\ Enabled /\ voice.replying /\ used.clicks < MaxClicks
        /\ used' = [used EXCEPT !.clicks = @ + 1] /\ UNCHANGED <<sockets, hearing>>
        /\ past' = [past EXCEPT !.lost = Lost("click")]
        /\ tasks' = Append(Abort(tasks), NewTask("listen", "resuming", FALSE))
    BY DEF Interrupt
  <1>2. voice.page = "pilot"
    <2>1. voice.page \in {"test", "pilot"}
      BY PagesAssumption DEF PageInv, Typed, Fields
    <2> QED BY <1>1, <2>1 DEF PageInv, Flags, Enabled
  <1>3. /\ Formed(voice') /\ Changes(Cut) /\ voice'.playing = 0 /\ voice'.replying = FALSE
        /\ voice'.continuous = TRUE /\ voice'.armed = FALSE /\ voice'.barge = FALSE
        /\ voice'.idle = FALSE /\ voice'.endpoint = "none"
    <2>1. voice' = [voice EXCEPT !.playing = 0, !.replying = FALSE, !.continuous = TRUE,
                                 !.armed = FALSE, !.barge = FALSE, !.idle = FALSE, !.endpoint = "none"]
      BY DEF Interrupt, BeforeListening, Disarmed, PageInv, Typed, Formed
    <2> QED BY <2>1 DEF PageInv, Typed, Formed, Changes
  <1>4. PICK n, ts : n \in Nat /\ n = Len(sockets) /\ ts = Abort(tasks)
    BY Shape DEF PageInv
  <1>5. Aborts(tasks, ts) /\ ts \in Seq(Task(n))
    <2>1. tasks \in Seq(Task(n)) /\ n \in Nat
      BY <1>4 DEF PageInv, Typed
    <2> QED BY <1>4, <2>1, Aborting
  <1>6. PICK new : new = Next1
    OBVIOUS
  <1>7. /\ Typed'
        /\ DOMAIN tasks' = DOMAIN tasks \cup {new} /\ new \notin DOMAIN tasks /\ new # 0
        /\ \A u \in DOMAIN tasks : u # new /\ tasks'[u] = ts[u]
        /\ tasks'[new].kind = "listen" /\ tasks'[new].at = "resuming" /\ tasks'[new].aborted = FALSE
    <2>1. "listen" \in Kinds /\ "resuming" \in Stages /\ FALSE \in BOOLEAN
      BY DEF Kinds, Stages
    <2>2. voice'.playing \in 0 .. Len(tasks) + 1 /\ voice'.endpoint \in Word
      BY <1>3, Shape DEF PageInv, Word
    <2>3. Fit(Cut, Len(tasks) + 1, Len(sockets))
      BY <1>3, <2>2 DEF Fit
    <2>4. Len(ts) = Len(tasks) /\ DOMAIN ts = DOMAIN tasks
      BY <1>5 DEF Aborts
    <2>5. PICK kind, stage : kind = "listen" /\ stage = "resuming" /\ Starts(ts, kind, stage, FALSE)
      BY <1>1, <1>4, <1>5, <2>1, <2>4 DEF Starts
    <2>6. sockets' = sockets /\ hearing' = hearing /\ Formed(voice') /\ Changes(Cut) /\ Typed
      BY <1>1, <1>3 DEF PageInv
    <2> HIDE DEF Cut
    <2>7. /\ Typed'
          /\ DOMAIN tasks' = DOMAIN tasks \cup {Next1} /\ Next1 \notin DOMAIN tasks /\ Next1 # 0
          /\ \A u \in DOMAIN tasks : u # Next1 /\ tasks'[u] = ts[u]
          /\ tasks'[Next1].kind = kind /\ tasks'[Next1].at = stage /\ tasks'[Next1].aborted = FALSE
      BY <2>3, <2>5, <2>6, TypedBegins
    <2> QED BY <1>6, <2>5, <2>7
  <1>8. \A u \in DOMAIN tasks : /\ tasks'[u].kind = tasks[u].kind /\ tasks'[u].at = tasks[u].at
                                /\ tasks'[u].awaits = tasks[u].awaits
                                /\ tasks'[u].aborted = (tasks[u].aborted \/ u = voice.controller)
    BY <1>5, <1>7 DEF Aborts
  <1>9. Counted' /\ past'.leftover = past.leftover
    <2>1. /\ used' = [calls |-> used'.calls, speech |-> used'.speech, clicks |-> used'.clicks]
          /\ used'.calls = used.calls /\ used'.speech = used.speech /\ used'.clicks = used.clicks + 1
      BY <1>1 DEF PageInv, Counted
    <2>2. used'.clicks \in 0 .. MaxClicks
      <3>1. PICK c \in 0 .. MaxClicks : c = used.clicks
        BY DEF PageInv, Counted
      <3> QED BY <1>1, <2>1, <3>1, PagesAssumption
    <2>3. Lost("click") \in SUBSET {"playback ended", "noise", "click", "more speech"}
      BY DEF Lost, PageInv, Counted
    <2>4. /\ past' = [lost |-> past'.lost, leftover |-> past'.leftover, unwatched |-> past'.unwatched]
          /\ past'.lost = Lost("click") /\ past'.leftover = past.leftover /\ past'.unwatched = past.unwatched
      BY <1>1 DEF PageInv, Counted
    <2> QED BY <2>1, <2>2, <2>3, <2>4 DEF PageInv, Counted
  <1>10. Flags'
    BY <1>2, <1>3 DEF PageInv, Flags, Changes
  <1>11. \A u \in DOMAIN tasks : ~ At(u, "resuming")
    BY DEF NoMicrotask, Settled
  <1>12. voice'.controller = voice.controller /\ voice'.page = voice.page /\ voice.controller # new
    <2>1. PICK k \in Nat : k = Len(tasks) /\ new = k + 1
      BY <1>6, Shape DEF PageInv, Next1
    <2>2. voice.controller \in 0 .. k
      BY <2>1 DEF PageInv, Typed, Fields
    <2> QED BY <1>3, <2>1, <2>2 DEF Changes
  <1>13. TasksOK'
    <2>1. ASSUME NEW u \in DOMAIN tasks
          PROVE  /\ (u = voice'.controller \/ tasks'[u].aborted) /\ ~ At(u, "done")' =>
                      At(u, "asked")' \/ At(u, "playing")' \/ (Greeting(u)' /\ ToListen(u)')
                 /\ ~ Greeting(u)'
                 /\ At(u, "starting")' => Greeting(u)'
                 /\ At(u, "done")' => ~ Greeting(u)'
                 /\ ~ At(u, "resuming")'
      <3>1. /\ (u = voice.controller \/ tasks[u].aborted) /\ ~ At(u, "done") =>
                  At(u, "asked") \/ At(u, "playing") \/ (Greeting(u) /\ ToListen(u))
            /\ Greeting(u) => voice.page = "test"
            /\ At(u, "starting") => Greeting(u)
        BY DEF PageInv, TasksOK
      <3>2. ~ Greeting(u)
        BY <1>2, <3>1
      <3>3. /\ tasks'[u].kind = tasks[u].kind /\ tasks'[u].at = tasks[u].at
            /\ tasks'[u].aborted = (tasks[u].aborted \/ u = voice.controller)
        BY <1>8
      <3> QED BY <1>11, <1>12, <3>1, <3>2, <3>3 DEF At, Greeting
    <2>2. /\ new # voice'.controller /\ ~ tasks'[new].aborted
          /\ ~ Greeting(new)' /\ ~ At(new, "starting")' /\ ~ At(new, "done")' /\ ~ At(new, "microphone")'
      BY <1>7, <1>12 DEF At, Greeting
    <2> QED BY <1>2, <1>7, <1>12, <2>1, <2>2 DEF TasksOK
  <1>14. SameWaits /\ SameResumes
    BY <1>2, <1>7, <1>8, <1>11 DEF SameWaits, SameResumes, At
  <1>15. SocketsOK' /\ EndpointOK'
    BY <1>1, <1>2, <1>3, <1>14, Undisturbed DEF PageInv, Changes
  <1>16. ASSUME Orderly
         PROVE  OrderlyOK'
    <2>1. \A u \in Current : u = voice.controller
      BY <1>1, <1>16 DEF PageInv, OrderlyOK, OneCurrent, Kept
    <2>2. \A u : u \in Current' <=> u = new
      BY <1>7, <1>8, <2>1 DEF Current, At
    <2>3. OneCurrent'
      BY <1>2, <1>7, <1>8, <2>2 DEF PageInv, TasksOK, OneCurrent, Greeting, At
    <2>4. Kept'
      BY <1>3, <1>7, <2>2 DEF Kept, Replying, At
    <2>5. Silence'
      BY <1>3, <1>7, <2>2 DEF Silence, ToListen, At
    <2>6. Waited'
      <3>1. \A u \in DOMAIN tasks' : At(u, "recogniser")' =>
               u \in DOMAIN tasks /\ At(u, "recogniser") /\ tasks'[u].awaits = tasks[u].awaits
        BY <1>14 DEF SameWaits
      <3>2. sockets' = sockets /\ voice'.socket = voice.socket
        BY <1>1, <1>3 DEF Changes
      <3> QED BY <1>16, <3>1, <3>2 DEF PageInv, OrderlyOK, Waited, Pending
    <2>7. SilenceIsNoticed' /\ StaleWordsNeedBargeIn'
      BY <1>2, <1>3, <1>12 DEF SilenceIsNoticed, StaleWordsNeedBargeIn
    <2> QED BY <2>3, <2>4, <2>5, <2>6, <2>7 DEF OrderlyOK
  <1>17. Orderly' => OrderlyOK'
    BY <1>9, <1>16 DEF Orderly
  <1> QED BY <1>7, <1>9, <1>10, <1>13, <1>15, <1>17 DEF PageInv


\* A function that begins waits for no connection and does not listen yet.
LEMMA NewNoListener ==
  ASSUME NEW new, DOMAIN tasks' = DOMAIN tasks \cup {new}, new \notin DOMAIN tasks,
         At(new, "asked")',
         \A u \in DOMAIN tasks : /\ tasks'[u].at = tasks[u].at /\ tasks'[u].awaits = tasks[u].awaits
  PROVE  SameWaits /\ SameResumes
  BY DEF SameWaits, SameResumes, At

LEMMA IdleTimerPrompts ==
  ASSUME PageInv, IdleTimer, voice.continuous, voice.listening, ~ voice.replying
  PROVE  PageInv'
  <1> DEFINE Prompting == {"idle", "stage", "endpoint", "listening", "replying", "controller"}
  <1>1. PICK kind :
          /\ kind \in {"check_in", "farewell"} /\ voice.idle /\ UNCHANGED <<sockets, hearing, used>>
          /\ past' = [past EXCEPT !.lost = Lost("silence")]
          /\ tasks' = Append(tasks, NewTask(kind, "asked", TRUE))
          /\ voice' = [voice EXCEPT !.idle = FALSE, !.stage = 1, !.endpoint = "none", !.listening = FALSE,
                                    !.replying = TRUE, !.controller = Next1]
    BY DEF IdleTimer
  <1>2. PICK new : new = Next1
    OBVIOUS
  <1>3. /\ Formed(voice') /\ Changes(Prompting) /\ voice'.idle = FALSE /\ voice'.stage = 1
        /\ voice'.endpoint = "none" /\ voice'.listening = FALSE /\ voice'.replying = TRUE
        /\ voice'.controller = new
    BY <1>1, <1>2 DEF PageInv, Typed, Formed, Changes
  <1>4. /\ Typed'
        /\ DOMAIN tasks' = DOMAIN tasks \cup {new} /\ new \notin DOMAIN tasks /\ new # 0
        /\ \A u \in DOMAIN tasks : u # new /\ tasks'[u] = tasks[u]
        /\ tasks'[new].kind = kind /\ tasks'[new].at = "asked" /\ tasks'[new].aborted = FALSE
    <2>1. PICK stage : stage = "asked" /\ Starts(tasks, kind, stage, TRUE)
      BY <1>1 DEF PageInv, Typed, Starts, Kinds, Stages
    <2>2. voice'.controller \in 0 .. Len(tasks) + 1
      BY <1>2, <1>3, Shape DEF PageInv, Next1
    <2>3. voice'.stage \in 0 .. 1 /\ voice'.endpoint \in Word
      BY <1>3 DEF Word
    <2>4. Fit(Prompting, Len(tasks) + 1, Len(sockets))
      BY <1>3, <2>2, <2>3 DEF Fit
    <2>5. sockets' = sockets /\ hearing' = hearing /\ Formed(voice') /\ Changes(Prompting) /\ Typed
      BY <1>1, <1>3 DEF PageInv
    <2> HIDE DEF Prompting
    <2>6. /\ Typed'
          /\ DOMAIN tasks' = DOMAIN tasks \cup {Next1} /\ Next1 \notin DOMAIN tasks /\ Next1 # 0
          /\ \A u \in DOMAIN tasks : u # Next1 /\ tasks'[u] = tasks[u]
          /\ tasks'[Next1].kind = kind /\ tasks'[Next1].at = stage /\ tasks'[Next1].aborted = FALSE
      BY <2>1, <2>4, <2>5, TypedBegins
    <2> QED BY <1>2, <2>1, <2>6
  <1>5. Counted' /\ past' = past
    <2>1. Lost("silence") = past.lost
      BY <1>1 DEF Lost, PageInv, Flags
    <2>2. past' = past
      BY <1>1, <2>1 DEF PageInv, Counted
    <2> QED BY <1>1, <2>2 DEF PageInv, Counted
  <1>6. Flags'
    BY <1>3 DEF PageInv, Flags, Changes
  <1>7. TasksOK'
    <2>1. ASSUME NEW u \in DOMAIN tasks
          PROVE  /\ tasks'[u].aborted /\ ~ At(u, "done")' =>
                      At(u, "asked")' \/ At(u, "playing")' \/ (Greeting(u)' /\ ToListen(u)')
                 /\ Greeting(u)' => voice'.page = "test"
                 /\ At(u, "starting")' => Greeting(u)'
                 /\ At(u, "done")' => ~ Greeting(u)'
                 /\ At(u, "microphone")' /\ tasks'[u].kind = "listen" => voice'.page = "pilot"
                 /\ At(u, "resuming")' => At(u, "resuming")
      BY <1>3, <1>4 DEF PageInv, TasksOK, At, Greeting, ToListen, Changes
    <2>2. /\ ~ Greeting(new)' /\ At(new, "asked")' /\ ~ tasks'[new].aborted
          /\ ~ At(new, "starting")' /\ ~ At(new, "done")' /\ ~ At(new, "microphone")' /\ ~ At(new, "resuming")'
      BY <1>1, <1>4 DEF At, Greeting
    <2>3. voice'.continuous
      BY <1>3 DEF Changes
    <2>4. \A u, w \in DOMAIN tasks : At(u, "resuming") /\ At(w, "resuming") => u = w
      BY DEF PageInv, TasksOK
    <2> QED BY <1>3, <1>4, <2>1, <2>2, <2>3, <2>4 DEF TasksOK
  <1>8. SameWaits /\ SameResumes
    BY <1>4, NewNoListener DEF At
  <1>9. SocketsOK' /\ EndpointOK'
    BY <1>1, <1>3, <1>8, Undisturbed DEF PageInv, Changes
  <1>10. ASSUME Orderly
         PROVE  OrderlyOK'
    <2>1. Current = {}
      BY <1>1, <1>10 DEF PageInv, OrderlyOK, Silence
    <2>2. \A u : u \in Current' <=> u = new
      BY <1>4, <2>1 DEF Current, At
    <2>3. voice'.playing = 0 /\ ~ voice'.armed /\ ~ voice'.barge
      BY <1>3, <1>10, <2>1 DEF PageInv, OrderlyOK, Kept, Changes
    <2>4. \A u \in DOMAIN tasks : ~ (Greeting(u) /\ tasks[u].aborted /\ ~ At(u, "done"))
      BY <1>10 DEF PageInv, OrderlyOK, OneCurrent
    <2>5. OneCurrent'
      <3>1. \A u \in DOMAIN tasks' : Greeting(u)' => u \in DOMAIN tasks /\ Greeting(u)
        BY <1>1, <1>4 DEF Greeting
      <3>2. \A u, w \in DOMAIN tasks : Greeting(u) /\ Greeting(w) => u = w
        BY <1>10 DEF PageInv, OrderlyOK, OneCurrent
      <3>3. \A u \in DOMAIN tasks' : ~ (Greeting(u)' /\ tasks'[u].aborted /\ ~ At(u, "done")')
        BY <1>4, <2>4, <3>1 DEF At
      <3> QED BY <2>2, <3>1, <3>2, <3>3 DEF OneCurrent
    <2>6. Kept'
      BY <1>3, <1>4, <2>2, <2>3 DEF Kept, Replying, At
    <2>7. Silence'
      BY <1>3 DEF Silence
    <2>8. Waited'
      <3>1. sockets' = sockets /\ voice'.socket = voice.socket
        BY <1>1, <1>3 DEF Changes
      <3> QED BY <1>8, <1>10, <3>1 DEF PageInv, OrderlyOK, Waited, SameWaits, Pending
    <2>9. SilenceIsNoticed' /\ StaleWordsNeedBargeIn'
      BY <1>3 DEF SilenceIsNoticed, StaleWordsNeedBargeIn
    <2> QED BY <2>5, <2>6, <2>7, <2>8, <2>9 DEF OrderlyOK
  <1>11. Orderly' => OrderlyOK'
    BY <1>5, <1>10 DEF Orderly
  <1> QED BY <1>4, <1>5, <1>6, <1>7, <1>9, <1>11 DEF PageInv

\* In an orderly session the timer never finds the page in another state.
LEMMA IdleTimerIsLate ==
  ASSUME PageInv, IdleTimer, ~ (voice.continuous /\ voice.listening /\ ~ voice.replying)
  PROVE  PageInv'
  <1>1. /\ voice.idle /\ UNCHANGED <<tasks, sockets, hearing, used, past>>
        /\ voice' = [voice EXCEPT !.idle = FALSE]
    BY DEF IdleTimer
  <1>2. Formed(voice') /\ Changes({"idle"}) /\ voice'.idle = FALSE
    BY <1>1 DEF PageInv, Typed, Formed, Changes
  <1>3. Typed' /\ SameWaits /\ SameResumes
    <2>1. Fit({"idle"}, Len(tasks), Len(sockets))
      BY <1>2 DEF Fit
    <2>2. sockets' = sockets /\ tasks' = tasks /\ hearing' \in BOOLEAN
      BY <1>1 DEF PageInv, Typed
    <2> QED BY <1>2, <2>1, <2>2, TypedPage DEF PageInv
  <1>4. Counted' /\ Flags' /\ TasksOK'
    <2>1. Counted'
      BY <1>1 DEF PageInv, Counted
    <2>2. Flags'
      BY <1>2 DEF PageInv, Flags, Changes
    <2>3. TasksOK'
      BY <1>1, <1>2 DEF PageInv, TasksOK, Changes, At, Greeting, ToListen
    <2> QED BY <2>1, <2>2, <2>3
  <1>5. SocketsOK' /\ EndpointOK'
    BY <1>1, <1>2, <1>3, Undisturbed DEF PageInv, Changes
  <1>6. ~ Orderly'
    BY <1>1 DEF PageInv, OrderlyOK, Silence, Orderly
  <1> QED BY <1>3, <1>4, <1>5, <1>6 DEF PageInv

LEMMA IdleTimerKeeps ==
  ASSUME PageInv, IdleTimer
  PROVE  PageInv'
  BY IdleTimerPrompts, IdleTimerIsLate


\* What waits to be submitted waits while the page listens, so in an orderly
\* session only a reply that is talked over can still be under way.
LEMMA OnlyTalkedOver ==
  ASSUME PageInv, Orderly, voice.endpoint # "none"
  PROVE  /\ voice.listening /\ voice.continuous
         /\ \A t \in Current : /\ At(t, "playing") /\ voice.barge /\ voice.replying
                               /\ t = voice.playing /\ t = voice.controller /\ t # 0
  <1>1. voice.listening /\ voice.continuous
    BY DEF PageInv, Flags
  <1>2. ASSUME NEW t \in Current
        PROVE  /\ At(t, "playing") /\ voice.barge /\ voice.replying
               /\ t = voice.playing /\ t = voice.controller /\ t # 0
    <2>1. At(t, "playing") /\ voice.barge
      BY <1>1, <1>2 DEF PageInv, OrderlyOK, Silence
    <2>2. t \in DOMAIN tasks /\ t # 0
      BY <1>2, Shape DEF Current, PageInv
    <2>3. Replying(t)
      BY <1>2, <2>1 DEF Current, Replying, At
    <2> QED BY <1>2, <2>1, <2>2, <2>3 DEF PageInv, OrderlyOK, Kept
  <1> QED BY <1>1, <1>2

\* A noise over a reply: the reply goes on, and may be interrupted again.
LEMMA NoiseOverReply ==
  ASSUME PageInv, EndpointTimer, voice.endpoint = "noise",
         voice.replying, voice.playing # 0, voice.barge
  PROVE  PageInv'
  <1> DEFINE Given == {"idle", "endpoint", "listening", "barge", "armed", "words"}
  <1>1. /\ UNCHANGED <<tasks, sockets, hearing, used, past>>
        /\ voice' = [voice EXCEPT !.idle = FALSE, !.endpoint = "none", !.listening = FALSE,
                                  !.barge = FALSE, !.armed = TRUE, !.words = "none"]
    <2>1. PICK v : v = [voice EXCEPT !.idle = FALSE, !.endpoint = "none", !.listening = FALSE]
      OBVIOUS
    <2>2. Ignored(v) /\ UNCHANGED <<sockets, hearing, used, past>>
      BY <2>1 DEF EndpointTimer
    <2>3. v.replying = voice.replying /\ v.playing = voice.playing /\ v.barge = voice.barge
      BY <2>1 DEF PageInv, Typed, Formed
    <2>4. voice' = [v EXCEPT !.barge = FALSE, !.armed = TRUE, !.words = "none"] /\ UNCHANGED tasks
      BY <2>2, <2>3 DEF Ignored
    <2> QED BY <2>1, <2>2, <2>4 DEF PageInv, Typed, Formed
  <1>2. /\ Formed(voice') /\ Changes(Given) /\ voice'.idle = FALSE /\ voice'.endpoint = "none"
        /\ voice'.listening = FALSE /\ voice'.barge = FALSE /\ voice'.armed = TRUE /\ voice'.words = "none"
    BY <1>1 DEF PageInv, Typed, Formed, Changes
  <1>3. Typed' /\ SameWaits /\ SameResumes
    <2>1. Fit(Given, Len(tasks), Len(sockets))
      BY <1>2 DEF Fit, Word
    <2>2. sockets' = sockets /\ tasks' = tasks /\ hearing' \in BOOLEAN
      BY <1>1 DEF PageInv, Typed
    <2> HIDE DEF Given
    <2> QED BY <1>2, <2>1, <2>2, TypedPage DEF PageInv
  <1>4. Counted'
    BY <1>1 DEF PageInv, Counted
  <1>5. Flags'
    BY <1>2 DEF PageInv, Flags, Changes
  <1>6. TasksOK'
    BY <1>1, <1>2 DEF PageInv, TasksOK, Changes, At, Greeting, ToListen
  <1>7. SocketsOK' /\ EndpointOK'
    BY <1>1, <1>2, <1>3, Undisturbed DEF PageInv, Changes
  <1>8. ASSUME Orderly
        PROVE  OrderlyOK'
    <2>1. Current' = Current
      BY <1>1 DEF Current, At
    <2>2. OneCurrent'
      BY <1>1, <1>2, <1>8, <2>1 DEF PageInv, OrderlyOK, OneCurrent, Changes, Greeting, At
    <2>3. Kept'
      <3>1. /\ voice'.playing = voice.playing /\ voice'.replying = voice.replying
            /\ voice'.controller = voice.controller /\ voice'.continuous = voice.continuous
        BY <1>2 DEF Changes
      <3> QED BY <1>1, <1>8, <2>1, <3>1 DEF PageInv, OrderlyOK, Kept, Replying, ToListen, At
    <2>4. Silence'
      BY <1>2 DEF Silence
    <2>5. Waited'
      BY <1>1, <1>2, <1>8 DEF PageInv, OrderlyOK, Waited, Changes, At
    <2>6. SilenceIsNoticed' /\ StaleWordsNeedBargeIn'
      BY <1>2 DEF SilenceIsNoticed, StaleWordsNeedBargeIn
    <2> QED BY <2>2, <2>3, <2>4, <2>5, <2>6 DEF OrderlyOK
  <1>9. Orderly' => OrderlyOK'
    BY <1>1, <1>8 DEF Orderly
  <1> QED BY <1>3, <1>4, <1>5, <1>6, <1>7, <1>9 DEF PageInv

\* A noise otherwise: the page listens again.
LEMMA NoiseListensAgain ==
  ASSUME PageInv, NoMicrotask, EndpointTimer, voice.endpoint = "noise",
         ~ (voice.replying /\ voice.playing # 0 /\ voice.barge)
  PROVE  PageInv'
  <1> DEFINE Given == {"idle", "endpoint", "listening", "words"}
  <1>1. /\ UNCHANGED <<sockets, hearing, used, past>> /\ voice.continuous
        /\ voice' = [voice EXCEPT !.idle = FALSE, !.endpoint = "none", !.listening = FALSE, !.words = "none"]
        /\ tasks' = Append(tasks, NewTask("listen", "resuming", TRUE))
    <2>1. PICK v : v = [voice EXCEPT !.idle = FALSE, !.endpoint = "none", !.listening = FALSE]
      OBVIOUS
    <2>2. Ignored(v) /\ UNCHANGED <<sockets, hearing, used, past>>
      BY <2>1 DEF EndpointTimer
    <2>3. /\ v.replying = voice.replying /\ v.playing = voice.playing /\ v.barge = voice.barge
          /\ v.continuous = voice.continuous
      BY <2>1 DEF PageInv, Typed, Formed
    <2>4. voice.continuous
      BY DEF PageInv, Flags
    <2>5. voice' = BeforeListening([v EXCEPT !.words = "none"])
          /\ tasks' = Append(tasks, NewTask("listen", "resuming", TRUE))
      BY <2>2, <2>3, <2>4 DEF Ignored
    <2> QED BY <2>1, <2>2, <2>4, <2>5 DEF BeforeListening, PageInv, Typed, Formed
  <1>2. PICK new : new = Next1
    OBVIOUS
  <1>3. /\ Formed(voice') /\ Changes(Given) /\ voice'.idle = FALSE /\ voice'.endpoint = "none"
        /\ voice'.listening = FALSE /\ voice'.words = "none"
    BY <1>1 DEF PageInv, Typed, Formed, Changes
  <1>4. /\ Typed'
        /\ DOMAIN tasks' = DOMAIN tasks \cup {new} /\ new \notin DOMAIN tasks /\ new # 0
        /\ \A u \in DOMAIN tasks : u # new /\ tasks'[u] = tasks[u]
        /\ tasks'[new].kind = "listen" /\ tasks'[new].at = "resuming" /\ tasks'[new].aborted = FALSE
    <2>1. PICK kind, stage : kind = "listen" /\ stage = "resuming" /\ Starts(tasks, kind, stage, TRUE)
      BY <1>1 DEF PageInv, Typed, Starts, Kinds, Stages
    <2>2. Fit(Given, Len(tasks) + 1, Len(sockets))
      BY <1>3 DEF Fit, Word
    <2>3. sockets' = sockets /\ hearing' = hearing /\ Formed(voice') /\ Changes(Given) /\ Typed
      BY <1>1, <1>3 DEF PageInv
    <2> HIDE DEF Given
    <2>4. /\ Typed'
          /\ DOMAIN tasks' = DOMAIN tasks \cup {Next1} /\ Next1 \notin DOMAIN tasks /\ Next1 # 0
          /\ \A u \in DOMAIN tasks : u # Next1 /\ tasks'[u] = tasks[u]
          /\ tasks'[Next1].kind = kind /\ tasks'[Next1].at = stage /\ tasks'[Next1].aborted = FALSE
      BY <2>1, <2>2, <2>3, TypedBegins
    <2> QED BY <1>2, <2>1, <2>4
  <1>5. Counted'
    BY <1>1 DEF PageInv, Counted
  <1>6. Flags'
    BY <1>3 DEF PageInv, Flags, Changes
  <1>7. \A u \in DOMAIN tasks : ~ At(u, "resuming")
    BY DEF NoMicrotask, Settled
  <1>8. voice'.controller = voice.controller /\ voice'.page = voice.page /\ voice.controller # new
    <2>1. PICK k \in Nat : k = Len(tasks) /\ new = k + 1
      BY <1>2, Shape DEF PageInv, Next1
    <2>2. voice.controller \in 0 .. k
      BY <2>1 DEF PageInv, Typed, Fields
    <2> QED BY <1>3, <2>1, <2>2 DEF Changes
  <1>9. TasksOK'
    <2>1. ASSUME NEW u \in DOMAIN tasks
          PROVE  /\ (u = voice'.controller \/ tasks'[u].aborted) /\ ~ At(u, "done")' =>
                      At(u, "asked")' \/ At(u, "playing")' \/ (Greeting(u)' /\ ToListen(u)')
                 /\ voice'.page = "test" /\ tasks'[u].aborted /\ ~ At(u, "done")' => voice'.controller # u
                 /\ Greeting(u)' => voice'.page = "test"
                 /\ At(u, "starting")' => Greeting(u)'
                 /\ At(u, "done")' => ~ Greeting(u)'
                 /\ At(u, "microphone")' /\ tasks'[u].kind = "listen" => voice'.page = "pilot"
                 /\ ~ At(u, "resuming")'
      BY <1>4, <1>7, <1>8 DEF PageInv, TasksOK, At, Greeting, ToListen
    <2>2. /\ new # voice'.controller /\ ~ tasks'[new].aborted
          /\ ~ Greeting(new)' /\ ~ At(new, "starting")' /\ ~ At(new, "done")' /\ ~ At(new, "microphone")'
      BY <1>4, <1>8 DEF At, Greeting
    <2>3. voice'.continuous
      BY <1>1, <1>3 DEF Changes
    <2> QED BY <1>4, <2>1, <2>2, <2>3 DEF TasksOK
  <1>10. SameWaits /\ SameResumes
    BY <1>3, <1>4 DEF SameWaits, SameResumes, At
  <1>11. SocketsOK' /\ EndpointOK'
    BY <1>1, <1>3, <1>10, Undisturbed DEF PageInv, Changes
  <1>12. ASSUME Orderly
         PROVE  OrderlyOK'
    <2>1. Current = {}
      BY <1>12, OnlyTalkedOver
    <2>2. \A u : u \in Current' <=> u = new
      BY <1>4, <2>1 DEF Current, At
    <2>3. voice'.playing = 0 /\ ~ voice'.armed /\ ~ voice'.barge /\ ~ voice'.replying
      BY <1>3, <1>12, <2>1 DEF PageInv, OrderlyOK, Kept, Changes
    <2>4. OneCurrent'
      <3>1. \A u \in DOMAIN tasks' : Greeting(u)' => u \in DOMAIN tasks /\ Greeting(u)
        BY <1>4 DEF Greeting
      <3>2. \A u, w \in DOMAIN tasks : Greeting(u) /\ Greeting(w) => u = w
        BY <1>12 DEF PageInv, OrderlyOK, OneCurrent
      <3>3. \A u \in DOMAIN tasks' : ~ (Greeting(u)' /\ tasks'[u].aborted /\ ~ At(u, "done")')
        <4>1. \A u \in DOMAIN tasks : ~ (Greeting(u) /\ tasks[u].aborted /\ ~ At(u, "done"))
          BY <1>1, <1>12 DEF PageInv, OrderlyOK, OneCurrent
        <4>2. \A u \in DOMAIN tasks : tasks'[u] = tasks[u]
          BY <1>4
        <4> QED BY <3>1, <4>1, <4>2 DEF At
      <3> QED BY <2>2, <3>1, <3>2, <3>3 DEF OneCurrent
    <2>5. Kept'
      BY <1>4, <2>2, <2>3 DEF Kept, Replying, At
    <2>6. Silence'
      BY <1>3 DEF Silence
    <2>7. Waited'
      <3>1. sockets' = sockets /\ voice'.socket = voice.socket
        BY <1>1, <1>3 DEF Changes
      <3> QED BY <1>10, <1>12, <3>1 DEF PageInv, OrderlyOK, Waited, SameWaits, Pending
    <2>8. SilenceIsNoticed' /\ StaleWordsNeedBargeIn'
      BY <1>3 DEF SilenceIsNoticed, StaleWordsNeedBargeIn
    <2> QED BY <2>4, <2>5, <2>6, <2>7, <2>8 DEF OrderlyOK
  <1>13. Orderly' => OrderlyOK'
    BY <1>1, <1>12 DEF Orderly
  <1> QED BY <1>4, <1>5, <1>6, <1>9, <1>11, <1>13 DEF PageInv


\* The question is submitted, and the reply it talks over is stopped.
LEMMA QuestionSubmitted ==
  ASSUME PageInv, EndpointTimer, voice.endpoint # "noise"
  PROVE  PageInv'
  <1> DEFINE Given == {"idle", "endpoint", "listening", "words", "playing", "barge", "stage",
                       "replying", "controller"}
  <1>1. PICK commits, new, ts :
          /\ commits = (voice.barge /\ voice.playing # 0) /\ new = Next1
          /\ ts = IF commits THEN Abort(tasks) ELSE tasks
    OBVIOUS
  <1>2. /\ UNCHANGED <<sockets, hearing, used, past>> /\ voice.endpoint # "none"
        /\ voice' = [voice EXCEPT !.idle = FALSE, !.endpoint = "none", !.listening = FALSE, !.words = "stale",
                                  !.playing = IF commits THEN 0 ELSE voice.playing,
                                  !.barge = voice.barge /\ ~ commits,
                                  !.stage = 0, !.replying = TRUE, !.controller = new]
        /\ tasks' = Append(ts, NewTask("turn", "asked", FALSE))
    <2>1. PICK v : v = [voice EXCEPT !.idle = FALSE, !.endpoint = "none", !.listening = FALSE,
                                     !.words = "stale"]
      OBVIOUS
    <2>2. [[voice EXCEPT !.idle = FALSE, !.endpoint = "none", !.listening = FALSE] EXCEPT !.words = "stale"] = v
      BY <2>1 DEF PageInv, Typed, Formed
    <2>3. Submitted(v) /\ UNCHANGED <<sockets, hearing, used, past>> /\ voice.endpoint # "none"
      BY <2>2 DEF EndpointTimer
    <2>4. v.playing = voice.playing /\ v.barge = voice.barge
      BY <2>1 DEF PageInv, Typed, Formed
    <2>5. /\ voice' = [v EXCEPT !.playing = IF commits THEN 0 ELSE v.playing, !.barge = v.barge /\ ~ commits,
                                !.stage = 0, !.replying = TRUE, !.controller = new]
          /\ tasks' = Append(ts, NewTask("turn", "asked", FALSE))
      BY <1>1, <2>3, <2>4 DEF Submitted
    <2>6. PICK playing, barge : /\ playing = IF commits THEN 0 ELSE voice.playing
                                /\ barge = (voice.barge /\ ~ commits)
      OBVIOUS
    <2>7. voice' = [v EXCEPT !.playing = playing, !.barge = barge,
                             !.stage = 0, !.replying = TRUE, !.controller = new]
      BY <2>4, <2>5, <2>6
    <2>8. voice' = [voice EXCEPT !.idle = FALSE, !.endpoint = "none", !.listening = FALSE, !.words = "stale",
                                 !.playing = playing, !.barge = barge,
                                 !.stage = 0, !.replying = TRUE, !.controller = new]
      BY <2>1, <2>7 DEF PageInv, Typed, Formed
    <2> QED BY <2>3, <2>5, <2>6, <2>8
  <1>3. /\ Formed(voice') /\ Changes(Given) /\ voice'.idle = FALSE /\ voice'.endpoint = "none"
        /\ voice'.listening = FALSE /\ voice'.words = "stale"
        /\ voice'.playing = (IF commits THEN 0 ELSE voice.playing)
        /\ voice'.barge = (voice.barge /\ ~ commits)
        /\ voice'.stage = 0 /\ voice'.replying = TRUE /\ voice'.controller = new
    BY <1>2 DEF PageInv, Typed, Formed, Changes
  <1>4. /\ ts \in Seq(Task(Len(sockets))) /\ Len(ts) = Len(tasks) /\ DOMAIN ts = DOMAIN tasks
        /\ \A u \in DOMAIN tasks :
             /\ ts[u].kind = tasks[u].kind /\ ts[u].at = tasks[u].at /\ ts[u].awaits = tasks[u].awaits
             /\ ts[u].aborted <=> (tasks[u].aborted \/ (commits /\ u = voice.controller))
    <2>1. CASE commits
      <3>1. PICK n : n \in Nat /\ n = Len(sockets)
        BY Shape DEF PageInv
      <3>2. tasks \in Seq(Task(n)) /\ n \in Nat
        BY <3>1 DEF PageInv, Typed
      <3>3. Aborts(tasks, Abort(tasks)) /\ Abort(tasks) \in Seq(Task(n))
        BY <3>2, Aborting
      <3> QED BY <1>1, <2>1, <3>1, <3>3 DEF Aborts
    <2>2. CASE ~ commits
      BY <1>1, <2>2 DEF PageInv, Typed
    <2> QED BY <2>1, <2>2
  <1>5. /\ Typed'
        /\ DOMAIN tasks' = DOMAIN tasks \cup {new} /\ new \notin DOMAIN tasks /\ new # 0
        /\ \A u \in DOMAIN tasks : u # new /\ tasks'[u] = ts[u]
        /\ tasks'[new].kind = "turn" /\ tasks'[new].at = "asked" /\ tasks'[new].aborted = FALSE
    <2>1. PICK kind, stage : kind = "turn" /\ stage = "asked" /\ Starts(ts, kind, stage, FALSE)
      BY <1>2, <1>4 DEF Starts, Kinds, Stages
    <2>2. voice'.controller \in 0 .. Len(tasks) + 1
      BY <1>1, <1>3, Shape DEF PageInv, Next1
    <2>3. voice'.playing \in 0 .. Len(tasks) + 1
      <3>1. PICK k : k \in Nat /\ k = Len(tasks)
        BY Shape DEF PageInv
      <3>2. voice.playing \in 0 .. k
        BY <3>1 DEF PageInv, Typed, Fields
      <3>3. voice'.playing \in {0, voice.playing}
        BY <1>3
      <3> QED BY <3>1, <3>2, <3>3
    <2>4. voice'.stage \in 0 .. 1 /\ voice'.endpoint \in Word /\ voice'.words \in Word
      BY <1>3 DEF Word
    <2>5. voice'.barge \in BOOLEAN /\ voice'.idle \in BOOLEAN /\ voice'.listening \in BOOLEAN
          /\ voice'.replying \in BOOLEAN
      BY <1>3
    <2>6. Fit(Given, Len(tasks) + 1, Len(sockets))
      BY <2>2, <2>3, <2>4, <2>5 DEF Fit
    <2>7. sockets' = sockets /\ hearing' = hearing /\ Formed(voice') /\ Changes(Given) /\ Typed
      BY <1>2, <1>3 DEF PageInv
    <2> HIDE DEF Given
    <2>8. /\ Typed'
          /\ DOMAIN tasks' = DOMAIN tasks \cup {Next1} /\ Next1 \notin DOMAIN tasks /\ Next1 # 0
          /\ \A u \in DOMAIN tasks : u # Next1 /\ tasks'[u] = ts[u]
          /\ tasks'[Next1].kind = kind /\ tasks'[Next1].at = stage /\ tasks'[Next1].aborted = FALSE
      BY <2>1, <2>6, <2>7, TypedBegins
    <2> QED BY <1>1, <2>1, <2>8
  <1>6. \A u \in DOMAIN tasks :
          /\ tasks'[u].kind = tasks[u].kind /\ tasks'[u].at = tasks[u].at /\ tasks'[u].awaits = tasks[u].awaits
          /\ tasks'[u].aborted <=> (tasks[u].aborted \/ (commits /\ u = voice.controller))
    BY <1>4, <1>5
  <1>7. Counted'
    BY <1>2 DEF PageInv, Counted
  <1>8. voice.listening /\ voice.continuous
    BY <1>2 DEF PageInv, Flags
  <1>9. Flags'
    BY <1>3, <1>8 DEF PageInv, Flags, Changes
  <1>10. TasksOK'
    <2>1. ASSUME NEW u \in DOMAIN tasks
          PROVE  /\ tasks'[u].aborted /\ ~ At(u, "done")' =>
                      At(u, "asked")' \/ At(u, "playing")' \/ (Greeting(u)' /\ ToListen(u)')
                 /\ Greeting(u)' => voice'.page = "test"
                 /\ At(u, "starting")' => Greeting(u)'
                 /\ At(u, "done")' => ~ Greeting(u)'
                 /\ At(u, "microphone")' /\ tasks'[u].kind = "listen" => voice'.page = "pilot"
                 /\ At(u, "resuming")' => At(u, "resuming")
      <3>1. /\ (u = voice.controller \/ tasks[u].aborted) /\ ~ At(u, "done") =>
                  At(u, "asked") \/ At(u, "playing") \/ (Greeting(u) /\ ToListen(u))
            /\ Greeting(u) => voice.page = "test"
            /\ At(u, "starting") => Greeting(u)
            /\ At(u, "done") => ~ Greeting(u)
            /\ At(u, "microphone") /\ tasks[u].kind = "listen" => voice.page = "pilot"
        BY DEF PageInv, TasksOK
      <3>2. /\ tasks'[u].kind = tasks[u].kind /\ tasks'[u].at = tasks[u].at
            /\ tasks'[u].aborted => (u = voice.controller \/ tasks[u].aborted)
        BY <1>6
      <3>3. voice'.page = voice.page
        BY <1>3 DEF Changes
      <3> QED BY <3>1, <3>2, <3>3 DEF At, Greeting, ToListen
    <2>2. /\ ~ Greeting(new)' /\ At(new, "asked")' /\ ~ tasks'[new].aborted
          /\ ~ At(new, "starting")' /\ ~ At(new, "done")' /\ ~ At(new, "microphone")' /\ ~ At(new, "resuming")'
      BY <1>5 DEF At, Greeting
    <2>3. voice'.continuous
      BY <1>3, <1>8 DEF Changes
    <2>4. \A u, w \in DOMAIN tasks : At(u, "resuming") /\ At(w, "resuming") => u = w
      BY DEF PageInv, TasksOK
    <2> QED BY <1>3, <1>5, <2>1, <2>2, <2>3, <2>4 DEF TasksOK
  <1>11. SameWaits /\ SameResumes
    BY <1>5, <1>6, NewNoListener DEF At
  <1>12. SocketsOK' /\ EndpointOK'
    BY <1>2, <1>3, <1>11, Undisturbed DEF PageInv, Changes
  <1>13. ASSUME Orderly
         PROVE  OrderlyOK'
    <2>1. \A t \in Current : /\ At(t, "playing") /\ voice.barge /\ voice.replying
                             /\ t = voice.playing /\ t = voice.controller /\ t # 0
      BY <1>2, <1>13, OnlyTalkedOver
    <2>2. \A u : u \in Current' <=> u = new
      <3>1. ASSUME NEW u \in DOMAIN tasks, u \in Current'
            PROVE  FALSE
        <4>1. u \in Current /\ ~ (commits /\ u = voice.controller)
          BY <1>6, <3>1 DEF Current, At
        <4> QED BY <1>1, <2>1, <4>1
      <3> QED BY <1>5, <3>1 DEF Current, At
    <2>3. voice'.playing = 0 /\ ~ voice'.armed /\ ~ voice'.barge
      <3>1. voice.playing # 0 => voice.playing \in Current
        BY <1>13 DEF PageInv, OrderlyOK, Kept
      <3>2. voice.armed \/ voice.barge => \E t \in Current : TRUE
        BY <1>13 DEF PageInv, OrderlyOK, Kept
      <3>3. ~ (voice.armed /\ voice.barge)
        BY DEF PageInv, Flags
      <3>4. voice'.armed = voice.armed
        BY <1>3 DEF Changes
      <3> QED BY <1>1, <1>3, <2>1, <3>1, <3>2, <3>3, <3>4
    <2>4. ASSUME NEW u \in DOMAIN tasks, Greeting(u), tasks'[u].aborted, ~ At(u, "done")
          PROVE  FALSE
      <3>1. ~ tasks[u].aborted
        BY <1>8, <1>13, <2>4 DEF PageInv, OrderlyOK, OneCurrent
      <3>2. u \in Current
        BY <2>4, <3>1 DEF Current
      <3>3. At(u, "playing") /\ voice.barge
        BY <2>1, <3>2
      <3>4. PICK t \in Current : (At(t, "playing") /\ tasks[t].kind = "turn") \/ ToListen(t)
        BY <1>13, <3>3 DEF PageInv, OrderlyOK, Kept
      <3>5. t = u
        BY <1>13, <3>2, <3>4 DEF PageInv, OrderlyOK, OneCurrent
      <3> QED BY <2>4, <3>3, <3>4, <3>5 DEF Greeting, ToListen, At
    <2>5. OneCurrent'
      <3>1. \A u \in DOMAIN tasks' : Greeting(u)' => u \in DOMAIN tasks /\ Greeting(u)
        BY <1>5, <1>6 DEF Greeting
      <3>2. \A u, w \in DOMAIN tasks : Greeting(u) /\ Greeting(w) => u = w
        BY <1>13 DEF PageInv, OrderlyOK, OneCurrent
      <3>3. \A u \in DOMAIN tasks' : ~ (Greeting(u)' /\ tasks'[u].aborted /\ ~ At(u, "done")')
        BY <1>6, <2>4, <3>1 DEF At
      <3> QED BY <2>2, <3>1, <3>2, <3>3 DEF OneCurrent
    <2>6. Kept'
      BY <1>3, <1>5, <2>2, <2>3 DEF Kept, Replying, At
    <2>7. Silence'
      BY <1>3 DEF Silence
    <2>8. Waited'
      <3>1. sockets' = sockets /\ voice'.socket = voice.socket
        BY <1>2, <1>3 DEF Changes
      <3> QED BY <1>11, <1>13, <3>1 DEF PageInv, OrderlyOK, Waited, SameWaits, Pending
    <2>9. SilenceIsNoticed' /\ StaleWordsNeedBargeIn'
      BY <1>3 DEF SilenceIsNoticed, StaleWordsNeedBargeIn
    <2> QED BY <2>5, <2>6, <2>7, <2>8, <2>9 DEF OrderlyOK
  <1>14. Orderly' => OrderlyOK'
    BY <1>2, <1>13 DEF Orderly
  <1> QED BY <1>5, <1>7, <1>9, <1>10, <1>12, <1>14 DEF PageInv

LEMMA EndpointTimerKeeps ==
  ASSUME PageInv, NoMicrotask, EndpointTimer
  PROVE  PageInv'
  BY NoiseOverReply, NoiseListensAgain, QuestionSubmitted


-----------------------------------------------------------------------------
(* The session *)

LEMMA InitPage ==
  ASSUME Init
  PROVE  PageInv
  <1>1. PICK page \in Pages :
          voice = [page |-> page, busy |-> FALSE, microphone |-> FALSE, continuous |-> FALSE,
                   listening |-> FALSE, replying |-> FALSE, idle |-> FALSE, stage |-> 0,
                   controller |-> 0, playing |-> 0, armed |-> FALSE, barge |-> FALSE,
                   endpoint |-> "none", words |-> "none", socket |-> 0, promise |-> 0, ready |-> FALSE]
    BY DEF Init
  <1>2. /\ tasks = <<>> /\ sockets = <<>> /\ hearing = FALSE
        /\ used = [calls |-> 0, speech |-> 0, clicks |-> 0]
        /\ past = [lost |-> {}, leftover |-> FALSE, unwatched |-> FALSE]
    BY DEF Init
  <1>3. /\ Formed(voice) /\ voice.page \in Pages /\ voice.busy = FALSE /\ voice.microphone = FALSE
        /\ voice.continuous = FALSE /\ voice.listening = FALSE /\ voice.replying = FALSE /\ voice.idle = FALSE
        /\ voice.stage = 0 /\ voice.controller = 0 /\ voice.playing = 0 /\ voice.armed = FALSE
        /\ voice.barge = FALSE /\ voice.endpoint = "none" /\ voice.words = "none" /\ voice.socket = 0
        /\ voice.promise = 0 /\ voice.ready = FALSE
    BY <1>1 DEF Formed
  <1>4. Len(tasks) = 0 /\ DOMAIN tasks = {} /\ Len(sockets) = 0 /\ DOMAIN sockets = {}
    BY <1>2
  <1>5. Typed
    <2>1. tasks \in Seq(Task(Len(sockets))) /\ sockets \in Seq(Socket)
      BY <1>2
    <2>2. /\ voice.stage \in 0 .. 1 /\ voice.controller \in 0 .. 0 /\ voice.playing \in 0 .. 0
          /\ voice.socket \in 0 .. 0 /\ voice.promise \in 0 .. 0
      BY <1>3
    <2>3. /\ voice.page \in Pages /\ voice.busy \in BOOLEAN /\ voice.microphone \in BOOLEAN
          /\ voice.continuous \in BOOLEAN /\ voice.listening \in BOOLEAN /\ voice.replying \in BOOLEAN
          /\ voice.idle \in BOOLEAN /\ voice.armed \in BOOLEAN /\ voice.barge \in BOOLEAN
          /\ voice.endpoint \in Word /\ voice.words \in Word /\ voice.ready \in BOOLEAN
      BY <1>3 DEF Word
    <2>4. Fields(voice, 0, 0)
      BY <2>2, <2>3 DEF Fields
    <2> QED BY <1>2, <1>3, <1>4, <2>1, <2>4 DEF Typed
  <1>6. Counted
    BY <1>2, PagesAssumption DEF Counted
  <1>7. Flags
    BY <1>3 DEF Flags
  <1>8. TasksOK /\ EndpointOK
    BY <1>4 DEF TasksOK, EndpointOK
  <1>9. SocketsOK
    BY <1>2, <1>3, <1>4 DEF SocketsOK
  <1>10. OrderlyOK
    <2>1. Current = {}
      BY <1>4 DEF Current
    <2> QED BY <1>3, <1>4, <2>1
            DEF OrderlyOK, OneCurrent, Kept, Silence, Waited, SilenceIsNoticed, StaleWordsNeedBargeIn
  <1> QED BY <1>5, <1>6, <1>7, <1>8, <1>9, <1>10 DEF PageInv

LEMMA StutterKeepsPage ==
  ASSUME PageInv, UNCHANGED vars
  PROVE  PageInv'
  <1>1. /\ voice' = voice /\ tasks' = tasks /\ sockets' = sockets /\ hearing' = hearing
        /\ used' = used /\ past' = past
    BY DEF vars
  <1>2. Typed' /\ Counted' /\ Flags' /\ TasksOK'
    <2>1. Typed'
      BY <1>1 DEF PageInv, Typed
    <2>2. Counted'
      BY <1>1 DEF PageInv, Counted
    <2>3. Flags'
      BY <1>1 DEF PageInv, Flags
    <2>4. TasksOK'
      BY <1>1 DEF PageInv, TasksOK, At, Greeting, ToListen
    <2> QED BY <2>1, <2>2, <2>3, <2>4
  <1>3. SameWaits /\ SameResumes
    BY <1>1 DEF SameWaits, SameResumes, At
  <1>4. SocketsOK' /\ EndpointOK'
    BY <1>1, <1>3, Undisturbed DEF PageInv
  <1>5. Current' = Current /\ Orderly' = Orderly /\ Resuming' = Resuming
    BY <1>1 DEF Current, Orderly, Resuming, At
  <1>6. Orderly => OneCurrent' /\ Kept' /\ Silence'
    BY <1>1, <1>5 DEF PageInv, OrderlyOK, OneCurrent, Kept, Silence, Greeting, Replying, ToListen, At
  <1>7. Orderly => Waited' /\ SilenceIsNoticed' /\ StaleWordsNeedBargeIn'
    BY <1>1, <1>5 DEF PageInv, OrderlyOK, Waited, SilenceIsNoticed, StaleWordsNeedBargeIn, At
  <1> QED BY <1>2, <1>4, <1>5, <1>6, <1>7 DEF PageInv, OrderlyOK

LEMMA MicrotaskKeeps ==
  ASSUME PageInv, Microtask
  PROVE  PageInv'
  <1>1. PICK t \in DOMAIN tasks :
          /\ Settled(t)
          /\ MicrophoneReady(t) \/ EnsureRecogniser(t) \/ Listens(t) \/ ListenFails(t) \/ Unwinds(t)
    BY DEF Microtask
  <1>2. CASE MicrophoneReady(t)
    <2>1. ~ At(t, "microphone")
      BY <1>1 DEF Settled, At
    <2> QED BY <1>2, <2>1, MicrophoneReadyKeeps
  <1>3. CASE EnsureRecogniser(t)
    BY <1>3, EnsureRecogniserKeeps
  <1>4. CASE Listens(t)
    BY <1>4, ListensKeeps
  <1>5. CASE ListenFails(t)
    BY <1>5, ListenFailsKeeps
  <1>6. CASE Unwinds(t)
    BY <1>6, UnwindsKeeps
  <1> QED BY <1>1, <1>2, <1>3, <1>4, <1>5, <1>6

LEMMA ProceedsKeeps ==
  ASSUME PageInv, NoMicrotask, Proceeds
  PROVE  PageInv'
  <1>1. CASE \E t \in DOMAIN tasks :
               MicrophoneReady(t) \/ Plays(t) \/ ReplyEnds(t) \/ ReplyEndsCall(t) \/ Unwinds(t)
    <2>1. PICK t \in DOMAIN tasks :
            MicrophoneReady(t) \/ Plays(t) \/ ReplyEnds(t) \/ ReplyEndsCall(t) \/ Unwinds(t)
      BY <1>1
    <2>2. CASE MicrophoneReady(t)
      BY <2>2, MicrophoneReadyKeeps
    <2>3. CASE Plays(t)
      BY <2>3, PlaysKeeps
    <2>4. CASE ReplyEnds(t)
      BY <2>4, ReplyEndsKeeps
    <2>5. CASE ReplyEndsCall(t)
      BY <2>5, ReplyEndsCallKeeps
    <2>6. CASE Unwinds(t)
      BY <2>6, UnwindsKeeps
    <2> QED BY <2>1, <2>2, <2>3, <2>4, <2>5, <2>6
  <1>2. CASE \E s \in DOMAIN sockets : SocketOpens(s) \/ RecogniserReady(s)
    BY <1>2, SocketOpensKeeps, RecogniserReadyKeeps
  <1>3. CASE EndpointTimer
    BY <1>3, EndpointTimerKeeps
  <1>4. CASE IdleTimer
    BY <1>4, IdleTimerKeeps
  <1> QED BY <1>1, <1>2, <1>3, <1>4 DEF Proceeds

LEMMA NextKeepsPage ==
  ASSUME PageInv, [Next]_vars
  PROVE  PageInv'
  <1>1. CASE Microtask
    BY <1>1, MicrotaskKeeps
  <1>2. CASE NoMicrotask /\ Clicks
    BY <1>2, StartCallKeeps, HangUpKeeps, InterruptKeeps DEF Clicks
  <1>3. CASE NoMicrotask /\ Proceeds
    BY <1>3, ProceedsKeeps
  <1>4. CASE NoMicrotask /\ Answers
    BY <1>4, NoiseKeeps, UtteranceEndsKeeps DEF Answers
  <1>5. CASE NoMicrotask /\ (Speaks \/ BargeIn)
    BY <1>5, SpeaksKeeps, BargeInKeeps
  <1>6. CASE NoMicrotask /\ Fails
    <2>1. CASE \E t \in DOMAIN tasks : MicrophoneFails(t) \/ FarewellWasOver(t)
      BY <1>6, <2>1, MicrophoneFailsKeeps, FarewellWasOverKeeps
    <2>2. CASE \E s \in DOMAIN sockets : SocketCloses(s)
      BY <1>6, <2>2, SocketClosesKeeps
    <2>3. CASE RecogniserFails
      BY <1>6, <2>3, RecogniserFailsKeeps
    <2> QED BY <1>6, <2>1, <2>2, <2>3 DEF Fails
  <1>7. CASE UNCHANGED vars
    BY <1>7, StutterKeepsPage
  <1> QED BY <1>1, <1>2, <1>3, <1>4, <1>5, <1>6, <1>7 DEF Next

(***************************************************************************)
(* The invariant of the pages: every handler and every continuation keeps  *)
(* it (voiceState of pilot.js and what its async functions do to it).      *)
(***************************************************************************)
LEMMA PageInvHolds == Spec => []PageInv
  <1>1. Init => PageInv
    BY InitPage
  <1>2. PageInv /\ [Next]_vars => PageInv'
    BY NextKeepsPage
  <1> QED BY <1>1, <1>2, PTL DEF Spec

(***************************************************************************)
(* voiceState, the functions under way and the recogniser's connections    *)
(* stay well formed for any number of calls, utterances and clicks.        *)
(***************************************************************************)
THEOREM PageTypeCorrect == Spec => []TypeOK
  <1>1. ASSUME PageInv
        PROVE  TypeOK
    <2>1. /\ \A t \in DOMAIN tasks : tasks[t] \in Task(Len(sockets))
          /\ \A s \in DOMAIN sockets : sockets[s] \in Socket
      BY <1>1, Shape DEF PageInv
    <2>2. /\ \A t \in DOMAIN tasks :
               tasks[t] \in [kind : Kinds, at : {"microphone", "starting", "asked", "playing", "resuming",
                                                 "recogniser", "done"},
                             aborted : BOOLEAN, preserve : BOOLEAN, awaits : 0 .. Len(sockets)]
          /\ \A s \in DOMAIN sockets : sockets[s] \in [phase : Phases, settled : BOOLEAN]
      BY <2>1 DEF Task, Stages, Socket
    <2>3. voice \in [page : Pages, busy : BOOLEAN, microphone : BOOLEAN, continuous : BOOLEAN,
                     listening : BOOLEAN, replying : BOOLEAN, idle : BOOLEAN,
                     stage : 0 .. 1, controller : 0 .. Len(tasks), playing : 0 .. Len(tasks),
                     armed : BOOLEAN, barge : BOOLEAN, endpoint : {"none", "noise", "stale", "question"},
                     words : {"none", "noise", "stale", "question"},
                     socket : 0 .. Len(sockets), promise : 0 .. Len(sockets), ready : BOOLEAN]
      <3>1. PICK v, n, m : v = voice /\ n = Len(tasks) /\ m = Len(sockets)
        OBVIOUS
      <3>2. Formed(v) /\ Fields(v, n, m)
        BY <1>1, <3>1 DEF PageInv, Typed
      <3>3. v \in [page : Pages, busy : BOOLEAN, microphone : BOOLEAN, continuous : BOOLEAN,
                   listening : BOOLEAN, replying : BOOLEAN, idle : BOOLEAN,
                   stage : 0 .. 1, controller : 0 .. n, playing : 0 .. n,
                   armed : BOOLEAN, barge : BOOLEAN, endpoint : Word, words : Word,
                   socket : 0 .. m, promise : 0 .. m, ready : BOOLEAN]
        BY <3>2, Zenon DEF Formed, Fields
      <3> QED BY <3>1, <3>3 DEF Word
    <2>4. used.calls <= MaxCalls /\ used.speech <= MaxSpeech /\ used.clicks <= MaxClicks
      <3>1. PICK calls, speech, clicks : calls = used.calls /\ speech = used.speech /\ clicks = used.clicks
        OBVIOUS
      <3>2. calls \in 0 .. MaxCalls /\ speech \in 0 .. MaxSpeech /\ clicks \in 0 .. MaxClicks
        BY <1>1, <3>1 DEF PageInv, Counted
      <3>3. calls <= MaxCalls /\ speech <= MaxSpeech /\ clicks <= MaxClicks
        BY <3>2, PagesAssumption
      <3> QED BY <3>1, <3>3
    <2> QED BY <1>1, <2>2, <2>3, <2>4 DEF PageInv, Typed, Counted, Flags, TypeOK
  <1> QED BY <1>1, PageInvHolds, PTL

(***************************************************************************)
(* In an orderly session, whatever is clicked, said, lost or late, every   *)
(* reply under way is the one whose controller the page keeps: hanging up  *)
(* or talking over it stops it (stopVoiceSession, commitPendingBargeIn).   *)
(***************************************************************************)
THEOREM RepliesCanBeStopped == Spec => []OneReply
  <1>1. PageInv => OneReply
    BY DEF PageInv, OrderlyOK, Kept, Current, OneReply, Replying, At
  <1> QED BY <1>1, PageInvHolds, PTL

(***************************************************************************)
(* In an orderly session the timer of a silence runs only while the call   *)
(* listens and nothing is said, played or about to be submitted            *)
(* (scheduleVoiceIdleTimer, clearVoiceIdleTimer).                          *)
(***************************************************************************)
THEOREM TimerRunsInSilenceOnly == Spec => []TimerOnlyInSilence
  <1>1. PageInv => TimerOnlyInSilence
    BY DEF PageInv, OrderlyOK, Silence, TimerOnlyInSilence
  <1> QED BY <1>1, PageInvHolds, PTL

(***************************************************************************)
(* In an orderly session no silence of a test call goes unnoticed, but the *)
(* one right after the greeting (startVoiceListening, startVoiceTestCall,  *)
(* continueAfterIgnoredTranscript).                                        *)
(***************************************************************************)
THEOREM SilencesAreNoticed == Spec => []SilenceIsNoticed
  <1>1. PageInv => SilenceIsNoticed
    BY DEF PageInv, OrderlyOK, SilenceIsNoticed
  <1> QED BY <1>1, PageInvHolds, PTL

(***************************************************************************)
(* In an orderly session words of a question that was submitted already    *)
(* are about to be submitted again only after its reply was talked over    *)
(* (finalizeRealtimeTranscript, configureBargeInDetector).                 *)
(***************************************************************************)
THEOREM StaleWordsOnlyAfterBargeIn == Spec => []StaleWordsNeedBargeIn
  <1>1. PageInv => StaleWordsNeedBargeIn
    BY DEF PageInv, OrderlyOK, StaleWordsNeedBargeIn
  <1> QED BY <1>1, PageInvHolds, PTL

(***************************************************************************)
(* The timer of a silence never takes a finished question with it, in any  *)
(* session, orderly or not (handleVoiceIdleTimeout).                       *)
(***************************************************************************)
THEOREM SilenceTakesNoQuestion == Spec => []QuestionNotLostToSilence
  <1>1. PageInv => QuestionNotLostToSilence
    BY DEF PageInv, Counted, QuestionNotLostToSilence
  <1> QED BY <1>1, PageInvHolds, PTL
=============================================================================
