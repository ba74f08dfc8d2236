----------------------------- MODULE VoiceTurns -----------------------------
(***************************************************************************)
(* Voice turns and the context they read and write: the test page in the   *)
(* browser, the respond-stream handler, and the context store.             *)
(*                                                                         *)
(* A natural turn reads the session's history in one worker thread, is     *)
(* evaluated in another, and is recorded by the response stream; the       *)
(* stream is cancelled when the server notices that the browser has gone.  *)
(* An exact turn is evaluated and recorded before the response starts, so  *)
(* nothing cancels it.  Hanging up aborts the request in the browser and   *)
(* sends a DELETE for the session that nobody waits for; the page keeps    *)
(* the session id, and its next call uses it again.                        *)
(*                                                                         *)
(* Below the call the page has a form: a typed question goes through       *)
(* test-turns/evaluate under the same session id, in a call or outside,    *)
(* beside whatever is spoken, and nothing cancels it.                      *)
(*                                                                         *)
(* What is said is only the number of the turn and of the call.  A turn    *)
(* with sensitive data is answered and not recorded.                       *)
(***************************************************************************)
EXTENDS ConversationStore

CONSTANTS Pages,       \* browser tabs
          FirstOf,     \* the session id each page starts with
          NextOf,      \* the fresh session id after "clear conversation"
          MaxCalls,    \* bound: calls made from one page
          MaxAsked     \* bound: turns asked altogether

\* crypto.randomUUID: no two pages ever have the same session id.
ASSUME VoiceAssumption ==
  /\ FirstOf \in [Pages -> Sessions] /\ NextOf \in [Pages -> Sessions]
  /\ \A p, q \in Pages : {FirstOf[p], NextOf[p]} \cap {FirstOf[q], NextOf[q]} # {} => p = q
  /\ MaxCalls \in Nat /\ MaxAsked \in Nat

VARIABLES page,     \* per page: session id, in a call or not, reply mode, number of the call
          turns,    \* every turn asked
          deletes,  \* DELETE requests under way: session, the call and what sent it
          ended     \* history: session and call of every DELETE of a hang-up handled

turnVars == <<page, turns, deletes, ended>>
vars == <<storeVars, turnVars>>

Modes == {"natural", "exact"}
Sources == {"voice", "keyboard"}
Calls == Pages \X (0 .. MaxCalls)   \* 0: before the first call
TurnStages == {"asked", "evaluating", "recorded", "unrecorded", "cancelled"}
Said == [turn : 1 .. MaxAsked, call : Calls]
Turn == [session : Sessions, call : Calls, by : Sources, mode : Modes, stage : TurnStages,
         aborted : BOOLEAN, answered : BOOLEAN, seen : Seq(Said)]

TypeOK ==
  /\ StoreTypeOK
  /\ \A id \in Ids(store) : store.entries[id].exchanges \in Seq(Said)
  /\ page \in [Pages -> [session : Sessions, inCall : BOOLEAN, mode : Modes,
                         calls : 0 .. MaxCalls]]
  /\ turns \in Seq(Turn)
  /\ deletes \subseteq Sessions \X Calls \X {"hang up", "clear"}
  /\ ended \subseteq Sessions \X Calls

Init ==
  /\ StoreInit
  /\ page = [p \in Pages |-> [session |-> FirstOf[p], inCall |-> FALSE,
                              mode |-> "exact", calls |-> 0]]
  /\ turns = <<>>
  /\ deletes = {}
  /\ ended = {}

CallOf(p) == <<p, page[p].calls>>

\* The browser waits for the turn it submitted until it is answered or aborted.
Waiting(t) == ~ turns[t].aborted /\ ~ turns[t].answered
Spoken(t) == turns[t].by = "voice"
WaitingOn(p) == {t \in DOMAIN turns : Spoken(t) /\ turns[t].call = CallOf(p) /\ Waiting(t)}
NewTurn(p, by, mode) ==
  [session |-> page[p].session, call |-> CallOf(p), by |-> by, mode |-> mode,
   stage |-> IF mode = "natural" THEN "asked" ELSE "evaluating",
   aborted |-> FALSE, answered |-> FALSE, seen |-> <<>>]
Aborted(ts) == [t \in DOMAIN turns |->
                  IF t \in ts THEN [turns[t] EXCEPT !.aborted = TRUE] ELSE turns[t]]

-----------------------------------------------------------------------------
(* The page *)

\* The reply mode can only be chosen between calls.
StartCall(p, mode) ==
  /\ ~ page[p].inCall
  /\ page[p].calls < MaxCalls
  /\ page' = [page EXCEPT ![p].inCall = TRUE, ![p].mode = mode, ![p].calls = @ + 1]
  /\ UNCHANGED <<storeVars, turns, deletes, ended>>

Ask(p) ==
  /\ page[p].inCall
  /\ WaitingOn(p) = {}
  /\ Len(turns) < MaxAsked
  /\ turns' = Append(turns, NewTurn(p, "voice", page[p].mode))
  /\ UNCHANGED <<storeVars, page, deletes, ended>>

\* A typed question: the form waits for the one before, not for the call.  The
\* reply mode can be changed while there is no call.
Type(p, mode) ==
  /\ \A t \in DOMAIN turns : turns[t].call[1] = p /\ ~ Spoken(t) => ~ Waiting(t)
  /\ page[p].inCall => mode = page[p].mode
  /\ Len(turns) < MaxAsked
  /\ turns' = Append(turns, NewTurn(p, "keyboard", mode))
  /\ UNCHANGED <<storeVars, page, deletes, ended>>

\* The form's request fails in the browser, and the form can be used again.
LoseReply(t) ==
  /\ ~ Spoken(t)
  /\ Waiting(t)
  /\ turns' = Aborted({t})
  /\ UNCHANGED <<storeVars, page, deletes, ended>>

\* Mutant: the reply can be talked over before it has begun.
BargeInBeforeReply(p) ==
  /\ page[p].inCall
  /\ WaitingOn(p) # {}
  /\ turns' = Aborted(WaitingOn(p))
  /\ UNCHANGED <<storeVars, page, deletes, ended>>

\* The caller talks over the reply.  There is one to talk over only after the
\* "turn" event, which the server sends once the turn is through
\* record_session_turn; the button that stops a reply is disabled in a call.
BargeIn(p) ==
  /\ page[p].inCall
  /\ WaitingOn(p) # {}
  /\ \A t \in WaitingOn(p) : turns[t].stage \in {"recorded", "unrecorded"}
  /\ turns' = Aborted(WaitingOn(p))
  /\ UNCHANGED <<storeVars, page, deletes, ended>>

\* Mutant: hanging up leaves the request to its fate.
HangUpWithoutAbort(p) ==
  /\ page[p].inCall
  /\ page' = [page EXCEPT ![p].inCall = FALSE]
  /\ deletes' = deletes \cup {<<page[p].session, CallOf(p), "hang up">>}
  /\ UNCHANGED <<storeVars, turns, ended>>

\* stopVoiceSession: by the button, a second silence, an error or a farewell played.
HangUp(p) ==
  /\ page[p].inCall
  /\ page' = [page EXCEPT ![p].inCall = FALSE]
  /\ turns' = Aborted(WaitingOn(p))
  /\ deletes' = deletes \cup {<<page[p].session, CallOf(p), "hang up">>}
  /\ UNCHANGED <<storeVars, ended>>

\* "Clear conversation": DELETE the session and take a fresh id (bound: once a page).
Rotate(p) ==
  /\ page[p].session = FirstOf[p]
  /\ page' = [page EXCEPT ![p].session = NextOf[p]]
  /\ deletes' = deletes \cup {<<page[p].session, CallOf(p), "clear">>}
  /\ UNCHANGED <<storeVars, turns, ended>>

-----------------------------------------------------------------------------
(* The server *)

\* resolve_conversation of a natural turn.
ReadHistory(t) ==
  /\ turns[t].stage = "asked"
  /\ turns' = [turns EXCEPT ![t].stage = "evaluating", ![t].seen = HistoryOf(turns[t].session)]
  /\ History(turns[t].session)
  /\ UNCHANGED <<clock, page, deletes, ended>>

\* record_session_turn, for a turn without sensitive data.
Record(t) ==
  /\ turns[t].stage = "evaluating"
  /\ turns' = [turns EXCEPT ![t].stage = "recorded"]
  /\ AppendExchange(turns[t].session, [turn |-> t, call |-> turns[t].call])
  /\ UNCHANGED <<clock, page, deletes, ended>>

\* The same for a turn with sensitive data, or one whose evaluation failed.
LeaveUnrecorded(t) ==
  /\ turns[t].stage = "evaluating"
  /\ turns' = [turns EXCEPT ![t].stage = "unrecorded"]
  /\ UNCHANGED <<storeVars, page, deletes, ended>>

\* The browser has played or shown the whole reply, or was told that there is none.
Answer(t) ==
  /\ turns[t].stage \in {"recorded", "unrecorded"}
  /\ Waiting(t)
  /\ turns' = [turns EXCEPT ![t].answered = TRUE]
  /\ UNCHANGED <<storeVars, page, deletes, ended>>

\* The server notices that the browser of a natural turn has gone.
Cancel(t) ==
  /\ Spoken(t)
  /\ turns[t].aborted
  /\ turns[t].mode = "natural"
  /\ turns[t].stage \in {"asked", "evaluating"}
  /\ turns' = [turns EXCEPT ![t].stage = "cancelled"]
  /\ UNCHANGED <<storeVars, page, deletes, ended>>

\* An utterance that ends the call is answered by clearing the session at once.
Farewell(p) ==
  /\ page[p].inCall
  /\ WaitingOn(p) = {}
  /\ Clear(page[p].session)
  /\ UNCHANGED <<clock, page, turns, deletes, ended>>

HandleDelete(d) ==
  /\ Clear(d[1])
  /\ ended' = IF d[3] = "hang up" THEN ended \cup {<<d[1], d[2]>>} ELSE ended
  /\ deletes' = deletes \ {d}
  /\ UNCHANGED <<clock, page, turns>>

LoseDelete(d) ==
  /\ deletes' = deletes \ {d}
  /\ UNCHANGED <<storeVars, page, turns, ended>>

Next ==
  \/ \E p \in Pages :
       \/ \E mode \in Modes : StartCall(p, mode) \/ Type(p, mode)
       \/ Ask(p) \/ BargeIn(p) \/ HangUp(p) \/ Rotate(p) \/ Farewell(p)
  \/ \E t \in DOMAIN turns :
       \/ ReadHistory(t) \/ Record(t) \/ LeaveUnrecorded(t) \/ Answer(t) \/ Cancel(t)
       \/ LoseReply(t)
  \/ \E d \in deletes : HandleDelete(d) \/ LoseDelete(d)
  \/ ClockTick /\ UNCHANGED turnVars

Spec == Init /\ [][Next]_vars
-----------------------------------------------------------------------------
\* No turn was spoken in the same call after t.
LastSpoken(t) ==
  \A u \in DOMAIN turns : Spoken(u) /\ turns[u].call = turns[t].call => u <= t

(***************************************************************************)
(* Once the DELETE of a hang-up has been handled, nothing that was spoken  *)
(* in that call is kept but at most its last turn, which the caller was    *)
(* still waiting for when hanging up and whose evaluation went on and was  *)
(* recorded after the DELETE: an answer the caller heard, or began to      *)
(* hear, never reaches the next call (stopVoiceSession, clear and          *)
(* record_session_turn together).                                          *)
(***************************************************************************)
OnlyAbandonedTurnsOutliveTheirCall ==
  \A id \in Ids(store) : \A j \in DOMAIN store.entries[id].exchanges :
    LET x == store.entries[id].exchanges[j]
    IN  <<id, x.call>> \in ended /\ Spoken(x.turn) =>
          turns[x.turn].aborted /\ LastSpoken(x.turn)

(***************************************************************************)
(* A follow-up refers to the turns of the session in the order they were   *)
(* asked.  The turns spoken in one call are always kept in that order,     *)
(* also where the caller talks over replies.  Across calls, and between    *)
(* typed questions, only a turn that was given up (hung up on, or typed    *)
(* and its request failed) is kept behind one asked later.  A spoken and a *)
(* typed turn can overlap and be kept either way round.                    *)
(***************************************************************************)
TurnsKeptInOrder ==
  \A id \in Ids(store) : \A j, k \in DOMAIN store.entries[id].exchanges :
    LET x == store.entries[id].exchanges[j]
        y == store.entries[id].exchanges[k]
    IN  j < k /\ x.turn > y.turn /\ turns[x.turn].by = turns[y.turn].by =>
          /\ turns[y.turn].aborted
          /\ Spoken(x.turn) => x.call # y.call

(***************************************************************************)
(* README: the context is isolated by the UUID of the call and cleared on  *)
(* hanging up, so what was spoken in one call is never read by a turn of   *)
(* another whose answer the caller waits for or has heard.                 *)
(***************************************************************************)
EachCallReadsOnlyItself ==
  \A t \in DOMAIN turns : \A j \in DOMAIN turns[t].seen :
    LET x == turns[t].seen[j]
    IN  Spoken(t) /\ ~ turns[t].aborted /\ Spoken(x.turn) => x.call = turns[t].call
=============================================================================
