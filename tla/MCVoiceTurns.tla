---------------------------- MODULE MCVoiceTurns ----------------------------
(***************************************************************************)
(* One page with a session id and the fresh one it may rotate to.  The     *)
(* view leaves out what no guard reads any more and no invariant of the    *)
(* run looks at but for its type: the last use of a session, what a turn   *)
(* has read, the reply mode of a turn that is over and of a page that is   *)
(* not in a call.                                                          *)
(***************************************************************************)
EXTENDS VoiceTurns

CONSTANTS p1, s1, s2

FirstOfDef == [p \in Pages |-> s1]
NextOfDef == [p \in Pages |-> s2]

Unread ==
  [t \in DOMAIN turns |->
     [turns[t] EXCEPT !.seen = <<>>,
                      !.mode = IF turns[t].stage \in {"asked", "evaluating"} THEN @ ELSE "exact"]]
Modeless == [p \in Pages |-> IF page[p].inCall THEN page[p] ELSE [page[p] EXCEPT !.mode = "exact"]]
WithoutHistory == <<store, clock, Modeless, Unread, deletes, ended>>
=============================================================================
