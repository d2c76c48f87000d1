------------------------------ MODULE RunStream ------------------------------
(***************************************************************************)
(* What a client of POST /agent is promised about the durable event stream *)
(* of a run (docs/AG_UI_RUNTIME.md, "Streaming and recovery"): it is       *)
(* append-only, opens with RUN_STARTED unless the run is refused before it *)
(* starts, and closes with exactly one terminal event, after which nothing *)
(* is added.  A run can only be reported as answered after it has started. *)
(*                                                                         *)
(* An event is named for what it tells the client: "started" is            *)
(* RUN_STARTED, "activity" any progress event, and a terminal event        *)
(* carries the outcome it encodes (RUN_FINISHED with a success or an       *)
(* interrupt outcome, RUN_ERROR with code cancelled or any other code).    *)
(***************************************************************************)
EXTENDS Naturals, Sequences

CONSTANT Runs       \* the runs clients submit

VARIABLE stream     \* stream[r]: the events of run r, in sequence order

AnsweredOutcomes == {"succeeded", "interrupted"}
ErrorOutcomes    == {"failed", "cancelled"}
Outcomes         == AnsweredOutcomes \cup ErrorOutcomes
Events           == {"started", "activity"} \cup Outcomes

\* The last event of a stream is terminal (agui.py:2300).
Closed(str) == Len(str) > 0 /\ str[Len(str)] \in Outcomes

Init == stream = [r \in Runs |-> <<>>]

Open(r) ==
  /\ stream[r] = <<>>
  /\ stream' = [stream EXCEPT ![r] = <<"started">>]

Report(r) ==
  /\ stream[r] # <<>> /\ ~Closed(stream[r])
  /\ stream' = [stream EXCEPT ![r] = Append(@, "activity")]

Close(r, outcome) ==
  /\ ~Closed(stream[r])
  /\ outcome \in AnsweredOutcomes => stream[r] # <<>>
  /\ stream' = [stream EXCEPT ![r] = Append(@, outcome)]

Next == \E r \in Runs : \/ Open(r)
                        \/ Report(r)
                        \/ \E outcome \in Outcomes : Close(r, outcome)

Spec == Init /\ [][Next]_stream
=============================================================================
