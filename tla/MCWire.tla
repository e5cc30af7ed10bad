------------------------------- MODULE MCWire -------------------------------
(***************************************************************************)
(* Instances of WireFormat, FrameStream and ParamLink for TLC.  `layer`    *)
(* says which of them a behaviour exercises.                               *)
(***************************************************************************)
EXTENDS WireFormat, FrameStream, ParamLink

CONSTANTS autostart, gain

VARIABLE layer

FD == 9
FE == 8
KnownIds == {1}
\* A heartbeat-like frame in either version, one with an unknown id, one with a
\* magic byte in its payload, a spoilt one, a lone magic byte, and garbage.
Make(magic, id, payload) ==
  LET covered == <<Len(payload), id>> \o payload IN <<magic>> \o covered \o <<Sum(covered)>>
Spoilt  == <<FD, 1, 1, 5, 7>>
Streams == {Make(FD, 1, <<>>), Make(FE, 1, <<4>>), Make(FD, 2, <<>>), Make(FD, 1, <<FD, 2>>),
            Spoilt, <<FD>>, <<FD, 2>>, <<6>>}

TwoParams  == <<autostart, gain>>
Types      == [p \in {autostart, gain} |-> IF p = autostart THEN 6 ELSE 9]
OneValue   == {1}

vars == <<layer, wireVars, streamVars, paramVars>>

Init == /\ WireInit /\ StreamInit /\ ParamInit
        /\ layer \in {"payload", "stream", "params"}
        /\ layer # "stream" => stream = <<6>>

Payloads == layer = "payload" /\ WireNext /\ UNCHANGED <<layer, streamVars, paramVars>>
Bytes    == layer = "stream" /\ StreamNext /\ UNCHANGED <<layer, wireVars, paramVars>>

\* Two writes beside one download, or one beside two.
Params ==
  /\ layer = "params" /\ ParamNext
  /\ asked' > 1 => \E c \in Caller : where'[c] = "new"
  /\ UNCHANGED <<layer, wireVars, streamVars>>

Next == Payloads \/ Bytes \/ Params

\* The link's loop turns.
Only(A) == layer = "params" /\ A /\ UNCHANGED <<layer, wireVars, streamVars>>
Fairness == /\ WF_vars(Only(RetryWrite)) /\ WF_vars(Only(GetValue))
            /\ WF_vars(Only(Watchdog)) /\ WF_vars(Only(ThreeSeconds))

Spec == Init /\ [][Next]_vars /\ Fairness
=============================================================================
