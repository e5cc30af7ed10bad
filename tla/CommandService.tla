--------------------------- MODULE CommandService ---------------------------
(***************************************************************************)
(* What LinkHandle::send_command promises the manager about one vehicle,   *)
(* whatever the radio does: a command that was asked for is performed at   *)
(* most Attempts times, commands are performed in the order they were      *)
(* asked for, and an answer other than Timeout quotes a verdict the        *)
(* vehicle has given on a command of that kind.                            *)
(***************************************************************************)
EXTENDS Naturals

CONSTANTS Call,     \* calls of send_command
          Command,  \* command ids
          None,     \* no command yet
          Attempts  \* transmissions of one command

VARIABLES
  state,    \* how far each call is: "new", "waiting", or its answer
  cmd,      \* the command each call asks for
  ticket,   \* its place in the order of the calls, 0 before it is made
  ran,      \* how often the vehicle has performed it
  verdicts  \* the vehicle's verdicts so far: command and result

vars == <<state, cmd, ticket, ran, verdicts>>

Result == {"Accepted", "Rejected"}

Init ==
  /\ state = [c \in Call |-> "new"]
  /\ cmd = [c \in Call |-> None]
  /\ ticket = [c \in Call |-> 0]
  /\ ran = [c \in Call |-> 0]
  /\ verdicts = {}

Ask(c) ==
  /\ state[c] = "new"
  /\ \E k \in Command : cmd' = [cmd EXCEPT ![c] = k]
  /\ ticket' = [ticket EXCEPT ![c] = ticket'[c]]
  /\ \A d \in Call : ticket[d] < ticket'[c]
  /\ \E s \in {"waiting", "Timeout"} : state' = [state EXCEPT ![c] = s]
  /\ UNCHANGED <<ran, verdicts>>

Perform(c, r) ==
  /\ state[c] # "new" /\ ran[c] < Attempts
  /\ \A d \in Call : ran[d] > 0 => ticket[d] <= ticket[c]
  /\ ran' = [ran EXCEPT ![c] = @ + 1]
  /\ verdicts' = verdicts \cup {<<cmd[c], r>>}
  /\ UNCHANGED <<state, cmd, ticket>>

Answer(c, a) ==
  /\ state[c] = "waiting"
  /\ a = "Timeout" \/ <<cmd[c], a>> \in verdicts
  /\ state' = [state EXCEPT ![c] = a]
  /\ UNCHANGED <<cmd, ticket, ran, verdicts>>

Next == \E c \in Call :
  \/ Ask(c)
  \/ \E r \in Result : Perform(c, r)
  \/ \E a \in Result \cup {"Timeout"} : Answer(c, a)

Spec == Init /\ [][Next]_vars
=============================================================================
