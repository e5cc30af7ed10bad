----------------------------- MODULE TaskBoard -----------------------------
(***************************************************************************)
(* What the operator plane promises about the task board: uploads, starts  *)
(* and clears take effect one after the other, each as a whole and at most *)
(* once, in the order of the calls; an answer other than "503" quotes the  *)
(* outcome of exactly that execution.  "503" promises nothing: its command *)
(* may still take effect later.                                            *)
(***************************************************************************)
EXTENDS Naturals, Sequences, FiniteSets

CONSTANTS Call, Breach, Unset

VARIABLES
  board,    \* tasks: what they are and whether they are pending
  phase,    \* of the run
  want,     \* what each call asks for
  order,    \* calls that have not taken effect, oldest first
  outcome,  \* of the calls that have
  reply     \* "none", "ok", "422" or "503"

boardVars == <<board, phase, want, order, outcome, reply>>

AbstractInit ==
  /\ board = <<>> /\ phase \in {"SETUP_HOLD", "BRING_UP"}
  /\ want = [c \in Call |-> Unset]
  /\ order = <<>>
  /\ outcome = [c \in Call |-> Unset]
  /\ reply = [c \in Call |-> "none"]

Submit(c) ==
  /\ want[c] = Unset /\ want'[c] # Unset
  /\ \A d \in Call \ {c} : want'[d] = want[d]
  /\ \/ order' = Append(order, c) /\ UNCHANGED reply
     \/ reply' = [reply EXCEPT ![c] = "422"] /\ UNCHANGED order
  /\ UNCHANGED <<board, phase, outcome>>

Open(tasks)   == {k \in DOMAIN tasks : tasks[k].state = "pending"}
Without(tasks) == [k \in DOMAIN tasks |-> [tasks[k] EXCEPT !.state = "cleared"]]
Kept(items) ==
  LET kept[n \in 0..Len(items)] ==
        IF n = 0 THEN <<>>
        ELSE IF items[n] \in Breach THEN kept[n - 1] ELSE Append(kept[n - 1], items[n])
  IN  kept[Len(items)]
New(items) == [k \in DOMAIN Kept(items) |-> [item |-> Kept(items)[k], state |-> "pending"]]

AfterUpload(r) == (IF r.replace THEN Without(board) ELSE board) \o New(r.items)

Perform ==
  /\ order # <<>> /\ order' = Tail(order)
  /\ LET c == Head(order)
         r == want[c]
         waits == phase \in {"SETUP_HOLD", "BRING_UP"} IN
     \/ /\ r.kind = "upload"
        /\ board' = AfterUpload(r)
        /\ outcome' = [outcome EXCEPT ![c] =
             [ids |-> (Len(board) + 1)..Len(board'), n |-> Cardinality(Open(board'))]]
        /\ UNCHANGED phase
     \/ /\ r.kind = "clear"
        /\ board' = Without(board)
        /\ outcome' = [outcome EXCEPT ![c] = [ids |-> {}, n |-> Cardinality(Open(board))]]
        /\ UNCHANGED phase
     \/ /\ r.kind = "start"
        /\ phase' = IF waits THEN "RUNNING" ELSE phase
        /\ outcome' = [outcome EXCEPT ![c] = [ids |-> {}, n |-> IF waits THEN 1 ELSE 0]]
        /\ UNCHANGED board
  /\ UNCHANGED <<want, reply>>

Answer(c) ==
  /\ want[c] # Unset /\ reply[c] = "none"
  /\ \/ outcome[c] # Unset /\ reply' = [reply EXCEPT ![c] = "ok"]
     \/ reply' = [reply EXCEPT ![c] = "503"]
  /\ UNCHANGED <<board, phase, want, order, outcome>>

RunEnds ==
  /\ phase \in {"SETUP_HOLD", "BRING_UP", "RUNNING"}
  /\ phase' = "ABORTED"
  /\ UNCHANGED <<board, want, order, outcome, reply>>

AbstractNext == (\E c \in Call : Submit(c) \/ Answer(c)) \/ Perform \/ RunEnds

Spec == AbstractInit /\ [][AbstractNext]_boardVars
=============================================================================
