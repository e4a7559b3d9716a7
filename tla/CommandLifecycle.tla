--------------------------- MODULE CommandLifecycle ---------------------------
(***************************************************************************)
(* What a requester may rely on when it sends a command to the agent: the  *)
(* abstract specification of a command topic, whatever the operation.      *)
(*                                                                         *)
(* The requester creates a command and, once done, clears it.  In between  *)
(* the agent takes the command, which binds it to one definition of the    *)
(* operation, works on it and gives it a definitive outcome.               *)
(***************************************************************************)

CONSTANTS
  Cmds,     \* command topics
  Rules,    \* the definitions a command can be ruled by
  NoRule    \* the command has not been taken yet

VARIABLE command   \* the state of a command, as published on its topic

Outcomes == {"successful", "failed"}
Nothing  == [status |-> "none", version |-> NoRule]

Init == command = [c \in Cmds |-> Nothing]

Becomes(c, state) == command' = [command EXCEPT ![c] = state]

Create(c) ==
  /\ command[c] = Nothing
  /\ Becomes(c, [status |-> "init", version |-> NoRule])

Take(c) ==
  /\ command[c].status = "init"
  /\ \E rule \in Rules : Becomes(c, [status |-> "executing", version |-> rule])

Finish(c) ==
  /\ command[c].status = "executing"
  /\ \E outcome \in Outcomes :
       Becomes(c, [status |-> outcome, version |-> command[c].version])

Clear(c) ==
  /\ command[c].status \in Outcomes
  /\ Becomes(c, Nothing)

Next == \E c \in Cmds : Create(c) \/ Take(c) \/ Finish(c) \/ Clear(c)

Spec == Init /\ [][Next]_command

=============================================================================
