------------------------- MODULE MCWorkflowRepository -------------------------
(***************************************************************************)
(* Instances of WorkflowRepository for TLC.  An operation is a string; a   *)
(* version or a command is a pair of its operation and a number.           *)
(***************************************************************************)
EXTENDS WorkflowRepository

MCOpOf   == [v \in Versions |-> v[1]]
MCFileOf == [op \in Ops |-> op]
MCCmdOp  == [c \in Cmds |-> c[1]]

\* One operation with two versions and two commands: versions and their users.
OneOp       == {"a"}
TwoVersions == {<<"a", 1>>, <<"a", 2>>}
TwoCommands == {<<"a", 1>>, <<"a", 2>>}

OneCommand  == {<<"a", 1>>}

\* Two operations, the first one with a built-in workflow:
\* the file of one can be given the definition of the other.
TwoOps           == {"a", "b"}
VersionsOfTwoOps == {<<"a", 1>>, <<"b", 1>>}
CommandOfEachOp  == {<<"a", 1>>, <<"b", 1>>}

NoCommands       == {}
=============================================================================
