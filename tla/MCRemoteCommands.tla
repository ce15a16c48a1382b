--------------------------- MODULE MCRemoteCommands ---------------------------
(* Commands of the remote command loop for TLC.                             *)
EXTENDS RemoteCommands

Shape(s) == [shape |-> s, ends |-> TRUE]

\* A name that runs and one that is refused, what raises before and after the
\* rate limit, and a process that never ends, with "timeout": null.
Mixed ==
  { Shape("runs"), Shape("not_on_path"), Shape("not_a_dict"), Shape("not_a_name"),
    [shape |-> "runs", ends |-> FALSE] }
===============================================================================
