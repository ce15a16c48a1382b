---------------------------- MODULE RemoteCommands ----------------------------
(***************************************************************************)
(* remote/commands.py and main.py's _remote_command_loop: one daemon       *)
(* thread polls the backend for a batch of commands, executes the          *)
(* allow-listed ones under a rate limit, and sends a result for each.      *)
(*                                                                         *)
(* A command is a record of what the code tells apart.  Time passes        *)
(* between any two steps; time.time() does not go backwards here.          *)
(***************************************************************************)
EXTENDS Integers, Sequences, FiniteSets

CONSTANTS
  Commands,         \* what the backend may ask for: see Command
  Window,           \* the 60 seconds of _rate_limited()
  MaxPerWindow,     \* max_commands_per_minute
  LogCap,           \* the 100 results kept in command_log
  MaxBatch,         \* bound: commands in one answer
  MaxFetched,       \* bound: commands in all
  MaxTime           \* bound: the last second

\* `shape`: what execute() finds of it; `ends`: it has a timeout or terminates.
Command ==
  [shape : {"not_a_dict", "not_a_name", "forbidden", "not_on_path", "runs"},
   ends : BOOLEAN]

ASSUME CommandsAssumption ==
  /\ Commands \subseteq Command
  /\ Window \in Nat \ {0} /\ MaxPerWindow \in Nat /\ LogCap \in Nat
  /\ MaxBatch \in Nat /\ MaxFetched \in Nat /\ MaxTime \in Nat

VARIABLES
  now,              \* time.time()
  pc,               \* where the thread is
  batch,            \* the commands not taken up yet
  current,          \* <<the command execute() is at>>, or <<>>
  recent,           \* _recent_timestamps: [serial, time]
  log,              \* command_log
  admitted,         \* history: every timestamp _rate_limited() ever appended
  fetched,          \* history: the number of commands the backend handed out
  results,          \* history: what execute() logged, in order
  sent,             \* history: what was sent, in order
  dropped           \* history: the commands an exception left behind

vars == <<now, pc, batch, current, recent, log, admitted, fetched, results, sent, dropped>>

Timestamp == [serial : Nat, time : Nat]
Statuses == {"rejected", "error", "success", "timeout"}
Result == [command : Commands, status : Statuses]

TypeOK ==
  /\ now \in Nat
  /\ pc \in {"wait", "batch", "execute", "allow", "run", "send"}
  /\ batch \in Seq(Commands)
  /\ current \in Seq(Commands)
  /\ pc \in {"execute", "allow", "run", "send"} <=> current # <<>>
  /\ recent \subseteq Timestamp /\ IsFiniteSet(recent)
  /\ admitted \subseteq Timestamp /\ IsFiniteSet(admitted)
  /\ log \in Seq(Result) /\ results \in Seq(Result) /\ sent \in Seq(Result)
  /\ Len(log) <= LogCap
  /\ fetched \in Nat /\ dropped \in Nat

Init ==
  /\ now = 0
  /\ pc = "wait"
  /\ batch = <<>> /\ current = <<>>
  /\ recent = {} /\ admitted = {}
  /\ log = <<>> /\ results = <<>> /\ sent = <<>>
  /\ fetched = 0 /\ dropped = 0

-------------------------------------------------------------------------------
Tick ==
  /\ now < MaxTime
  /\ now' = now + 1
  /\ UNCHANGED <<pc, batch, current, recent, log, admitted, fetched, results, sent, dropped>>

\* fetch_commands() returns a batch.
Fetch ==
  /\ pc = "wait"
  /\ \E n \in 1 .. MaxBatch : \E b \in [1 .. n -> Commands] :
       /\ fetched + n <= MaxFetched
       /\ batch' = b
       /\ fetched' = fetched + n
  /\ pc' = "batch"
  /\ UNCHANGED <<now, current, recent, log, admitted, results, sent, dropped>>

\* The loop takes up the next command.
Take ==
  /\ pc = "batch" /\ batch # <<>>
  /\ current' = <<Head(batch)>>
  /\ batch' = Tail(batch)
  /\ pc' = "execute"
  /\ UNCHANGED <<now, recent, log, admitted, fetched, results, sent, dropped>>

\* Mutant: the command in hand is not given up.
AbortKeepsCurrent ==
  /\ dropped' = dropped + 1 + Len(batch)
  /\ batch' = <<>> /\ UNCHANGED current
  /\ pc' = "wait"

\* Mutant: an exception ends the thread.
AbortThread ==
  /\ dropped' = dropped + 1 + Len(batch)
  /\ batch' = <<>> /\ current' = <<>>
  /\ pc' = "ended"

\* An exception ends the batch: the except of the loop, then the wait.
Abort ==
  /\ dropped' = dropped + 1 + Len(batch)
  /\ batch' = <<>> /\ current' = <<>>
  /\ pc' = "wait"

C == current[1]

\* cmd.get() on what is not a dict.
NotADict ==
  /\ pc = "execute" /\ C.shape = "not_a_dict"
  /\ Abort
  /\ UNCHANGED <<now, recent, log, admitted, fetched, results, sent>>

\* Mutant: a timestamp is forgotten one second early.
FreshEarly == { r \in recent : now - r.time < Window - 1 }

Fresh == { r \in recent : now - r.time < Window }

Limited == Cardinality(Fresh) >= MaxPerWindow

\* The results that stay in command_log.
Kept(l) ==
  SubSeq(l, IF Len(l) > LogCap THEN Len(l) - LogCap + 1 ELSE 1, Len(l))

\* _log() and return.
Log(status) ==
  LET r == [command |-> C, status |-> status] IN
  /\ log' = Kept(Append(log, r))
  /\ results' = Append(results, r)
  /\ pc' = "send"

\* _rate_limited(): a timestamp is taken before the command is looked at.
Admit ==
  /\ pc = "execute" /\ C.shape # "not_a_dict"
  /\ ~Limited
  /\ LET r == [serial |-> Cardinality(admitted), time |-> now] IN
       /\ recent' = Fresh \cup {r}
       /\ admitted' = admitted \cup {r}
  /\ pc' = "allow"
  /\ UNCHANGED <<now, batch, current, log, fetched, results, sent, dropped>>

Reject ==
  /\ pc = "execute" /\ C.shape # "not_a_dict"
  /\ Limited
  /\ recent' = Fresh
  /\ Log("rejected")
  /\ UNCHANGED <<now, batch, current, admitted, fetched, sent, dropped>>

\* Mutant: a command that cannot be looked up is skipped.
NotANameSkipped ==
  /\ pc = "allow" /\ C.shape = "not_a_name"
  /\ current' = <<>> /\ pc' = "batch" /\ dropped' = dropped
  /\ UNCHANGED <<now, batch, recent, log, admitted, fetched, results, sent>>

\* os.path.basename() of what is not a string.
NotAName ==
  /\ pc = "allow" /\ C.shape = "not_a_name"
  /\ Abort
  /\ UNCHANGED <<now, recent, log, admitted, fetched, results, sent>>

\* Not in the allow list, or not on PATH.
Refuse ==
  /\ pc = "allow" /\ C.shape \in {"forbidden", "not_on_path"}
  /\ Log("error")
  /\ UNCHANGED <<now, batch, current, recent, admitted, fetched, sent, dropped>>

Run ==
  /\ pc = "allow" /\ C.shape = "runs"
  /\ pc' = "run"
  /\ UNCHANGED <<now, batch, current, recent, log, admitted, fetched, results, sent, dropped>>

\* subprocess.run() returns, is timed out, or raises.
RunEnds ==
  /\ pc = "run" /\ C.ends
  /\ \E s \in {"success", "error", "timeout"} : Log(s)
  /\ UNCHANGED <<now, batch, current, recent, admitted, fetched, sent, dropped>>

\* send_command_result(), which does not raise.
Report ==
  /\ pc = "send"
  /\ sent' = Append(sent, results[Len(results)])
  /\ current' = <<>>
  /\ pc' = "batch"
  /\ UNCHANGED <<now, batch, recent, log, admitted, fetched, results, dropped>>

\* The batch is done: shutdown_event.wait(poll_interval).
BatchDone ==
  /\ pc = "batch" /\ batch = <<>>
  /\ pc' = "wait"
  /\ UNCHANGED <<now, batch, current, recent, log, admitted, fetched, results, sent, dropped>>

Turn ==
  \/ Take \/ NotADict \/ Admit \/ Reject \/ NotAName \/ Refuse \/ Run \/ RunEnds
  \/ Report \/ BatchDone

Next == Tick \/ Fetch \/ Turn

Spec == Init /\ [][Next]_vars

\* The thread runs, and a process that has a timeout or terminates is over some time.
FairSpec == Spec /\ WF_vars(Turn)
-------------------------------------------------------------------------------
\* The timestamps of one window from t on.
InWindow(t) == { r \in admitted : t <= r.time /\ r.time < t + Window }

(* However the commands fall, no 60 seconds see more commands pass the      *)
(* limit than max_commands_per_minute: not only the calendar minute, and    *)
(* not only what the pruned list remembers.                                *)
RateBound ==
  \A q \in admitted : Cardinality(InWindow(q.time)) <= MaxPerWindow

(* What the backend hears: every command handed out is accounted for, as    *)
(* sent, in hand, or left behind by an exception, and results are sent      *)
(* once each, in the order execute() produced them.                        *)
Accounted ==
  /\ fetched = Len(sent) + Len(current) + Len(batch) + dropped
  /\ sent = SubSeq(results, 1, Len(sent))
  /\ Len(results) = Len(sent) + (IF pc = "send" THEN 1 ELSE 0)

(* The thread gets back to polling after each batch, unless it waits for a  *)
(* process that never ends and has no timeout: the backend may send null.   *)
PollsAgain ==
  []<>(pc = "wait") \/ <>[](pc = "run" /\ ~C.ends)
===============================================================================
