------------------------------ MODULE LogMonitor -------------------------------
(***************************************************************************)
(* collectors/log_monitor.py: one log that the monitor tails while its      *)
(* owner changes it: a text file that is written, rotated, truncated and   *)
(* removed, or a Windows event log that is written, wraps and is cleared.  *)
(*                                                                         *)
(* A check of a file stats the path, then opens it; one of an event log    *)
(* opens it, then reads its records: two steps, and the owner acts between *)
(* them.  A log is its sequence of lines or events, each written once.     *)
(* The last line of a file may lack its second half: a position in a file  *)
(* counts half lines, one in an event log is a record number.  Every line  *)
(* that is read whole matches a pattern; half a line may.                  *)
(***************************************************************************)
EXTENDS Integers, Sequences

CONSTANTS
  Inodes,           \* what the file system names files with; an event log is one
  Null,             \* no file at the path, no watcher
  Types,            \* the types of log to choose from
  Disturbances,     \* what the owner does but write: see Owner
  BadPattern,       \* a pattern is no string: matching a line raises, or is done before
  MatchCap,         \* the 50 matched lines of a result
  MaxLines,         \* bound: lines written, one of them at the start
  MaxDisturbed      \* bound: disturbances

ASSUME LogAssumption ==
  /\ Null \notin Inodes
  /\ Types \subseteq {"file", "eventlog"}
  /\ Disturbances \subseteq {"rotate", "reuse", "truncate", "remove", "wrap", "clear"}
  /\ BadPattern \in BOOLEAN
  /\ {MatchCap, MaxLines} \subseteq Nat \ {0} /\ MaxDisturbed \in Nat

VARIABLES
  type,             \* the watcher's type
  path,             \* the inode at the path, or Null
  content,          \* the lines of the file there, or the records the event log retains
  half,             \* the last of them is not written to its end
  oldest,           \* the number of the first record; 1 for a file
  written,          \* lines written so far; line n is the n-th
  disturbed,        \* disturbances so far
  used,             \* history: the inodes that ever were at the path
  inode, last_pos,  \* the watcher; last_pos is also an event log's last_record
  st,               \* <<>>, or the size (last_seen) that a check in progress has seen
  matched,          \* history: the lines reported since a truncation was noticed, in order
  before,           \* history: the lines reported before that
  capped,           \* history: lines left out by the cap, events older than the watcher
  split,            \* history: lines matched in two halves
  lost,             \* history: lines read by a check whose matching raised
  raced,            \* history: a disturbance fell between the two steps of a check
  shrunk,           \* history: since the last stat the file fell short of last_pos
  disguised         \* history: and had grown again when it was looked at

vars == <<type, path, content, half, oldest, written, disturbed, used, inode, last_pos, st,
          matched, before, capped, split, lost, raced, shrunk, disguised>>

file == <<type, path, content, half, oldest, written, disturbed, used>>
reports == <<matched, before, capped, split, lost>>
watcher == <<inode, last_pos, st, reports>>

Lines == 1 .. MaxLines

TypeOK ==
  /\ type \in Types
  /\ path \in Inodes \cup {Null}
  /\ content \in Seq(Lines) /\ (path = Null => content = <<>>)
  /\ half \in BOOLEAN /\ (half => type = "file" /\ content # <<>>)
  /\ oldest \in Nat \ {0} /\ (type = "file" => oldest = 1)
  /\ written \in 0 .. MaxLines
  /\ disturbed \in 0 .. MaxDisturbed
  /\ used \subseteq Inodes /\ inode \in used \cup {Null}
  /\ inode = Null => st = <<>> /\ matched = <<>>
  /\ last_pos \in Nat
  /\ st \in Seq(Nat) /\ Len(st) <= 1
  /\ matched \in Seq(Lines)
  /\ before \cup capped \cup split \cup lost \subseteq Lines
  /\ {raced, shrunk, disguised} \subseteq BOOLEAN

\* Without a file at the path there will never be a watcher; with one it starts
\* at 0 and finds the lines that are there.
InitFile ==
  /\ path \in Inodes \cup {Null}
  /\ written \in IF path = Null THEN {0} ELSE 0 .. 1
  /\ half \in IF written = 1 THEN BOOLEAN ELSE {FALSE}
  /\ last_pos = 0 /\ capped = {}

\* The watcher starts past the newest record.
InitEvents ==
  /\ path \in Inodes
  /\ written \in 0 .. 1
  /\ half = FALSE
  /\ last_pos = written /\ capped = 1 .. written

Init ==
  /\ type \in Types
  /\ IF type = "eventlog" THEN InitEvents ELSE InitFile
  /\ content = [n \in 1 .. written |-> n]
  /\ oldest = 1
  /\ disturbed = 0
  /\ used = {path} \ {Null} /\ inode = path
  /\ st = <<>> /\ matched = <<>>
  /\ before = {} /\ split = {} /\ lost = {}
  /\ raced = FALSE /\ shrunk = FALSE /\ disguised = FALSE

-------------------------------------------------------------------------------
\* os.stat().st_size
Size == 2 * Len(content) - (IF half THEN 1 ELSE 0)

\* A line of a file is written to its end, or not yet.
Write ==
  /\ path # Null /\ written < MaxLines /\ ~half
  /\ written' = written + 1
  /\ content' = Append(content, written')
  /\ half' \in IF type = "file" THEN BOOLEAN ELSE {FALSE}
  /\ UNCHANGED <<type, path, oldest, disturbed, used, raced, shrunk, disguised>>
  /\ UNCHANGED watcher

Finish ==
  /\ half /\ half' = FALSE
  /\ UNCHANGED <<type, path, content, oldest, written, disturbed, used>>
  /\ UNCHANGED <<raced, shrunk, disguised>> /\ UNCHANGED watcher

Of(kind) == IF kind \in {"wrap", "clear"} THEN "eventlog" ELSE "file"

Disturb(kind) ==
  /\ kind \in Disturbances /\ type = Of(kind)
  /\ disturbed < MaxDisturbed
  /\ disturbed' = disturbed + 1
  /\ raced' = (raced \/ st # <<>>)
  /\ UNCHANGED <<type, written>> /\ UNCHANGED watcher

\* The watched file is now this short.
Resized ==
  /\ shrunk' = (shrunk \/ (path' = inode /\ Size' < last_pos))
  /\ UNCHANGED disguised

\* A new empty file at the path, with an inode from `from`.
Replace(from) ==
  \E i \in from :
    /\ path' = i
    /\ content' = <<>> /\ half' = FALSE
    /\ used' = used \cup {i}
    /\ Resized
    /\ UNCHANGED oldest

Rotate == Disturb("rotate") /\ Replace(Inodes \ used)

\* The new file gets the inode of one that is gone.
Reuse == Disturb("reuse") /\ Replace(used)

\* To any smaller size, half way through a line included.
Truncate ==
  /\ Disturb("truncate")
  /\ \E n \in 0 .. Len(content) :
       /\ content' = SubSeq(content, 1, n)
       /\ half' \in IF n = 0 THEN {FALSE} ELSE BOOLEAN
  /\ UNCHANGED <<path, oldest, used>>
  /\ Size' < Size /\ Resized

Remove ==
  /\ path # Null
  /\ Disturb("remove")
  /\ path' = Null
  /\ content' = <<>> /\ half' = FALSE
  /\ UNCHANGED <<oldest, used, shrunk, disguised>>

\* A full event log overwrites its oldest record.
Wrap ==
  /\ Disturb("wrap")
  /\ content # <<>>
  /\ content' = Tail(content)
  /\ oldest' = oldest + 1
  /\ UNCHANGED <<path, half, used, shrunk, disguised>>

\* A cleared event log numbers its records from 1 again.
Clear ==
  /\ Disturb("clear")
  /\ content' = <<>>
  /\ oldest' = 1
  /\ disguised' = (disguised \/ last_pos # 0)
  /\ UNCHANGED <<path, half, used, shrunk>>

Owner == Write \/ Finish \/ Rotate \/ Reuse \/ Truncate \/ Remove \/ Wrap \/ Clear

-------------------------------------------------------------------------------
\* Mutant: a rotation is noticed, and the position kept.
PositionKept == IF path # inode THEN last_pos ELSE IF Size < last_pos THEN 0 ELSE last_pos

\* Mutant: a smaller size is nothing to notice.
PositionBySize == IF path # inode THEN 0 ELSE last_pos

\* A new inode is a rotation, a smaller size a truncation.
Position == IF path # inode \/ Size < last_pos THEN 0 ELSE last_pos

\* The file fell short of last_pos, and nothing that the check looks at shows it.
GrownBack == shrunk /\ path = inode /\ Size >= last_pos

Told == { matched[n] : n \in DOMAIN matched }

\* After a truncation the lines that are left are read, and reported, again.
Again ==
  IF path = inode /\ Size < last_pos
  THEN matched' = <<>> /\ before' = before \cup Told
  ELSE UNCHANGED <<matched, before>>

\* os.stat(): the watcher follows the file, and is done if nothing was added.
Stat ==
  /\ type = "file" /\ inode # Null
  /\ st = <<>> /\ path # Null
  /\ inode' = path
  /\ last_pos' = Position
  /\ st' = IF Size = Position THEN <<>> ELSE <<Size>>
  /\ Again
  /\ shrunk' = FALSE
  /\ disguised' = (disguised \/ GrownBack)
  /\ UNCHANGED <<capped, split, lost, raced>> /\ UNCHANGED file

\* OpenEventLog(), and last_seen.
OpenEvents ==
  /\ type = "eventlog"
  /\ st = <<>> /\ st' = <<last_pos>>
  /\ UNCHANGED <<inode, last_pos, raced, shrunk, disguised>>
  /\ UNCHANGED reports /\ UNCHANGED file

\* The end of the log: its size, or the number of its newest record.
Newest == IF type = "file" THEN Size ELSE oldest + Len(content) - 1

\* Mutant: the position is the one that the check started with.
TellSize == st[1]

\* f.tell() at the end, a seek past which stays there; the last last_seen.
Tell == IF Newest < last_pos THEN last_pos ELSE Newest

\* The lines that begin before the position, the records whose number it reaches.
Seen ==
  IF type = "file" THEN (last_pos + 1) \div 2
  ELSE IF last_pos < oldest THEN 0 ELSE last_pos - oldest + 1

\* Whatever is at the path by now, from the position on, but half lines.
New == SubSeq(content, Seen + 1, IF half THEN Len(content) - 1 ELSE Len(content))

\* The second half of a line is read without its first, as a line of its own.
RestRead == type = "file" /\ last_pos % 2 = 1 /\ Newest > last_pos

\* A result has the first `room` matches.
Report(lines, room) ==
  LET k == IF Len(lines) < room THEN Len(lines) ELSE room IN
    /\ matched' = matched \o SubSeq(lines, 1, k)
    /\ capped' = capped \cup { lines[n] : n \in k + 1 .. Len(lines) }

\* _match_lines(), _match_event_lines() and the result; a half line read before
\* the others takes a place if it matches.
Match ==
  /\ \E taken \in (IF RestRead THEN {0, 1} ELSE {0}) : Report(New, MatchCap - taken)
  /\ split' = IF half /\ Newest > last_pos THEN split \cup {content[Len(content)]} ELSE split
  /\ UNCHANGED <<before, lost>>

\* pattern.lower() raises on the way: check_logs() has an error to report, and
\* not what matched.
MatchRaises ==
  /\ BadPattern /\ Newest > last_pos
  /\ lost' = lost \cup { content[n] : n \in Seen + 1 .. Len(content) }
  /\ UNCHANGED <<matched, before, capped, split>>

\* Everything from the position on is read, and the position set, before matching.
ReadOn(kind) ==
  /\ type = kind
  /\ st # <<>> /\ path # Null
  /\ last_pos' = Tell
  /\ st' = <<>>
  /\ disguised' = (disguised \/ GrownBack)
  /\ UNCHANGED <<inode, raced, shrunk>> /\ UNCHANGED file

Read == ReadOn("file") /\ Match
ReadSpoilt == ReadOn("file") /\ MatchRaises

\* The loop over ReadEventLog().
ReadEvents == ReadOn("eventlog") /\ Match
EventsSpoilt == ReadOn("eventlog") /\ MatchRaises

\* Mutant: the watcher forgets a file that is gone.
ReadForgets ==
  /\ st # <<>> /\ path = Null
  /\ st' = <<>>
  /\ inode' = Null /\ last_pos' = 0
  /\ UNCHANGED <<raced, shrunk, disguised>> /\ UNCHANGED reports /\ UNCHANGED file

\* open() raises, or ReadEventLog(), perhaps after some records: check_logs()
\* has an error to report, and everything counts as unread.
ReadFails ==
  /\ st # <<>>
  /\ st' = <<>>
  /\ UNCHANGED <<inode, last_pos, raced, shrunk, disguised>>
  /\ UNCHANGED reports /\ UNCHANGED file

Reads == Read \/ ReadSpoilt \/ ReadEvents \/ EventsSpoilt

Check == Stat \/ OpenEvents \/ Reads \/ ReadFails

Next == Owner \/ Check

Spec == Init /\ [][Next]_vars

\* The main loop checks the logs again and again, and a log that is there can be
\* read now and then.
FairSpec == Spec /\ WF_vars(Check) /\ SF_vars(Reads)
-------------------------------------------------------------------------------
(* A line is reported once, unless the file was replaced, truncated or      *)
(* removed between a stat and its open: the read then starts at a position  *)
(* of another file, and the next check reads that file again.  Only a stat *)
(* that finds the file shorter than last_pos (log_monitor.py:215) lets     *)
(* the lines that are left be reported again, and once.  An event is       *)
(* reported once, whether reads and matches raise or not.                  *)
OnceUnlessRaced ==
  ~raced \/ type = "eventlog" => \A m, n \in DOMAIN matched : matched[m] = matched[n] => m = n

(* What became of the lines that a check has read: they were reported, or   *)
(* left out by the cap, or matched by halves, or went with a raised match.  *)
Reported == Told \cup before \cup capped \cup split \cup lost

Passed ==
  path = inode => \A n \in 1 .. Len(content) : n <= Seen => content[n] \in Reported

(* No line of the file that is watched is unread behind last_pos.  It is    *)
(* what "Detect rotation (new inode) vs truncation (same inode, smaller    *)
(* size)" (log_monitor.py:210) is for.  It holds for rotations, raced or   *)
(* not, for files cut to any size, and through checks that raise before    *)
(* they set the position or after.  Where a file fell short of last_pos it *)
(* fails until the next stat, and for good if the file has grown back to   *)
(* last_pos when it is looked at.  For an event log it holds until that is *)
(* cleared: nothing looks for record numbers that restart.                 *)
NothingSkipped == ~disguised /\ ~shrunk => Passed

(* When its owner lets go of it, every line of a file that was there when   *)
(* the agent started, or every event that is still retained, gets read,    *)
(* whatever raised before.                                                 *)
Tailed ==
  <>[](path # Null /\ inode # Null /\ ~disguised =>
         \A n \in 1 .. Len(content) : content[n] \in Reported)
===============================================================================
