------------------------------ MODULE LogStream ------------------------------
(***************************************************************************)
(* pulse logs (cli/src/logs.rs): the game runs as a child process whose    *)
(* standard output and error are pipes; two reader threads number their    *)
(* lines and send them to the main thread, which prints them; a watcher    *)
(* thread turns Ctrl-C into an orderly end.                                *)
(*                                                                         *)
(* A pipe is open as long as the game, or a process the game started,      *)
(* holds its end.  A line that is not UTF-8 ends its reader, and closes    *)
(* our end: the next write to it kills the game (SIGPIPE).  Polls that     *)
(* time out change nothing and are left out.                               *)
(***************************************************************************)
EXTENDS Naturals, Sequences, SequencesExt, SequenceFilter

CONSTANTS
  MaxLines,     \* bound: how many lines the game writes to a stream
  MayInherit    \* may a process started by the game inherit the pipes?

ASSUME LogStreamAssumption ==
  /\ MaxLines \in Nat
  /\ MayInherit \in BOOLEAN

Stream == {"stdout", "stderr"}

VARIABLES
  child,        \* the game: running, or how it ended
  holds,        \* the streams whose end the game holds
  inherited,    \* the streams whose end a process of the game holds
  written,      \* per stream, what the game wrote: text, or bytes that are not
  taken,        \* per stream, how many lines the reader has read
  reader,       \* per stream, what the reader does
  number,       \* per stream, the number of the line the reader is to send
  seq,          \* the next number
  channel,      \* the lines sent and not received
  printed,      \* the lines printed
  watcher,      \* the Ctrl-C watcher
  raw,          \* is the terminal in raw mode?
  interrupted,  \* set by the watcher
  watcherDone,  \* set by the main thread
  main,         \* what the main thread does
  outcome,      \* the StreamOutcome
  result        \* the LogsExit

game == <<child, holds, inherited, written>>
readers == <<taken, reader, number, seq>>
keys == <<watcher, raw, interrupted, watcherDone>>
mainThread == <<main, outcome, result>>
logsVars == <<game, readers, channel, printed, keys, mainThread>>

Line == [stream : Stream, n : 1 .. MaxLines, seq : 0 .. 2 * MaxLines]

LogStreamTypeOK ==
  /\ child \in {"running", "exited", "crashed"}
  /\ holds \subseteq Stream
  /\ inherited \subseteq Stream
  /\ written \in [Stream -> Seq({"text", "bytes"})]
  /\ taken \in [Stream -> 0 .. MaxLines]
  /\ reader \in [Stream -> {"reading", "sending", "ended"}]
  /\ number \in [Stream -> 0 .. 2 * MaxLines]
  /\ seq \in 0 .. 2 * MaxLines
  /\ channel \in Seq(Line)
  /\ printed \in Seq(Line)
  /\ watcher \in {"starting", "polling", "leaving", "ended"}
  /\ raw \in BOOLEAN
  /\ interrupted \in BOOLEAN
  /\ watcherDone \in BOOLEAN
  /\ main \in {"printing", "stopping", "killing", "joining", "waiting", "returned", "killed"}
  /\ outcome \in {"none", "Drained", "Interrupted"}
  /\ result \in {"none", "Normal", "Crashed", "Interrupted"}

LogsInit ==
  /\ child = "running"
  /\ holds = Stream
  /\ inherited \in IF MayInherit THEN SUBSET Stream ELSE {{}}
  /\ written = [s \in Stream |-> <<>>]
  /\ taken = [s \in Stream |-> 0]
  /\ reader = [s \in Stream |-> "reading"]
  /\ number = [s \in Stream |-> 0]
  /\ seq = 0
  /\ channel = <<>>
  /\ printed = <<>>
  /\ watcher = "starting"
  /\ raw = FALSE
  /\ interrupted = FALSE
  /\ watcherDone = FALSE
  /\ main = "printing"
  /\ outcome = "none"
  /\ result = "none"
-----------------------------------------------------------------------------
(* The game and what it started *)

Dies(how) ==
  /\ child' = how
  /\ holds' = {}

WriteLine(s) ==
  /\ child = "running"
  /\ s \in holds
  /\ Len(written[s]) < MaxLines
  /\ IF reader[s] = "ended"
     THEN Dies("crashed") /\ UNCHANGED written
     ELSE /\ \E l \in {"text", "bytes"} : written' = [written EXCEPT ![s] = Append(@, l)]
          /\ UNCHANGED <<child, holds>>
  /\ UNCHANGED <<inherited, readers, channel, printed, keys, mainThread>>

CloseStream(s) ==
  /\ child = "running"
  /\ holds' = holds \ {s}
  /\ UNCHANGED <<child, inherited, written, readers, channel, printed, keys, mainThread>>

EndGame ==
  /\ child = "running"
  /\ \E how \in {"exited", "crashed"} : Dies(how)
  /\ UNCHANGED <<inherited, written, readers, channel, printed, keys, mainThread>>

ReleasePipe(s) ==
  /\ s \in inherited
  /\ inherited' = inherited \ {s}
  /\ UNCHANGED <<child, holds, written, readers, channel, printed, keys, mainThread>>
-----------------------------------------------------------------------------
(* The readers: a line is read and numbered, and then sent *)

Unread(s) == taken[s] < Len(written[s])

IsClosed(s) == s \notin holds \cup inherited

ReadLine(s) ==
  /\ reader[s] = "reading"
  /\ Unread(s)
  /\ written[s][taken[s] + 1] = "text"
  /\ taken' = [taken EXCEPT ![s] = @ + 1]
  /\ number' = [number EXCEPT ![s] = seq]
  /\ seq' = seq + 1
  /\ reader' = [reader EXCEPT ![s] = "sending"]
  /\ UNCHANGED <<game, channel, printed, keys, mainThread>>

SendLine(s) ==
  /\ reader[s] = "sending"
  /\ channel' = Append(channel, [stream |-> s, n |-> taken[s], seq |-> number[s]])
  /\ reader' = [reader EXCEPT ![s] = "reading"]
  /\ UNCHANGED <<game, taken, number, seq, printed, keys, mainThread>>

EofIgnoringLines(s) == IsClosed(s)   \* slip: lines in the pipe are not waited for

AtEnd(s) ==
  IF Unread(s) THEN written[s][taken[s] + 1] = "bytes" ELSE IsClosed(s)

EndReader(s) ==
  /\ reader[s] = "reading"
  /\ AtEnd(s)
  /\ reader' = [reader EXCEPT ![s] = "ended"]
  /\ UNCHANGED <<game, taken, number, seq, channel, printed, keys, mainThread>>
-----------------------------------------------------------------------------
(* The watcher, which ends where there is no terminal to put in raw mode; *)
(* without raw mode Ctrl-C is a signal to the whole group, and in raw mode *)
(* a key that nobody polls for any more.  That raw mode cannot be left     *)
(* again is left out.                                                      *)

StartWatcher ==
  /\ watcher = "starting"
  /\ raw' \in BOOLEAN
  /\ watcher' = IF raw' THEN "polling" ELSE "ended"
  /\ UNCHANGED <<game, readers, channel, printed, interrupted, watcherDone, mainThread>>

StopWatcher ==
  /\ watcher = "polling"
  /\ watcherDone
  /\ watcher' = "leaving"
  /\ UNCHANGED <<game, readers, channel, printed, raw, interrupted, watcherDone, mainThread>>

PollFails ==
  /\ watcher = "polling"
  /\ watcher' = "leaving"
  /\ UNCHANGED <<game, readers, channel, printed, raw, interrupted, watcherDone, mainThread>>

LeaveRawMode ==
  /\ watcher = "leaving"
  /\ watcher' = "ended"
  /\ raw' = FALSE
  /\ UNCHANGED <<game, readers, channel, printed, interrupted, watcherDone, mainThread>>

PressCtrlC ==
  /\ main \notin {"returned", "killed"}
  /\ \/ /\ watcher = "polling"
        /\ interrupted' = TRUE
        /\ watcher' = "leaving"
        /\ UNCHANGED <<child, holds, main>>
     \/ /\ ~raw
        /\ IF child = "running" THEN Dies("crashed") ELSE UNCHANGED <<child, holds>>
        /\ main' = "killed"
        /\ UNCHANGED <<watcher, interrupted>>
  /\ UNCHANGED <<inherited, written, readers, channel, printed, raw, watcherDone, outcome, result>>
-----------------------------------------------------------------------------
(* The main thread *)

BreakSilently(o) ==   \* slip: the watcher is not told
  /\ main' = "stopping"
  /\ outcome' = o
  /\ watcherDone' = watcherDone

Break(o) ==
  /\ main' = "stopping"
  /\ outcome' = o
  /\ watcherDone' = TRUE

SeeInterrupt ==
  /\ main = "printing"
  /\ interrupted
  /\ Break("Interrupted")
  /\ UNCHANGED <<game, readers, channel, printed, watcher, raw, interrupted, result>>

(* The flag may be set between the look at it and the reception. *)
PrintLine ==
  /\ main = "printing"
  /\ channel # <<>>
  /\ channel' = Tail(channel)
  /\ printed' = Append(printed, Head(channel))
  /\ UNCHANGED <<game, readers, keys, mainThread>>

PrintFails ==
  /\ main = "printing"
  /\ channel # <<>>
  /\ channel' = Tail(channel)
  /\ Break("Interrupted")
  /\ UNCHANGED <<game, readers, printed, watcher, raw, interrupted, result>>

(* The channel is closed when both readers have dropped their senders. *)
Disconnected == channel = <<>> /\ \A s \in Stream : reader[s] = "ended"

SeeDisconnect ==
  /\ main = "printing"
  /\ Disconnected
  /\ Break("Drained")
  /\ UNCHANGED <<game, readers, channel, printed, watcher, raw, interrupted, result>>

GoOnAtOnce ==   \* slip: the watcher is not waited for
  /\ main = "stopping"
  /\ main' = IF outcome = "Interrupted" THEN "killing" ELSE "joining"
  /\ UNCHANGED <<game, readers, channel, printed, keys, outcome, result>>

JoinWatcher ==
  /\ main = "stopping"
  /\ watcher = "ended"
  /\ main' = IF outcome = "Interrupted" THEN "killing" ELSE "joining"
  /\ UNCHANGED <<game, readers, channel, printed, keys, outcome, result>>

(* Kills the game, if it still runs, and waits for it. *)
KillChild ==
  /\ main = "killing"
  /\ IF child = "running" THEN Dies("crashed") ELSE UNCHANGED <<child, holds>>
  /\ main' = "joining"
  /\ UNCHANGED <<inherited, written, readers, channel, printed, keys, outcome, result>>

JoinReaders ==
  /\ main = "joining"
  /\ \A s \in Stream : reader[s] = "ended"
  /\ IF outcome = "Interrupted"
     THEN main' = "returned" /\ result' = "Interrupted"
     ELSE main' = "waiting" /\ UNCHANGED result
  /\ UNCHANGED <<game, readers, channel, printed, keys, outcome>>

ClassifyExit(c) == IF c = "exited" THEN "Normal" ELSE "Crashed"

WaitChild ==
  /\ main = "waiting"
  /\ child # "running"
  /\ main' = "returned"
  /\ result' = ClassifyExit(child)
  /\ UNCHANGED <<game, readers, channel, printed, keys, outcome>>

ReaderStep(s) == ReadLine(s) \/ SendLine(s) \/ EndReader(s)
WatcherStep == StartWatcher \/ StopWatcher \/ LeaveRawMode
MainStep ==
  \/ SeeInterrupt \/ PrintLine \/ PrintFails \/ SeeDisconnect
  \/ JoinWatcher \/ KillChild \/ JoinReaders \/ WaitChild

Over ==
  /\ main \in {"returned", "killed"}
  /\ UNCHANGED logsVars

LogsNext ==
  \/ \E s \in Stream : WriteLine(s) \/ CloseStream(s) \/ ReleasePipe(s) \/ ReaderStep(s)
  \/ EndGame \/ PressCtrlC \/ PollFails \/ WatcherStep \/ MainStep
  \/ Over

(* The threads are scheduled; nothing is asked of the game or the user.  A *)
(* loop looks at the flag before each reception.                           *)
LogsSpec ==
  /\ LogsInit /\ [][LogsNext]_logsVars
  /\ \A s \in Stream : WF_logsVars(ReaderStep(s))
  /\ WF_logsVars(WatcherStep) /\ WF_logsVars(MainStep) /\ WF_logsVars(SeeInterrupt)
-----------------------------------------------------------------------------
(* multiplex: two numbered streams merged by number, a line at a time; *)
(* when one is used up, what is left of the other follows.              *)
Multiplex(a, b) ==
  LET step[k \in 0 .. Len(a) + Len(b)] ==
        IF k = 0 THEN [i |-> 1, j |-> 1, merged |-> <<>>]
        ELSE LET m == step[k - 1]
             IN  IF m.j > Len(b) \/ (m.i <= Len(a) /\ a[m.i].seq <= b[m.j].seq)
                 THEN [i |-> m.i + 1, j |-> m.j, merged |-> Append(m.merged, a[m.i])]
                 ELSE [i |-> m.i, j |-> m.j + 1, merged |-> Append(m.merged, b[m.j])]
  IN  step[Len(a) + Len(b)].merged

OfStream(s) == {l \in Line : l.stream = s}

LinesOf(s, lines) == Kept(lines, OfStream(s))
-----------------------------------------------------------------------------
(* Properties *)

(* The lines of each stream are printed in the order the game wrote them,  *)
(* none twice and none left out before a later one (Req 2.2), whatever the *)
(* readers do between numbering a line and sending it.                     *)
PrintsEachStreamInOrder ==
  \A s \in Stream : LET own == LinesOf(s, printed)
                    IN  \A i \in DOMAIN own : own[i].n = i

TextBeforeBytes(s) ==
  IF Contains(written[s], "bytes")
  THEN (CHOOSE n \in DOMAIN written[s] :
          written[s][n] = "bytes" /\ \A m \in 1 .. n - 1 : written[s][m] = "text") - 1
  ELSE Len(written[s])

(* When the stream has drained everything that could be read is printed:   *)
(* the lines left in the pipes and in the channel when the game ended too  *)
(* (Req 2.3, 2.4).                                                         *)
DrainedIsComplete ==
  outcome = "Drained" =>
    \A s \in Stream : Len(LinesOf(s, printed)) = TextBeforeBytes(s)

(* The command never returns with the game running, a reader alive or the  *)
(* terminal in raw mode (Req 2.6), whichever thread came first; and it     *)
(* blames the game only for an end of its own.                             *)
LeavesNothingBehind ==
  main = "returned" =>
    /\ child # "running" /\ ~raw /\ watcher = "ended"
    /\ \A s \in Stream : reader[s] = "ended"
    /\ result = "Interrupted" <=> outcome = "Interrupted"
    /\ result = "Normal" => child = "exited"

(* multiplex loses no line and keeps each stream's order, and sorts by     *)
(* number, on the lines of any run.                                        *)
MultiplexMerges ==
  LET own(s) == LinesOf(s, printed)
      merged == Multiplex(own("stdout"), own("stderr"))
  IN  /\ \A s \in Stream : LinesOf(s, merged) = own(s)
      /\ \A i \in 1 .. Len(merged) - 1 : merged[i].seq < merged[i + 1].seq

(* What is printed is what was written, stream by stream, to the last line *)
(* that could be read, and multiplex would merge it to the same.           *)
PrintsWhatWasWritten ==
  LogStreamTypeOK /\ PrintsEachStreamInOrder /\ DrainedIsComplete /\ MultiplexMerges

Ended == main \in {"returned", "killed"}

(* After the game has ended, and after Ctrl-C, the command ends, when no   *)
(* process of the game keeps a pipe open; a Ctrl-C is lost only on a game  *)
(* that has closed its streams and runs on.                                *)
EndsWithTheGame ==
  /\ (child # "running" /\ inherited = {}) ~> Ended
  /\ (interrupted /\ inherited = {}) ~> Ended \/ outcome = "Drained"
=============================================================================
