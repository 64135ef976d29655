---------------------------- MODULE AccessLogger ----------------------------
(***************************************************************************)
(* The access log: AccessLogger of logging/logger.go and the handler of    *)
(* SIGUSR1 of logging/reopen.go.                                           *)
(*                                                                         *)
(* A line is two pieces, its text and its newline, because the buffer of   *)
(* bufio is written out whenever it is full, in the middle of a line if    *)
(* need be.  Every method holds the mutex throughout, so each is one step. *)
(* The log file is known by a number: another one after every rotation.    *)
(***************************************************************************)
EXTENDS Integers, Sequences

CONSTANTS
  Requests,     \* those that write a line
  BufSize,      \* pieces the buffer of bufio holds
  MaxFiles,     \* bound on the log files there have been
  MaxFaults     \* bound on the writes and opens that fail

ASSUME LoggerAssumption ==
  /\ BufSize \in Nat /\ BufSize >= 2
  /\ MaxFiles \in Nat \ {0} /\ MaxFaults \in Nat

VARIABLES
  handed,   \* history: the pieces of all lines handed to Write, in order
  out,      \* the pieces on disk, in the order they were written
  cuts,     \* history: the lengths of out at which another file was opened
  buf,      \* the pieces in the buffer
  err,      \* the error bufio keeps: nothing is written after it
  fd,       \* the file the logger writes to, 0 if it is closed
  here,     \* the file at log.path, 0 if there is none
  files,    \* how many there have been
  moved,    \* logrotate has moved the file and not yet sent its signal
  signal,   \* the channel of SIGUSR1, which holds one, has it
  handler,  \* the goroutine of SetupLogReopen: "waits", "taken" or "reopened"
  ticking,  \* the goroutine of autoFlush runs
  closed,   \* Close has been called
  faults    \* writes and opens that have failed

logVars == <<handed, out, cuts, buf, err, fd, here, files, moved, signal, handler,
             ticking, closed, faults>>
disk    == <<cuts, fd, here, files, moved>>
routines == <<signal, handler, ticking, closed>>

Piece   == Requests \X {"text", "newline"}
Line(r) == << <<r, "text">>, <<r, "newline">> >>

\* NewAccessLogger and SetupLogReopen.
LoggerInit ==
  /\ handed = << >> /\ out = << >> /\ cuts = {} /\ buf = << >> /\ err = FALSE
  /\ fd = 1 /\ here = 1 /\ files = 1 /\ moved = FALSE
  /\ signal = FALSE /\ handler = "waits" /\ ticking = TRUE /\ closed = FALSE /\ faults = 0

(***************************************************************************)
(* bufio writes `full` to the file, and `rest` stays in the buffer.  A     *)
(* failing write may have written some of it; writing to a closed file     *)
(* fails at once.  bufio keeps the error.                                  *)
(***************************************************************************)
Written(full, rest) ==
  /\ fd # 0 /\ out' = out \o full
  /\ buf' = rest /\ err' = FALSE /\ UNCHANGED faults

WriteFails(full) ==
  /\ err' = TRUE
  /\ \E n \in 0..(Len(full) - 1) :
       /\ out' = out \o SubSeq(full, 1, n)
       /\ buf' = SubSeq(full, n + 1, Len(full))
       /\ fd = 0 => n = 0
  /\ IF fd = 0 THEN UNCHANGED faults ELSE faults < MaxFaults /\ faults' = faults + 1

\* Write: an error stays unseen, and a full buffer is written out.
AnySize(pieces) == TRUE      \* mutant: the buffer grows
Fits(pieces)    == Len(pieces) <= BufSize

WriteLine(r) ==
  LET all == buf \o Line(r) IN
  /\ handed' = handed \o Line(r)
  /\ \/ err /\ UNCHANGED <<out, buf, err, faults>>
     \/ ~ err /\ Fits(all) /\ buf' = all /\ UNCHANGED <<out, err, faults>>
     \/ /\ ~ err /\ ~ Fits(all)
        /\ \/ Written(SubSeq(all, 1, BufSize), SubSeq(all, BufSize + 1, Len(all)))
           \/ WriteFails(SubSeq(all, 1, BufSize))
  /\ UNCHANGED <<disk, routines>>

\* autoFlush: once a second, until `done` is closed.
WhenHalfFull == 2 * Len(buf) > BufSize      \* mutant: a flush only if it is worth it
WhenAnything == buf # << >>

AutoFlush ==
  /\ ticking /\ WhenAnything /\ ~ err
  /\ Written(buf, << >>) \/ WriteFails(buf)
  /\ UNCHANGED <<handed, disk, routines>>

\* select may take a tick that is due before it sees that `done` is closed.
TickerEnds ==
  /\ closed /\ ticking /\ ticking' = FALSE
  /\ UNCHANGED <<handed, out, buf, err, disk, signal, handler, closed, faults>>

(***************************************************************************)
(* Reopen: it flushes, closes the file and opens the path again.  It ends  *)
(* without another file if an earlier or this flush failed, or if the file *)
(* is closed already; if the open fails, it leaves the closed file behind. *)
(***************************************************************************)
Discards   == out' = out /\ buf' = << >>        \* mutant: a new buffer, no flush
KeepsOver  == out' = out /\ buf' = buf          \* mutant: the buffer goes to the next file
FlushFirst == out' = out \o buf /\ buf' = << >>

FileAtPath == IF here # 0 THEN here ELSE files + 1

Opened ==
  /\ FileAtPath <= MaxFiles
  /\ fd' = FileAtPath /\ here' = FileAtPath
  /\ files' = IF here # 0 THEN files ELSE files + 1
  /\ cuts' = cuts \cup {Len(out')} /\ UNCHANGED faults

NotOpened ==
  /\ faults < MaxFaults /\ faults' = faults + 1
  /\ fd' = 0 /\ UNCHANGED <<here, files, cuts>>

ReopenFile ==
  \/ err /\ UNCHANGED <<out, buf, err, fd, here, files, cuts, faults>>
  \/ ~ err /\ buf # << >> /\ WriteFails(buf) /\ UNCHANGED <<fd, here, files, cuts>>
  \/ ~ err /\ buf = << >> /\ fd = 0 /\ UNCHANGED <<out, buf, err, fd, here, files, cuts, faults>>
  \/ ~ err /\ fd # 0 /\ FlushFirst /\ UNCHANGED err /\ (Opened \/ NotOpened)

TakeSignal ==
  /\ handler = "waits" /\ signal
  /\ handler' = "taken" /\ signal' = FALSE
  /\ UNCHANGED <<handed, out, buf, err, disk, ticking, closed, faults>>

Reopen ==
  /\ handler = "taken" /\ handler' = "reopened"
  /\ ReopenFile
  /\ UNCHANGED <<handed, moved, signal, ticking, closed>>

\* The result is logged, and the goroutine waits for the next signal.
HandlerReturns ==
  /\ handler = "reopened" /\ handler' = "waits"
  /\ UNCHANGED <<handed, out, buf, err, disk, signal, ticking, closed, faults>>

\* A second signal before the first is taken is the same as one.
Dropped  == handler = "waits"     \* mutant: the channel has no buffer
Notified == TRUE

SIGUSR1 == signal' = Notified

\* logrotate moves the file away, and may create an empty one for it; then it signals.
Rotate ==
  /\ here # 0 /\ ~ moved /\ moved' = TRUE
  /\ \/ here' = 0 /\ UNCHANGED files
     \/ files < MaxFiles /\ files' = files + 1 /\ here' = files + 1
  /\ UNCHANGED <<handed, out, cuts, buf, err, fd, routines, faults>>

SendSignal ==
  /\ moved /\ moved' = FALSE /\ SIGUSR1
  /\ UNCHANGED <<handed, out, buf, err, cuts, fd, here, files, handler, ticking, closed, faults>>

\* `systemctl reload` sends it too.
Reload ==
  /\ ~ signal /\ SIGUSR1
  /\ UNCHANGED <<handed, out, buf, err, disk, handler, ticking, closed, faults>>

\* Close: done, a flush, and the file is closed whatever came of the flush.
Close ==
  /\ ~ closed /\ closed' = TRUE /\ fd' = 0
  /\ \/ err /\ UNCHANGED <<out, buf, err, faults>>
     \/ ~ err /\ buf = << >> /\ UNCHANGED <<out, buf, err, faults>>
     \/ ~ err /\ buf # << >> /\ (Written(buf, << >>) \/ WriteFails(buf))
  /\ UNCHANGED <<handed, cuts, here, files, moved, signal, handler, ticking>>

LoggerStep ==
  \/ AutoFlush \/ TickerEnds \/ TakeSignal \/ Reopen \/ HandlerReturns
  \/ Rotate \/ SendSignal \/ Reload

LoggerTypeOK ==
  /\ handed \in Seq(Piece) /\ out \in Seq(Piece) /\ buf \in Seq(Piece)
  /\ Len(buf) <= BufSize /\ cuts \subseteq 0..Len(out)
  /\ err \in BOOLEAN /\ fd \in 0..files /\ here \in 0..files
  /\ files \in 1..MaxFiles /\ moved \in BOOLEAN /\ signal \in BOOLEAN
  /\ handler \in {"waits", "taken", "reopened"}
  /\ ticking \in BOOLEAN /\ closed \in BOOLEAN /\ faults \in 0..MaxFaults
-----------------------------------------------------------------------------
(***************************************************************************)
(* Properties, of ServeProcess, which gives the logger its lines.          *)
(***************************************************************************)
\* The files, read one after the other, are a beginning of what was logged: no line is
\* missing before one that is there, none is mixed with another, whatever rotations,
\* failing writes and shutdowns do.
Prefix == Len(out) <= Len(handed) /\ SubSeq(handed, 1, Len(out)) = out

\* Rotation cuts the log between lines only, though a full buffer is written out anywhere.
WholeLines == \A n \in cuts : n % 2 = 0

\* The logger does not go on writing to a file that has been moved away, however signals
\* and rotations fall together: unless it has failed or was closed, it writes to the file
\* at log.path or has yet to follow a signal.
RotationFollowed ==
  err \/ fd = 0 \/ fd = here \/ moved \/ signal \/ handler = "taken"
=============================================================================
