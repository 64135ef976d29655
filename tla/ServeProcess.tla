---------------------------- MODULE ServeProcess ----------------------------
(***************************************************************************)
(* The life of the server process: runServe of cmd/serve.go, Run and       *)
(* loggingMiddleware of server/server.go, around the handlers (which are   *)
(* those of IndexServing; here a handler is only begun and done) and the   *)
(* access log.                                                             *)
(***************************************************************************)
EXTENDS AccessLogger

VARIABLES
  phase,    \* where the main goroutine is
  how,      \* why the server stopped to wait for handlers
  req       \* [Requests -> "none", "handled", "answered" or "logged"]

vars == <<handed, out, cuts, buf, err, fd, here, files, moved, signal, handler, ticking,
          closed, faults, phase, how, req>>

Phases == {"serving", "draining", "returned", "closed", "exited"}
Ends   == {"not yet", "drained", "timed out", "listener failed", "killed"}

Init ==
  /\ LoggerInit
  /\ phase = "serving" /\ how = "not yet" /\ req = [r \in Requests |-> "none"]

Running == phase # "exited"

(***************************************************************************)
(* Requests, each in a goroutine of its own, which nothing stops but the   *)
(* end of the process.                                                     *)
(***************************************************************************)
Accept(r) ==
  /\ phase = "serving" /\ req[r] = "none"
  /\ req' = [req EXCEPT ![r] = "handled"]
  /\ UNCHANGED <<logVars, phase, how>>

Answer(r) ==
  /\ Running /\ req[r] = "handled"
  /\ req' = [req EXCEPT ![r] = "answered"]
  /\ UNCHANGED <<logVars, phase, how>>

\* loggingMiddleware writes the line once the handler has returned.
Log(r) ==
  /\ Running /\ req[r] = "answered"
  /\ req' = [req EXCEPT ![r] = "logged"]
  /\ WriteLine(r)
  /\ UNCHANGED <<phase, how>>

(***************************************************************************)
(* The main goroutine.                                                     *)
(***************************************************************************)
\* SIGINT or SIGTERM: the listener is closed and Shutdown waits for the handlers.
Terminate ==
  /\ phase = "serving" /\ phase' = "draining"
  /\ UNCHANGED <<logVars, how, req>>

AnsweredOnly == \A r \in Requests : req[r] # "handled"   \* mutant: the log line is not waited for
AllReturned  == \A r \in Requests : req[r] \in {"none", "logged"}

Drained ==
  /\ phase = "draining" /\ AllReturned
  /\ phase' = "returned" /\ how' = "drained"
  /\ UNCHANGED <<logVars, req>>

\* Shutdown has waited for 10 seconds.
NoTimer    == FALSE      \* mutant: Shutdown gets the background context
GraceEnds  == phase = "draining"

Expire ==
  /\ GraceEnds
  /\ phase' = "returned" /\ how' = "timed out"
  /\ UNCHANGED <<logVars, req>>

\* ListenAndServe returns an error: Run returns and does not wait for any handler.
ListenerFails ==
  /\ phase = "serving"
  /\ phase' = "returned" /\ how' = "listener failed"
  /\ UNCHANGED <<logVars, req>>

\* The deferred calls of runServe: the log is closed, then the database.
CloseLog ==
  /\ phase = "returned" /\ phase' = "closed"
  /\ Close
  /\ UNCHANGED <<how, req>>

Exit ==
  /\ phase = "closed" /\ phase' = "exited"
  /\ UNCHANGED <<logVars, how, req>>

\* 30 seconds after the signal: os.Exit, whatever the deferred calls still wait for.
KillSelf ==
  /\ phase \in {"returned", "closed"} /\ how # "listener failed"
  /\ phase' = "exited" /\ how' = "killed"
  /\ UNCHANGED <<logVars, req>>

Stopping == Drained \/ Expire \/ CloseLog \/ Exit

Next ==
  \/ \E r \in Requests : Accept(r) \/ Answer(r) \/ Log(r)
  \/ Running /\ LoggerStep /\ UNCHANGED <<phase, how, req>>
  \/ Terminate \/ ListenerFails \/ KillSelf \/ Stopping

Spec == Init /\ [][Next]_vars

FlushStep == Running /\ AutoFlush /\ UNCHANGED <<phase, how, req>>

\* The timers and the deferred calls; no handler need ever return.
FairSpec == Spec /\ WF_vars(FlushStep) /\ WF_vars(Stopping)
-----------------------------------------------------------------------------
(***************************************************************************)
(* Properties.                                                             *)
(***************************************************************************)
TypeOK ==
  /\ LoggerTypeOK
  /\ phase \in Phases /\ how \in Ends
  /\ req \in [Requests -> {"none", "handled", "answered", "logged"}]

\* A process that was told to stop, and whose handlers were done within the 10 seconds, has
\* answered every request it accepted and left its line in the log, whatever rotations went
\* on, unless the log file failed.
CleanExit ==
  phase = "exited" /\ how = "drained" /\ faults = 0 =>
    /\ \A r \in Requests : req[r] \in {"none", "logged"}
    /\ \A r \in Requests : req[r] = "logged" => \E i \in 1..Len(out) : out[i] = <<r, "newline">>

\* A line that is handed over while the log is open reaches the disk, without waiting for
\* the buffer to fill up, unless the log file fails or the process is killed.
LinesReachDisk ==
  \A r \in Requests :
    req[r] = "logged" /\ ~ closed ~>
      \/ \E i \in 1..Len(out) : out[i] = <<r, "newline">>
      \/ faults > 0 \/ how = "killed"

\* A process that is told to stop does so, though handlers hang.
Stops == phase = "draining" ~> phase = "exited"
=============================================================================
