---------------------------- MODULE VoteRecorder ----------------------------
(***************************************************************************)
(* Votes: the requests for package files that the server counts, from the  *)
(* handler (server/handler_packages.go) through the channel and its        *)
(* workers (server/server.go) into the table votes (db/votes.go), and the  *)
(* two statements of the sync process that read and prune the table.       *)
(*                                                                         *)
(* Time is in seconds, as in the table.  A worker reads the clock twice    *)
(* and then talks to the database twice, and the clock, the other workers, *)
(* the sync process and a shutdown come in between.                        *)
(***************************************************************************)
EXTENDS Integers, FiniteSets, Sequences

CONSTANTS
  Files,        \* package files
  Clients,      \* client addresses whose User-Agent is not one of botUAs
  Prefixes,     \* networks: a /24 of IPv4 or a /48 of IPv6
  Blank,        \* what computeIPPrefix gives for no address
  Prefix,       \* [Clients -> Prefixes \cup {Blank}]: computeIPPrefix
  Workers,      \* one per GOMAXPROCS
  Capacity,     \* of voteCh: 1000
  DedupWindow,  \* cache.dedup_window
  VoteWindow,   \* cache.vote_window
  MinVotes,     \* cache.min_vote_count
  MaxSkew,      \* bound on the seconds between the two time.Now() of RecordVote
  MaxTime,      \* bound on the clock
  MaxRequests,  \* bound on the requests
  MaxFaults     \* bound on failed statements and shutdowns

ASSUME VoteAssumption ==
  /\ Blank \notin Prefixes /\ Prefix \in [Clients -> Prefixes \cup {Blank}]
  /\ IsFiniteSet(Workers) /\ Capacity \in Nat \ {0} /\ MinVotes \in Nat
  /\ DedupWindow \in Nat /\ VoteWindow \in Nat /\ MaxSkew \in Nat
  /\ MaxTime \in Nat /\ MaxRequests \in Nat /\ MaxFaults \in Nat

VARIABLES
  now,       \* the clock
  up,        \* "up", or "down": the server process
  voteCh,    \* the channel: a sequence of requests
  worker,    \* [Workers -> where it is, and the locals of RecordVote]
  votes,     \* table votes: a set of rows, which are their own primary key
  popular,   \* what QueryPopular last returned
  requests,  \* how many there were
  faults

vars == <<now, up, voteCh, worker, votes, popular, requests, faults>>

Row     == [file : Files, prefix : Prefixes, at : 0..MaxTime]
Request == [file : Files, client : Clients]

\* A worker that waits for a request has no locals.
Idle    == [step |-> "idle"]
\* "taken": RecordVote is called.  "stamped": now is read.  "select": cutoff is read.
\* "insert": the count was 0.
Taken   == [step : {"taken"}, file : Files, prefix : Prefixes]
Stamped == [step : {"stamped"}, file : Files, prefix : Prefixes, at : 0..MaxTime]
Later   == [step : {"select", "insert"}, file : Files, prefix : Prefixes, at : 0..MaxTime,
            cutoff : Int]

NoFault == UNCHANGED faults
Fault   == faults < MaxFaults /\ faults' = faults + 1

Init ==
  /\ now = 0 /\ up = "up" /\ voteCh = <<>> /\ votes = {} /\ popular = {}
  /\ worker = [w \in Workers |-> Idle]
  /\ requests = 0 /\ faults = 0

(***************************************************************************)
(* ServePackages never waits for the channel: a full one drops the vote.   *)
(* The address goes in as it is.                                           *)
(***************************************************************************)
RoomForOneMore == Len(voteCh) <= Capacity   \* mutant: off by one
Room == Len(voteCh) < Capacity

Serve(c, f) ==
  /\ up = "up" /\ requests < MaxRequests
  /\ requests' = requests + 1
  /\ voteCh' = IF Room THEN Append(voteCh, [file |-> f, client |-> c]) ELSE voteCh
  /\ UNCHANGED <<now, up, worker, votes, popular, faults>>

(***************************************************************************)
(* A worker of Server.Run.  A request without a prefix is passed over.     *)
(***************************************************************************)
At(w, step) == up = "up" /\ worker[w].step = step

Exited == [step |-> "exited"]   \* mutant: a blank prefix ends the worker (return for continue)
ExitsIfBlank(r) ==
  IF Prefix[r.client] = Blank THEN Exited
  ELSE [step |-> "taken", file |-> r.file, prefix |-> Prefix[r.client]]

Accept(r) ==
  IF Prefix[r.client] = Blank THEN Idle
  ELSE [step |-> "taken", file |-> r.file, prefix |-> Prefix[r.client]]

Take(w) ==
  /\ At(w, "idle") /\ voteCh # <<>>
  /\ worker' = [worker EXCEPT ![w] = Accept(Head(voteCh))]
  /\ voteCh' = Tail(voteCh)
  /\ UNCHANGED <<now, up, votes, popular, requests, faults>>

\* RecordVote, its four steps.
Stamp(w) ==
  /\ At(w, "taken")
  /\ worker' = [worker EXCEPT ![w] =
       [step |-> "stamped", file |-> @.file, prefix |-> @.prefix, at |-> now]]
  /\ UNCHANGED <<now, up, voteCh, votes, popular, requests, faults>>

Cutoff(w) ==
  /\ At(w, "stamped")
  /\ worker' = [worker EXCEPT ![w] =
       [step |-> "select", file |-> @.file, prefix |-> @.prefix, at |-> @.at,
        cutoff |-> now - DedupWindow]]
  /\ UNCHANGED <<now, up, voteCh, votes, popular, requests, faults>>

\* The rows the SELECT counts.
CountedBefore(v) ==   \* mutant: < for >
  {r \in votes : r.file = v.file /\ r.prefix = v.prefix /\ r.at < v.cutoff}
Counted(v) ==
  {r \in votes : r.file = v.file /\ r.prefix = v.prefix /\ r.at > v.cutoff}

Select(w) ==
  /\ At(w, "select")
  /\ \/ Counted(worker[w]) = {} /\ NoFault
        /\ worker' = [worker EXCEPT ![w].step = "insert"]
     \/ Counted(worker[w]) # {} /\ NoFault /\ worker' = [worker EXCEPT ![w] = Idle]
     \/ Fault /\ worker' = [worker EXCEPT ![w] = Idle]
  /\ UNCHANGED <<now, up, voteCh, votes, popular, requests>>

\* The row of an insert.  One that is there already fails on the primary key.
RowOf(v) == [file |-> v.file, prefix |-> v.prefix, at |-> v.at]

Insert(w) ==
  /\ At(w, "insert")
  /\ \/ votes' = votes \cup {RowOf(worker[w])} /\ NoFault
     \/ UNCHANGED votes /\ Fault
  /\ worker' = [worker EXCEPT ![w] = Idle]
  /\ UNCHANGED <<now, up, voteCh, popular, requests>>

Work(w) == Take(w) \/ Stamp(w) \/ Cutoff(w) \/ Select(w) \/ Insert(w)

(***************************************************************************)
(* The sync process: QueryPopular in phase B, DeleteOldVotes in phase E.   *)
(***************************************************************************)
Since(f) == {r \in votes : r.file = f /\ r.at >= now - VoteWindow}

QueryPopular ==
  /\ popular' = {f \in Files : Since(f) # {} /\ Cardinality(Since(f)) >= MinVotes}
  /\ UNCHANGED <<now, up, voteCh, worker, votes, requests, faults>>

DeleteOldVotes ==
  /\ votes' = {r \in votes : r.at >= now - VoteWindow}
  /\ UNCHANGED <<now, up, voteCh, worker, popular, requests, faults>>

(***************************************************************************)
(* Run returns when the HTTP server has shut down, and the process ends    *)
(* with what is in the channel and in the workers: an INSERT that was sent *)
(* may still be done.                                                      *)
(***************************************************************************)
Stop ==
  /\ up = "up" /\ Fault
  /\ up' = "down" /\ voteCh' = <<>> /\ worker' = [w \in Workers |-> Idle]
  /\ \E sent \in SUBSET {w \in Workers : worker[w].step = "insert"} :
       votes' = votes \cup {RowOf(worker[w]) : w \in sent}
  /\ UNCHANGED <<now, popular, requests>>

Restart ==
  /\ up = "down" /\ up' = "up"
  /\ UNCHANGED <<now, voteCh, worker, votes, popular, requests, faults>>

\* A worker is not held up for more than MaxSkew between the two clock readings.
Tick ==
  /\ now < MaxTime
  /\ \A w \in Workers : worker[w].step = "stamped" => now - worker[w].at < MaxSkew
  /\ now' = now + 1
  /\ UNCHANGED <<up, voteCh, worker, votes, popular, requests, faults>>

Next ==
  \/ \E c \in Clients, f \in Files : Serve(c, f)
  \/ \E w \in Workers : Work(w)
  \/ QueryPopular \/ DeleteOldVotes \/ Stop \/ Restart \/ Tick

Spec == Init /\ [][Next]_vars

\* The Go scheduler runs every worker that can go on, and the database answers.
FairSpec == Spec /\ \A w \in Workers : WF_vars(Work(w))

-----------------------------------------------------------------------------
TypeOK ==
  /\ now \in 0..MaxTime /\ up \in {"up", "down"}
  /\ voteCh \in Seq(Request) /\ Len(voteCh) <= Capacity
  /\ worker \in [Workers -> {Idle} \cup Taken \cup Stamped \cup Later]
  /\ votes \subseteq Row /\ popular \subseteq Files
  /\ requests \in 0..MaxRequests /\ faults \in 0..MaxFaults

SamePair(r, s) == r.file = s.file /\ r.prefix = s.prefix

(***************************************************************************)
(* How far the workers' races can inflate a count: in any span shorter     *)
(* than the dedup window (less the skew of the two clock readings) a file  *)
(* and a prefix have at most one row for each worker, through shutdowns,   *)
(* failed statements, primary key conflicts and the pruning of old rows.   *)
(***************************************************************************)
BoundedOvercount ==
  \A r \in votes :
    Cardinality({s \in votes : SamePair(r, s) /\ s.at \in r.at..(r.at + DedupWindow - MaxSkew - 1)})
      <= Cardinality(Workers)

Queued(c, f) == \E i \in 1..Len(voteCh) : voteCh[i] = [file |-> f, client |-> c]

(***************************************************************************)
(* A vote that got into the channel has a row in the end, its own or the   *)
(* one that makes it a duplicate, unless the server stops or a statement   *)
(* fails: the workers outlive requests that have no address.               *)
(***************************************************************************)
EveryVoteCounts ==
  \A c \in Clients, f \in Files :
    Queued(c, f) /\ Prefix[c] # Blank ~>
      (\E r \in votes : r.file = f /\ r.prefix = Prefix[c]) \/ faults > 0

(***************************************************************************)
(* README: "Votes from the same IP prefix within this window count only    *)
(* once per file" (the window is dedup_window, here less the clock skew).  *)
(***************************************************************************)
Dedup ==
  \A r, s \in votes :
    SamePair(r, s) /\ r.at < s.at => s.at - r.at >= DedupWindow - MaxSkew

(***************************************************************************)
(* config.example.yaml: "A package file must receive at least this many    *)
(* unique /24 (IPv4) or /48 (IPv6) votes within vote_window to be eligible *)
(* for caching."                                                           *)
(***************************************************************************)
PopularUnique ==
  [][\A f \in popular' \ popular : Cardinality({r.prefix : r \in Since(f)}) >= MinVotes]_vars
=============================================================================
