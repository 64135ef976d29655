------------------------- MODULE VoteRecorderProofs -------------------------
(***************************************************************************)
(* Theorems about VoteRecorder, for every value of its constants.          *)
(***************************************************************************)
EXTENDS VoteRecorder, FiniteSetTheorems, TLAPS

States == {Idle} \cup Taken \cup Stamped \cup Later

LEMMA InitType == Init => TypeOK
BY VoteAssumption DEF VoteAssumption, Init, TypeOK, States

LEMMA RowIsRow ==
  ASSUME NEW v \in Later PROVE RowOf(v) \in Row
BY DEF Later, RowOf, Row

\* Where a worker is tells which locals it has.
LEMMA Locals ==
  ASSUME NEW v \in States
  PROVE  /\ v.step = "idle" => v = Idle
         /\ v.step = "taken" => v \in Taken
         /\ v.step = "stamped" => v \in Stamped
         /\ v.step \in {"select", "insert"} => v \in Later
BY DEF States, Idle, Taken, Stamped, Later

\* Every action keeps the types.
LEMMA TypeStep == TypeOK /\ [Next]_vars => TypeOK'
<1> SUFFICES ASSUME TypeOK, [Next]_vars PROVE TypeOK'
  OBVIOUS
<1> USE VoteAssumption DEF VoteAssumption, TypeOK
<1>1. ASSUME NEW c \in Clients, NEW f \in Files, Serve(c, f) PROVE TypeOK'
  <2>1. [file |-> f, client |-> c] \in Request
    BY DEF Request
  <2>2. voteCh' \in Seq(Request) /\ Len(voteCh') <= Capacity
    BY <1>1, <2>1 DEF Serve, Room
  <2> QED BY <1>1, <2>2 DEF Serve
<1>2. ASSUME NEW w \in Workers, Take(w) PROVE TypeOK'
  <2>1. Head(voteCh) \in Request /\ voteCh' \in Seq(Request) /\ Len(voteCh') <= Capacity
    BY <1>2 DEF Take
  <2>2. Accept(Head(voteCh)) \in {Idle} \cup Taken
    BY <2>1 DEF Accept, Taken, Request
  <2> QED BY <1>2, <2>1, <2>2 DEF Take
<1>3. ASSUME NEW w \in Workers, Stamp(w) PROVE TypeOK'
  <2>1. worker[w] \in Taken
    BY <1>3, Locals DEF Stamp, At, States
  <2>2. [step |-> "stamped", file |-> worker[w].file, prefix |-> worker[w].prefix, at |-> now]
          \in Stamped
    BY <2>1 DEF Taken, Stamped
  <2> QED BY <1>3, <2>2 DEF Stamp
<1>4. ASSUME NEW w \in Workers, Cutoff(w) PROVE TypeOK'
  <2>1. worker[w] \in Stamped
    BY <1>4, Locals DEF Cutoff, At, States
  <2>2. [step |-> "select", file |-> worker[w].file, prefix |-> worker[w].prefix,
         at |-> worker[w].at, cutoff |-> now - DedupWindow] \in Later
    BY <2>1 DEF Stamped, Later
  <2> QED BY <1>4, <2>2 DEF Cutoff
<1>5. ASSUME NEW w \in Workers, Select(w) PROVE TypeOK'
  <2>1. worker[w] \in Later
    BY <1>5, Locals DEF Select, At, States
  <2>2. [worker[w] EXCEPT !.step = "insert"] \in Later
    BY <2>1 DEF Later
  <2>3. worker' \in [Workers -> {Idle} \cup Taken \cup Stamped \cup Later]
    BY <1>5, <2>2 DEF Select
  <2> QED BY <1>5, <2>3 DEF Select, NoFault, Fault
<1>6. ASSUME NEW w \in Workers, Insert(w) PROVE TypeOK'
  <2>1. RowOf(worker[w]) \in Row
    BY <1>6, Locals, RowIsRow DEF Insert, At, States
  <2> QED BY <1>6, <2>1 DEF Insert, NoFault, Fault
<1>7. CASE QueryPopular
  BY <1>7 DEF QueryPopular
<1>8. CASE DeleteOldVotes
  BY <1>8 DEF DeleteOldVotes
<1>9. CASE Stop
  <2>1. \A w \in Workers : worker[w].step = "insert" => RowOf(worker[w]) \in Row
    BY Locals, RowIsRow DEF States
  <2>2. votes' \subseteq Row
    BY <1>9, <2>1 DEF Stop
  <2> QED BY <1>9, <2>2 DEF Stop, Fault
<1>10. CASE Restart
  BY <1>10 DEF Restart
<1>11. CASE Tick
  BY <1>11 DEF Tick
<1>12. CASE UNCHANGED vars
  BY <1>12 DEF vars
<1> QED
  BY <1>1, <1>2, <1>3, <1>4, <1>5, <1>6, <1>7, <1>8, <1>9, <1>10, <1>11, <1>12 DEF Next, Work

\* TypeOK holds in every reachable state: the channel never holds more than its capacity,
\* and a worker has the locals of the step of RecordVote it is at.
THEOREM TypeCorrect == Spec => []TypeOK
BY InitType, TypeStep, PTL DEF Spec

(***************************************************************************)
(* One worker w alone.  No row is younger than the time it stamped, its    *)
(* cutoff is old enough, and once it has counted no row, none of its pair  *)
(* is younger than the cutoff until it inserts: nobody else does.          *)
(***************************************************************************)
Alone(w) ==
  /\ \A r \in votes : r.at <= now
  /\ worker[w].step = "stamped" => worker[w].at <= now /\ now - worker[w].at <= MaxSkew
  /\ worker[w].step \in {"select", "insert"} =>
       worker[w].cutoff <= worker[w].at + MaxSkew - DedupWindow
  /\ worker[w].step \in {"stamped", "select", "insert"} =>
       /\ worker[w].at <= now /\ \A r \in votes : r.at <= worker[w].at
  /\ worker[w].step = "insert" => Counted(worker[w]) = {}

DedupInv(w) == TypeOK /\ Alone(w) /\ Dedup

LEMMA InitDedup == \A w : w \in Workers /\ Init => DedupInv(w)
BY InitType DEF DedupInv, Init, Alone, Dedup, Idle

\* A row that the worker inserts is a window away from those of its pair.
LEMMA InsertedApart ==
  ASSUME NEW w \in Workers, DedupInv(w), worker[w].step = "insert",
         votes' \subseteq votes \cup {RowOf(worker[w])}
  PROVE  Dedup' /\ \A r \in votes' : r.at <= now
<1> USE DEF DedupInv
<1>1. worker[w] \in Later /\ now \in Nat /\ votes \subseteq Row
  BY Locals DEF TypeOK, States
<1>2. RowOf(worker[w]) \in Row
  BY <1>1, RowIsRow
<1>3. \A r \in votes' : r \in Row /\ r.at \in Int
  BY <1>1, <1>2 DEF Row
<1>4. \A r \in votes : SamePair(r, RowOf(worker[w])) => r.at <= worker[w].cutoff
  <2> SUFFICES ASSUME NEW r \in votes, SamePair(r, RowOf(worker[w])), r.at > worker[w].cutoff
               PROVE  FALSE
    BY <1>1 DEF Later, Row
  <2>1. r \in Counted(worker[w])
    BY DEF Counted, SamePair, RowOf
  <2> QED BY <2>1 DEF Alone
<1>5. \A r \in votes : r.at <= RowOf(worker[w]).at
  BY DEF Alone, RowOf
<1>6. RowOf(worker[w]).at = worker[w].at /\ worker[w].at \in Int /\ worker[w].cutoff \in Int
  BY <1>1 DEF Later, RowOf
<1>7. worker[w].cutoff <= worker[w].at + MaxSkew - DedupWindow
  BY DEF Alone
<1>8. DedupWindow \in Nat /\ MaxSkew \in Nat
  BY VoteAssumption DEF VoteAssumption
<1>9. Dedup'
  <2> SUFFICES ASSUME NEW r \in votes', NEW s \in votes', SamePair(r, s), r.at < s.at
               PROVE  s.at - r.at >= DedupWindow - MaxSkew
    BY DEF Dedup, SamePair
  <2>1. CASE r \in votes /\ s \in votes
    BY <2>1 DEF Dedup
  <2>2. CASE r \in votes /\ s = RowOf(worker[w])
    BY <1>3, <1>4, <1>6, <1>7, <1>8, <2>2
  <2>3. CASE r = RowOf(worker[w])
    BY <1>3, <1>5, <2>3
  <2> QED BY <2>1, <2>2, <2>3
<1>10. \A r \in votes' : r.at <= now
  BY <1>1, <1>6 DEF Alone
<1> QED BY <1>9, <1>10

LEMMA DedupStep ==
  ASSUME NEW w, Workers = {w}
  PROVE  DedupInv(w) /\ [Next]_vars => DedupInv(w)'
<1> SUFFICES ASSUME DedupInv(w), [Next]_vars PROVE DedupInv(w)'
  OBVIOUS
<1> USE DEF DedupInv
<1>1. TypeOK' /\ w \in Workers
  BY TypeStep
<1>2. /\ now \in Nat /\ MaxSkew \in Nat /\ DedupWindow \in Nat /\ votes \subseteq Row
      /\ worker[w] \in States /\ worker \in [Workers -> States]
  BY <1>1, VoteAssumption DEF VoteAssumption, TypeOK, States
<1>3. CASE (\E c \in Clients, f \in Files : Serve(c, f)) \/ QueryPopular \/ UNCHANGED vars
  <2>1. votes' = votes /\ worker' = worker /\ now' = now
    BY <1>3 DEF Serve, QueryPopular, vars
  <2>2. Counted(worker[w])' = Counted(worker[w])
    BY <2>1 DEF Counted
  <2> QED BY <1>1, <2>1, <2>2 DEF Alone, Dedup
<1>4. CASE Restart
  <2>1. votes' = votes /\ worker' = worker /\ now' = now
    BY <1>4 DEF Restart
  <2>2. Counted(worker[w])' = Counted(worker[w])
    BY <2>1 DEF Counted
  <2> QED BY <1>1, <2>1, <2>2 DEF Alone, Dedup
<1>5. CASE DeleteOldVotes
  <2>1. votes' \subseteq votes /\ worker' = worker /\ now' = now
    BY <1>5 DEF DeleteOldVotes
  <2>2. Counted(worker[w])' \subseteq Counted(worker[w])
    BY <2>1 DEF Counted
  <2> QED BY <1>1, <2>1, <2>2 DEF Alone, Dedup
<1>6. CASE Tick
  <2>1. votes' = votes /\ worker' = worker /\ now' = now + 1
    BY <1>6 DEF Tick
  <2>2. worker[w].step = "stamped" => now - worker[w].at < MaxSkew
    BY <1>1, <1>6 DEF Tick
  <2>3. Counted(worker[w])' = Counted(worker[w])
    BY <2>1 DEF Counted
  <2>4. worker[w].step \in {"stamped", "select", "insert"} => worker[w].at \in Nat
    BY <1>2, Locals DEF Stamped, Later
  <2>5. \A r \in votes : r.at \in Nat
    BY <1>2 DEF Row
  <2> QED BY <1>1, <1>2, <2>1, <2>2, <2>3, <2>4, <2>5 DEF Alone, Dedup
<1>7. CASE Stop
  <2>1. now' = now /\ worker'[w] = Idle /\ Idle.step = "idle"
    BY <1>1, <1>7 DEF Stop, Idle
  <2>2. \/ votes' = votes
        \/ worker[w].step = "insert" /\ votes' \subseteq votes \cup {RowOf(worker[w])}
    BY <1>1, <1>7 DEF Stop
  <2>3. Dedup' /\ \A r \in votes' : r.at <= now
    <3>1. CASE votes' = votes
      BY <3>1 DEF Alone, Dedup
    <3>2. CASE votes' # votes
      BY <1>1, <2>2, <3>2, InsertedApart
    <3> QED BY <3>1, <3>2
  <2> QED BY <1>1, <2>1, <2>3 DEF Alone
<1>8. CASE Take(w)
  <2>1. votes' = votes /\ now' = now /\ worker'[w].step \in {"idle", "taken"}
    BY <1>1, <1>2, <1>8 DEF Take, Accept, Idle
  <2> QED BY <1>1, <2>1 DEF Alone, Dedup
<1>9. CASE Stamp(w)
  <2>1. votes' = votes /\ now' = now /\ worker'[w].step = "stamped" /\ worker'[w].at = now
    BY <1>1, <1>2, <1>9 DEF Stamp
  <2> QED BY <1>1, <1>2, <2>1 DEF Alone, Dedup
<1>10. CASE Cutoff(w)
  <2>1. /\ votes' = votes /\ now' = now /\ worker'[w].step = "select"
        /\ worker'[w].at = worker[w].at /\ worker'[w].cutoff = now - DedupWindow
    BY <1>1, <1>2, <1>10 DEF Cutoff
  <2>2. worker[w].step = "stamped" /\ worker[w].at \in Nat
    BY <1>2, <1>10, Locals DEF Cutoff, At, Stamped
  <2> QED BY <1>1, <1>2, <2>1, <2>2 DEF Alone, Dedup
<1>11. CASE Select(w)
  <2>1. votes' = votes /\ now' = now /\ worker[w].step = "select" /\ worker[w] \in Later
    BY <1>2, <1>11, Locals DEF Select, At
  <2>2. CASE worker'[w] = Idle
    BY <1>1, <2>1, <2>2 DEF Alone, Dedup, Idle
  <2>3. CASE worker' = [worker EXCEPT ![w].step = "insert"] /\ Counted(worker[w]) = {}
    <3>1. /\ worker'[w].step = "insert" /\ worker'[w].at = worker[w].at
          /\ worker'[w].cutoff = worker[w].cutoff /\ worker'[w].file = worker[w].file
          /\ worker'[w].prefix = worker[w].prefix
      BY <1>1, <1>2, <2>1, <2>3 DEF Later
    <3>2. Counted(worker[w])' = {}
      BY <2>1, <2>3, <3>1 DEF Counted
    <3> QED BY <1>1, <2>1, <3>1, <3>2 DEF Alone, Dedup
  <2> QED BY <1>1, <1>2, <1>11, <2>2, <2>3 DEF Select
<1>12. CASE Insert(w)
  <2>1. now' = now /\ worker'[w] = Idle /\ Idle.step = "idle" /\ worker[w].step = "insert"
    BY <1>1, <1>2, <1>12 DEF Insert, At, Idle
  <2>2. votes' \subseteq votes \cup {RowOf(worker[w])}
    BY <1>12 DEF Insert
  <2>3. Dedup' /\ \A r \in votes' : r.at <= now
    BY <1>1, <2>1, <2>2, InsertedApart
  <2> QED BY <1>1, <2>1, <2>3 DEF Alone
<1> QED
  BY <1>1, <1>3, <1>4, <1>5, <1>6, <1>7, <1>8, <1>9, <1>10, <1>11, <1>12 DEF Next, Work

(***************************************************************************)
(* With a single worker, as README says there is, rows of one file and one *)
(* prefix are a dedup window apart, less the skew of RecordVote's clock:   *)
(* the races of several workers are all that breaks Dedup.                 *)
(***************************************************************************)
THEOREM SingleWorkerDedups ==
  ASSUME NEW w, Workers = {w}
  PROVE  Spec => []Dedup
<1>1. Init => DedupInv(w)
  BY InitDedup
<1>2. DedupInv(w) /\ [Next]_vars => DedupInv(w)'
  BY DedupStep
<1>3. DedupInv(w) => Dedup
  BY DEF DedupInv
<1> QED BY <1>1, <1>2, <1>3, PTL DEF Spec

(***************************************************************************)
(* BoundedOvercount.  The rows can be shared out among the workers, each   *)
(* to the one that inserted it, so that the rows of a pair that one worker *)
(* owns are a window apart: it counted them all before it inserted the     *)
(* next.  So a window holds at most one row of each worker.  A worker that *)
(* is about to insert is as far from the rows it owns already.             *)
(***************************************************************************)
Apart(i, j) == i <= j - (DedupWindow - MaxSkew)

Fits(owner) ==
  /\ \A r, s \in votes : r # s /\ SamePair(r, s) /\ owner[r] = owner[s] =>
       Apart(r.at, s.at) \/ Apart(s.at, r.at)
  /\ \A w \in Workers, r \in votes :
       worker[w].step = "insert" /\ owner[r] = w /\ SamePair(r, RowOf(worker[w])) =>
         Apart(r.at, worker[w].at)
Owned == \E owner \in [votes -> Workers] : Fits(owner)

\* RecordVote reads its second clock no more than MaxSkew after its first.
Punctual ==
  \A w \in Workers :
    /\ worker[w].step = "stamped" => worker[w].at <= now /\ now - worker[w].at <= MaxSkew
    /\ worker[w].step \in {"select", "insert"} =>
         worker[w].cutoff <= worker[w].at + MaxSkew - DedupWindow

LEMMA PunctualStep ==
  ASSUME TypeOK, Punctual, [Next]_vars
  PROVE  Punctual'
<1> SUFFICES ASSUME NEW w \in Workers
             PROVE  /\ worker'[w].step = "stamped" =>
                         worker'[w].at <= now' /\ now' - worker'[w].at <= MaxSkew
                    /\ worker'[w].step \in {"select", "insert"} =>
                         worker'[w].cutoff <= worker'[w].at + MaxSkew - DedupWindow
  BY DEF Punctual
<1>1. /\ worker[w] \in States /\ now \in Nat /\ MaxSkew \in Nat /\ DedupWindow \in Nat
      /\ worker \in [Workers -> States]
  BY VoteAssumption DEF VoteAssumption, TypeOK, States
<1>2. /\ worker[w].step = "stamped" => worker[w].at <= now /\ now - worker[w].at <= MaxSkew
      /\ worker[w].step \in {"select", "insert"} =>
           worker[w].cutoff <= worker[w].at + MaxSkew - DedupWindow
  BY DEF Punctual
<1>3. CASE worker'[w] = worker[w] /\ now' = now
  BY <1>2, <1>3
<1>4. CASE worker'[w].step \in {"idle", "taken"}
  BY <1>4
<1>5. CASE Stamp(w)
  <2>1. worker'[w].step = "stamped" /\ worker'[w].at = now /\ now' = now
    BY <1>1, <1>5 DEF Stamp
  <2> QED BY <1>1, <2>1
<1>6. CASE Cutoff(w)
  <2>1. /\ worker'[w].step = "select" /\ worker'[w].at = worker[w].at
        /\ worker'[w].cutoff = now - DedupWindow /\ worker[w].step = "stamped"
    BY <1>1, <1>6 DEF Cutoff, At
  <2>2. worker[w].at \in Nat
    BY <1>1, <2>1, Locals DEF Stamped
  <2> QED BY <1>1, <1>2, <2>1, <2>2
<1>7. CASE Select(w)
  <2>1. worker[w] \in Later /\ worker[w].step = "select"
    BY <1>1, <1>7, Locals DEF Select, At
  <2>2. CASE worker' = [worker EXCEPT ![w].step = "insert"]
    <3>1. worker'[w].at = worker[w].at /\ worker'[w].cutoff = worker[w].cutoff
          /\ worker'[w].step = "insert"
      BY <1>1, <2>1, <2>2 DEF Later
    <3> QED BY <1>2, <2>1, <3>1
  <2>3. CASE worker'[w] = Idle
    BY <2>3 DEF Idle
  <2> QED BY <1>1, <1>7, <2>2, <2>3 DEF Select
<1>8. CASE Tick
  <2>1. worker' = worker /\ now' = now + 1
    BY <1>8 DEF Tick
  <2>2. worker[w].step = "stamped" => now - worker[w].at < MaxSkew /\ worker[w].at \in Nat
    BY <1>1, <1>8, Locals DEF Tick, Stamped
  <2> QED BY <1>1, <1>2, <2>1, <2>2
<1>9. CASE (\E c \in Clients, f \in Files : Serve(c, f)) \/ QueryPopular \/ DeleteOldVotes
           \/ Restart \/ UNCHANGED vars
  BY <1>3, <1>9 DEF Serve, QueryPopular, DeleteOldVotes, Restart, vars
<1>10. CASE Stop
  BY <1>4, <1>10 DEF Stop, Idle
<1>11. ASSUME NEW v \in Workers, Work(v) PROVE now' = now /\ (v # w => worker'[w] = worker[w])
  BY <1>1, <1>11 DEF Work, Take, Stamp, Cutoff, Select, Insert
<1>12. CASE Take(w) \/ Insert(w)
  BY <1>1, <1>4, <1>12 DEF Take, Accept, Insert, Idle
<1> QED BY <1>3, <1>5, <1>6, <1>7, <1>8, <1>9, <1>10, <1>11, <1>12 DEF Next, Work

\* Rows that go away, and rows that workers about to insert put in, each its own.
LEMMA OwnedRows ==
  ASSUME TypeOK, Owned, NEW sent \in SUBSET {w \in Workers : worker[w].step = "insert"},
         votes' \subseteq votes \cup {RowOf(worker[w]) : w \in sent},
         \A w \in Workers : worker'[w].step = "insert" => w \notin sent /\ worker'[w] = worker[w]
  PROVE  Owned'
<1>1. PICK owner \in [votes -> Workers] : Fits(owner)
  BY DEF Owned
<1> DEFINE Inserter(r) == CHOOSE w \in sent : RowOf(worker[w]) = r
           new == [r \in votes' |-> IF r \in votes THEN owner[r] ELSE Inserter(r)]
<1>2. ASSUME NEW r \in votes', r \notin votes
      PROVE  Inserter(r) \in sent /\ RowOf(worker[Inserter(r)]) = r
  <2>1. \E w \in sent : RowOf(worker[w]) = r
    BY <1>2
  <2> QED BY <2>1
<1> HIDE DEF Inserter
<1>3. new \in [votes' -> Workers]
  BY <1>1, <1>2
<1>4. ASSUME NEW r \in votes', NEW s \in votes', r # s, SamePair(r, s), new[r] = new[s],
             s \notin votes
      PROVE  r \in votes /\ Apart(r.at, s.at)
  <2>1. r \in votes
    BY <1>2, <1>4
  <2>2. /\ owner[r] = Inserter(s) /\ s = RowOf(worker[Inserter(s)])
        /\ Inserter(s) \in Workers /\ worker[Inserter(s)].step = "insert"
    BY <1>2, <1>4, <2>1
  <2>3. s.at = worker[Inserter(s)].at
    BY <2>2 DEF RowOf
  <2> QED BY <1>1, <1>4, <2>1, <2>2, <2>3 DEF Fits
<1>5. ASSUME NEW r \in votes', NEW s \in votes', r # s, SamePair(r, s), new[r] = new[s]
      PROVE  Apart(r.at, s.at) \/ Apart(s.at, r.at)
  <2>1. CASE r \in votes /\ s \in votes
    BY <1>1, <1>5, <2>1 DEF Fits
  <2>2. CASE s \notin votes
    BY <1>4, <1>5, <2>2
  <2>3. CASE r \notin votes
    <3>1. SamePair(s, r)
      BY <1>5 DEF SamePair
    <3> QED BY <1>4, <1>5, <2>3, <3>1
  <2> QED BY <2>1, <2>2, <2>3
<1>6. ASSUME NEW w \in Workers, NEW r \in votes', worker'[w].step = "insert", new[r] = w,
             SamePair(r, RowOf(worker'[w]))
      PROVE  Apart(r.at, worker'[w].at)
  <2>1. w \notin sent /\ worker'[w] = worker[w]
    BY <1>6
  <2>2. r \in votes
    BY <1>2, <1>6, <2>1
  <2> QED BY <1>1, <1>6, <2>1, <2>2 DEF Fits
<1>7. PICK o \in [votes' -> Workers] : o = new
  BY <1>3
<1> HIDE DEF new
<1>8. Fits(o)'
  <2>1. \A r, s \in votes' : r # s /\ SamePair(r, s) /\ o[r] = o[s] =>
          Apart(r.at, s.at) \/ Apart(s.at, r.at)
    BY <1>5, <1>7
  <2>2. \A w \in Workers, r \in votes' :
          worker'[w].step = "insert" /\ o[r] = w /\ SamePair(r, RowOf(worker'[w])) =>
            Apart(r.at, worker'[w].at)
    BY <1>6, <1>7
  <2> QED BY <2>1, <2>2 DEF Fits
<1> QED BY <1>7, <1>8 DEF Owned

\* No worker's row comes in.
LEMMA OwnedKept ==
  ASSUME TypeOK, Owned, votes' \subseteq votes,
         \A w \in Workers : worker'[w].step = "insert" => worker'[w] = worker[w]
  PROVE  Owned'
<1>1. /\ {} \in SUBSET {w \in Workers : worker[w].step = "insert"}
      /\ votes' \subseteq votes \cup {RowOf(worker[w]) : w \in {}}
      /\ \A w \in Workers : worker'[w].step = "insert" => w \notin {} /\ worker'[w] = worker[w]
  OBVIOUS
<1> HIDE DEF TypeOK, Owned
<1> QED BY ONLY <1>1, OwnedRows, TypeOK, Owned

\* A worker that counted no row is a window away from all the rows of its pair.
LEMMA OwnedSelect ==
  ASSUME TypeOK, Punctual, Owned, NEW w \in Workers, Select(w)
  PROVE  Owned'
<1>1. PICK owner \in [votes -> Workers] : Fits(owner)
  BY DEF Owned
<1>2. /\ worker \in [Workers -> States] /\ worker[w] \in Later /\ worker[w].step = "select"
      /\ votes' = votes /\ votes \subseteq Row
  BY Locals DEF TypeOK, States, Select, At
<1>3. CASE worker' = [worker EXCEPT ![w] = Idle]
  BY <1>2, <1>3, OwnedKept DEF Idle
<1>4. CASE Counted(worker[w]) = {} /\ worker' = [worker EXCEPT ![w].step = "insert"]
  <2>1. /\ RowOf(worker'[w]) = RowOf(worker[w]) /\ worker'[w].at = worker[w].at
        /\ \A v \in Workers : v # w => worker'[v] = worker[v]
    BY <1>2, <1>4 DEF RowOf, Later
  <2>2. ASSUME NEW r \in votes, SamePair(r, RowOf(worker[w])) PROVE Apart(r.at, worker[w].at)
    <3>1. ~ (r.at > worker[w].cutoff)
      BY <1>4, <2>2 DEF Counted, SamePair, RowOf
    <3>2. worker[w].cutoff <= worker[w].at + MaxSkew - DedupWindow
      BY <1>2 DEF Punctual
    <3>3. /\ r.at \in Int /\ worker[w].cutoff \in Int /\ worker[w].at \in Int
          /\ DedupWindow \in Int /\ MaxSkew \in Int
      BY <1>2, VoteAssumption DEF VoteAssumption, Later, Row
    <3> QED BY <3>1, <3>2, <3>3 DEF Apart
  <2>3. ASSUME NEW v \in Workers, NEW r \in votes, worker'[v].step = "insert", owner[r] = v,
               SamePair(r, RowOf(worker'[v]))
        PROVE  Apart(r.at, worker'[v].at)
    <3>1. CASE v = w
      BY <2>1, <2>2, <2>3, <3>1
    <3>2. CASE v # w
      BY <1>1, <2>1, <2>3, <3>2 DEF Fits
    <3> QED BY <3>1, <3>2
  <2>4. Fits(owner)'
    BY <1>1, <1>2, <2>3 DEF Fits, Apart, SamePair, RowOf
  <2> QED BY <1>2, <2>4 DEF Owned
<1> QED BY <1>3, <1>4 DEF Select

LEMMA OwnedStep ==
  ASSUME TypeOK, Punctual, Owned, [Next]_vars
  PROVE  Owned'
<1>1. worker \in [Workers -> States] /\ Idle.step = "idle"
  BY DEF TypeOK, States, Idle
<1>2. ASSUME NEW c \in Clients, NEW f \in Files, Serve(c, f) PROVE Owned'
  BY <1>2, OwnedKept DEF Serve
<1>3. ASSUME NEW w \in Workers, Take(w) PROVE Owned'
  <2>1. \A v \in Workers : worker'[v].step = "insert" => worker'[v] = worker[v]
    BY <1>1, <1>3 DEF Take, Accept
  <2> QED BY <1>3, <2>1, OwnedKept DEF Take
<1>4. ASSUME NEW w \in Workers, Stamp(w) \/ Cutoff(w) PROVE Owned'
  <2>1. \A v \in Workers : worker'[v].step = "insert" => worker'[v] = worker[v]
    BY <1>1, <1>4 DEF Stamp, Cutoff
  <2> QED BY <1>4, <2>1, OwnedKept DEF Stamp, Cutoff
<1>5. ASSUME NEW w \in Workers, Select(w) PROVE Owned'
  BY <1>5, OwnedSelect
<1>6. ASSUME NEW w \in Workers, Insert(w) PROVE Owned'
  <2>1. /\ {w} \in SUBSET {v \in Workers : worker[v].step = "insert"}
        /\ votes' \subseteq votes \cup {RowOf(worker[v]) : v \in {w}}
        /\ \A v \in Workers : worker'[v].step = "insert" => v \notin {w} /\ worker'[v] = worker[v]
    BY <1>1, <1>6 DEF Insert, At
  <2> QED BY <2>1, OwnedRows
<1>7. CASE Stop
  <2>1. PICK sent \in SUBSET {w \in Workers : worker[w].step = "insert"} :
          votes' = votes \cup {RowOf(worker[w]) : w \in sent}
    BY <1>7 DEF Stop
  <2>2. \A w \in Workers : worker'[w].step # "insert"
    BY <1>1, <1>7 DEF Stop
  <2> QED BY <2>1, <2>2, OwnedRows
<1>8. CASE QueryPopular \/ DeleteOldVotes \/ Restart \/ Tick \/ UNCHANGED vars
  <2>1. votes' \subseteq votes /\ worker' = worker
    BY <1>8 DEF QueryPopular, DeleteOldVotes, Restart, Tick, vars
  <2> QED BY <2>1, OwnedKept
<1> QED BY <1>2, <1>3, <1>4, <1>5, <1>6, <1>7, <1>8 DEF Next, Work

(***************************************************************************)
(* However many workers race, and whatever stops, fails or is pruned, no   *)
(* window of the table holds more rows of a file and a prefix than there   *)
(* are workers: what remains of dedup_window in RecordVote.                *)
(***************************************************************************)
THEOREM OvercountIsBounded == Spec => []BoundedOvercount
<1>1. Init => Punctual /\ Owned
  <2> SUFFICES ASSUME Init PROVE Punctual /\ Owned
    OBVIOUS
  <2>1. votes = {} /\ \A w \in Workers : worker[w].step = "idle"
    BY DEF Init, Idle
  <2>2. [r \in votes |-> r] \in [votes -> Workers] /\ Fits([r \in votes |-> r])
    BY <2>1 DEF Fits
  <2> QED BY <2>1, <2>2 DEF Punctual, Owned
<1>2. TypeOK /\ Owned => BoundedOvercount
  <2> SUFFICES ASSUME TypeOK, Owned, NEW r \in votes
               PROVE  Cardinality({s \in votes : SamePair(r, s) /\
                          s.at \in r.at..(r.at + DedupWindow - MaxSkew - 1)})
                        <= Cardinality(Workers)
    BY DEF BoundedOvercount
  <2> DEFINE window == {s \in votes : SamePair(r, s) /\
                          s.at \in r.at..(r.at + DedupWindow - MaxSkew - 1)}
  <2>1. PICK owner \in [votes -> Workers] : Fits(owner)
    BY DEF Owned
  <2>2. ASSUME NEW s \in window, NEW t \in window, owner[s] = owner[t] PROVE s = t
    <3>1. /\ SamePair(s, t) /\ s \in votes /\ t \in votes
          /\ s.at \in r.at..(r.at + DedupWindow - MaxSkew - 1)
          /\ t.at \in r.at..(r.at + DedupWindow - MaxSkew - 1)
      BY DEF SamePair
    <3>2. r.at \in Int /\ DedupWindow \in Int /\ MaxSkew \in Int
      BY VoteAssumption DEF VoteAssumption, TypeOK, Row
    <3>3. ~ Apart(s.at, t.at) /\ ~ Apart(t.at, s.at)
      BY <3>1, <3>2 DEF Apart
    <3> QED BY <2>1, <2>2, <3>1, <3>3 DEF Fits
  <2> HIDE DEF window
  <2> DEFINE f == [s \in window |-> owner[s]]
  <2>3. f \in Injection(window, Workers)
    <3>1. window \subseteq votes
      BY DEF window
    <3>2. f \in [window -> Workers] /\ \A s, t \in window : f[s] = f[t] => s = t
      BY <2>1, <2>2, <3>1
    <3> QED BY <3>2 DEF Injection, IsInjective
  <2>4. Cardinality(window) <= Cardinality(Workers)
    BY <2>3, FS_Injection, VoteAssumption DEF VoteAssumption
  <2> QED BY <2>4 DEF window
<1> QED BY <1>1, <1>2, PunctualStep, OwnedStep, TypeCorrect, PTL DEF Spec
=============================================================================
