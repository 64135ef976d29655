------------------------- MODULE CacheManagerProofs -------------------------
(***************************************************************************)
(* Theorems about CacheManager, for every value of its constants.          *)
(***************************************************************************)
EXTENDS CacheManager, TLAPS

(***************************************************************************)
(* What the program counter says of the other variables: the assignment a  *)
(* phase works on exists and is of the kind the phase is for, so the       *)
(* tiers, names and files the step touches are ones there are.             *)
(***************************************************************************)
EntriesOK(m)   == \A n \in Names : m[n] # Nowhere => m[n].tier # 0
CandidateOK(c) == c.tier = 0 => c.name \in Files

Placed ==
  /\ EntriesOK(inventory) /\ EntriesOK(localSizes)
  /\ \A c \in pending : CandidateOK(c)
  /\ \A i \in 1..Len(plan) : CandidateOK(plan[i]) /\ plan[i].target <= Len(tiers)
  /\ pc = "walk"   => at <= Len(tiers)
  /\ pc = "assign" => remaining \in [1..Len(tiers) -> Nat]
  /\ pc \in {"fetch", "record", "forget", "copy", "unlink", "retier"} => at <= Len(plan)
  /\ pc \in {"fetch", "record"} => ~ IsLocal(Current) /\ Current.target # 0
  /\ pc \in {"copy", "unlink", "retier"} =>
       /\ IsLocal(Current) /\ Current.target # 0 /\ Current.tier # Current.target
       /\ Current.tier <= Len(tiers)
  /\ pc = "copy" => disk[Dest][temp] # Absent /\ SourceBytes # Absent
  /\ pc = "fetch" => disk[Dest][Part[Current.name]] # Absent

IInv == TypeOK /\ Placed

LEMMA LayoutFacts ==
  ASSUME NEW l \in Layouts
  PROVE  /\ l \in Seq(Dirs) /\ Len(l) \in Nat \ {0}
         /\ \A t \in 1..Len(l) : l[t] \in Dirs
         /\ \A t, u \in 1..Len(l) : l[t] = l[u] => t = u
  BY ConfigAssumption DEF ConfigAssumption

LEMMA TempFacts == AnyTemp \in Temps
  BY NamesAssumption DEF NamesAssumption, AnyTemp

LEMMA InitIInv == Init => IInv
<1> SUFFICES ASSUME Init PROVE IInv
  OBVIOUS
<1> USE NamesAssumption, ConfigAssumption, TempFacts DEF NamesAssumption, ConfigAssumption
<1>1. EmptyInventory \in [Names -> Entry] /\ EntriesOK(EmptyInventory)
  BY DEF EmptyInventory, Nowhere, Entry, EntriesOK
<1>2. disk \in [Dirs -> [Names -> Nat \cup {Absent}]]
  BY DEF Init, Names, Absent
<1>3. remoteSizes \in [Files -> Nat \cup {Unknown, Gone}]
  BY DEF Init
<1>4. TypeOK
  BY <1>1, <1>2, <1>3 DEF Init, TypeOK, Phases
<1>5. Placed
  BY <1>1 DEF Init, Placed
<1> QED BY <1>4, <1>5 DEF IInv

LEMMA StartIInv == IInv /\ Start => IInv'
<1> SUFFICES ASSUME IInv, Start PROVE IInv'
  OBVIOUS
<1> USE TempFacts DEF IInv, Start, NoFault, Inject
<1>1. tiers' \in Layouts /\ Len(tiers') \in Nat \ {0}
  BY LayoutFacts
<1>2. EmptyInventory \in [Names -> Entry] /\ EntriesOK(EmptyInventory)
  BY DEF EmptyInventory, Nowhere, Entry, EntriesOK
<1>3. aged' \subseteq Files
  BY DEF TypeOK
<1>4. TypeOK'
  BY <1>1, <1>2, <1>3 DEF TypeOK, Phases
<1>5. Placed'
  BY <1>1, <1>2 DEF Placed, EntriesOK
<1> QED BY <1>4, <1>5

LEMMA WalkTierIInv == IInv /\ WalkTier => IInv'
<1> SUFFICES ASSUME IInv, WalkTier PROVE IInv'
  OBVIOUS
<1> USE DEF IInv, WalkTier, durable, planning, faultVars, NoFault, Fault, Inject, FaultKinds
<1>1. at \in 1..Len(tiers) /\ tiers[at] \in Dirs
  BY LayoutFacts DEF TypeOK, Placed
<1>2. inventory' \in [Names -> Entry] /\ EntriesOK(inventory')
  BY <1>1 DEF TypeOK, Placed, EntriesOK, Entry, Nowhere
<1>3. localSizes' \in [Names -> Entry] /\ EntriesOK(localSizes')
  BY <1>1 DEF TypeOK, Placed, EntriesOK, Entry, Nowhere
<1>4. hit' \subseteq FaultKinds /\ faults' \in Nat
  BY DEF TypeOK
<1>5. at' \in Nat \ {0} /\ pc' \in {"walk", "resolve"} /\ (pc' = "walk" => at' <= Len(tiers))
  BY <1>1, LayoutFacts DEF TypeOK
<1>6. TypeOK'
  BY <1>2, <1>3, <1>4, <1>5 DEF TypeOK, Phases
<1>7. Placed'
  BY <1>2, <1>3, <1>5 DEF Placed, TypeOK
<1> QED BY <1>6, <1>7

LEMMA ResolveIInv == IInv /\ Resolve => IInv'
<1> SUFFICES ASSUME IInv, Resolve PROVE IInv'
  OBVIOUS
<1> USE DEF IInv
<1>1. /\ remoteSizes' \in [Files -> Nat \cup {Unknown, Gone}]
      /\ pending' \subseteq Candidate
      /\ \A c \in pending' : CandidateOK(c)
      /\ hit' \subseteq FaultKinds /\ faults' \in Nat
  <2>1. PICK votes \in [Files -> VoteCounts] :
          \E answer \in [Missing(votes) -> UNION {Answers(f) : f \in Missing(votes)}] :
            /\ \A f \in Missing(votes) : answer[f] \in Answers(f)
            /\ \E stored \in SUBSET Asked(votes, answer) :
                 /\ Inject((IF stored = Asked(votes, answer) THEN {} ELSE {"db"})
                           \cup {"nolength" : f \in {g \in Missing(votes) : answer[g] = NoLength}})
                 /\ remoteSizes' = [f \in Files |-> IF f \in stored THEN Length(answer[f])
                                                   ELSE remoteSizes[f]]
            /\ pending' = Local(votes) \cup Wanted(votes, answer)
    BY DEF Resolve
  <2>2. PICK answer \in [Missing(votes) -> UNION {Answers(f) : f \in Missing(votes)}] :
            /\ \A f \in Missing(votes) : answer[f] \in Answers(f)
            /\ \E stored \in SUBSET Asked(votes, answer) :
                 /\ Inject((IF stored = Asked(votes, answer) THEN {} ELSE {"db"})
                           \cup {"nolength" : f \in {g \in Missing(votes) : answer[g] = NoLength}})
                 /\ remoteSizes' = [f \in Files |-> IF f \in stored THEN Length(answer[f])
                                                   ELSE remoteSizes[f]]
            /\ pending' = Local(votes) \cup Wanted(votes, answer)
    BY <2>1
  <2>3. votes \in [Files -> Nat]
    BY ConfigAssumption DEF ConfigAssumption
  <2>4. \A f \in Asked(votes, answer) : Length(answer[f]) \in Nat \cup {Gone}
    BY <2>2, ConfigAssumption
    DEF ConfigAssumption, Asked, Answers, Missing, Length, Failed, Gone, NoLength
  <2>5. remoteSizes' \in [Files -> Nat \cup {Unknown, Gone}]
    BY <2>2, <2>4 DEF TypeOK
  <2>6. Local(votes) \subseteq Candidate /\ \A c \in Local(votes) : CandidateOK(c)
    BY <2>3 DEF Local, Candidate, CandidateOK, TypeOK, Placed, Entry, EntriesOK
  <2>7. \A f \in Missing(votes) : Length(answer[f]) \in Int
    <3> SUFFICES ASSUME NEW f \in Missing(votes) PROVE Length(answer[f]) \in Int
      OBVIOUS
    <3>1. answer[f] \in Answers(f)
      BY <2>2
    <3>2. f \in Files
      BY DEF Missing
    <3>3. Size[f] \in Int /\ remoteSizes[f] \in Int
      <4>1. remoteSizes[f] \in Nat \cup {Unknown, Gone}
        BY <3>2 DEF TypeOK
      <4>2. Unknown \in Int /\ Gone \in Int
        BY DEF Unknown, Gone
      <4>3. Size[f] \in Int
        BY <3>2, ConfigAssumption DEF ConfigAssumption
      <4> QED BY <4>1, <4>2, <4>3
    <3> QED BY <3>1, <3>3 DEF Answers, Length, Failed, Gone, NoLength
  <2>8. /\ Wanted(votes, answer) \subseteq Candidate
        /\ \A c \in Wanted(votes, answer) : CandidateOK(c)
    BY <2>3, <2>7 DEF Wanted, Candidate, CandidateOK, Fetchable, Missing, Names
  <2>9. hit' \subseteq FaultKinds /\ faults' \in Nat
    BY <2>2 DEF Inject, TypeOK, FaultKinds
  <2> QED BY <2>2, <2>5, <2>6, <2>8, <2>9
<1>2. remaining' \in [1..Len(tiers) -> Nat]
  BY LayoutFacts, ConfigAssumption DEF ConfigAssumption, TypeOK, Resolve
<1>3. TypeOK'
  BY <1>1, <1>2 DEF TypeOK, Phases, Resolve
<1>4. Placed'
  BY <1>1, <1>2 DEF Placed, TypeOK, Resolve
<1> QED BY <1>3, <1>4


\* The assignment the execution pass is at, and the directories it names.
LEMMA CurrentFacts ==
  ASSUME IInv, at <= Len(plan)
  PROVE  /\ at \in 1..Len(plan) /\ Len(plan) \in Nat
         /\ Current \in Candidate /\ CandidateOK(Current) /\ Current.name \in Names
         /\ Current.size \in Nat /\ Current.tier \in Nat /\ Current.target \in 0..Len(tiers)
         /\ Current.target # 0 => Dest \in Dirs
         /\ Current.tier \in 1..Len(tiers) => Source \in Dirs
<1> USE DEF IInv
<1>1. at \in 1..Len(plan) /\ Len(plan) \in Nat
  BY DEF TypeOK
<1>2. Current \in Candidate
  BY <1>1 DEF TypeOK, Current
<1>3. CandidateOK(Current) /\ Current.target <= Len(tiers)
  BY <1>1 DEF Placed, Current
<1>4. /\ Current.name \in Names /\ Current.size \in Nat /\ Current.tier \in Nat
      /\ Current.target \in Nat
  BY <1>2 DEF Candidate
<1>5. tiers \in Layouts
  BY DEF TypeOK
<1> QED BY <1>1, <1>2, <1>3, <1>4, <1>5, LayoutFacts DEF Dest, Source

LEMMA AssignIInv == IInv /\ Assign => IInv'
<1> SUFFICES ASSUME IInv, Assign PROVE IInv'
  OBVIOUS
<1> USE DEF IInv, Assign, durable, faultVars
<1>1. PICK c \in pending, t \in 0..Len(tiers) :
        /\ FirstFit(c.size, t)
        /\ plan' = Append(plan, [c EXCEPT !.target = t])
        /\ remaining' = IF t = 0 THEN remaining ELSE [remaining EXCEPT ![t] = @ - c.size]
        /\ pending' = pending \ {c}
  OBVIOUS
<1> DEFINE n == [c EXCEPT !.target = t]
<1>2. c \in Candidate /\ CandidateOK(c) /\ Len(tiers) \in Nat
  BY LayoutFacts DEF TypeOK, Placed
<1>3. n \in Candidate /\ n.target = t /\ CandidateOK(n)
  BY <1>2 DEF Candidate, CandidateOK
<1>4. plan' \in Seq(Candidate) /\ Len(plan') = Len(plan) + 1 /\ Len(plan) \in Nat
  BY <1>1, <1>3 DEF TypeOK
<1>5. \A i \in 1..Len(plan') : CandidateOK(plan'[i]) /\ plan'[i].target <= Len(tiers)
  <2> SUFFICES ASSUME NEW i \in 1..Len(plan')
               PROVE CandidateOK(plan'[i]) /\ plan'[i].target <= Len(tiers)
    OBVIOUS
  <2>1. CASE i = Len(plan')
    <3>1. plan'[i] = n
      BY <1>1, <1>3, <1>4, <2>1 DEF TypeOK
    <3>2. CandidateOK(n) /\ n.target <= Len(tiers)
      BY <1>2, <1>3
    <3> QED BY <3>1, <3>2 DEF CandidateOK
  <2>2. CASE i # Len(plan')
    <3>1. i \in 1..Len(plan) /\ plan'[i] = plan[i]
      BY <1>1, <1>3, <1>4, <2>2 DEF TypeOK
    <3> QED BY <3>1 DEF Placed
  <2> QED BY <2>1, <2>2
<1>6. remaining' \in [1..Len(tiers) -> Nat]
  BY <1>1, <1>2 DEF Placed, FirstFit, Candidate
<1>7. TypeOK'
  BY <1>1, <1>4, <1>6 DEF TypeOK
<1>8. Placed'
  BY <1>1, <1>5, <1>6 DEF Placed
<1> QED BY <1>7, <1>8

LEMMA AssignDoneIInv == IInv /\ AssignDone => IInv'
<1> SUFFICES ASSUME IInv, AssignDone PROVE IInv'
  OBVIOUS
<1> USE DEF IInv, AssignDone, Executing, Advance, durable, planning, faultVars
<1>1. TypeOK'
  BY DEF TypeOK, Phases
<1>2. Placed'
  BY DEF Placed
<1> QED BY <1>1, <1>2

LEMMA ExecuteDoneIInv == IInv /\ ExecuteDone => IInv'
<1> SUFFICES ASSUME IInv, ExecuteDone PROVE IInv'
  OBVIOUS
<1> USE DEF IInv, ExecuteDone, Executing, Advance, durable, planning, faultVars
<1>1. TypeOK'
  BY DEF TypeOK, Phases
<1>2. Placed'
  BY DEF Placed
<1> QED BY <1>1, <1>2

LEMMA SkipIInv == IInv /\ Skip => IInv'
<1> SUFFICES ASSUME IInv, Skip PROVE IInv'
  OBVIOUS
<1> USE DEF IInv, Skip, Executing, Advance, durable, planning, faultVars
<1>1. TypeOK'
  BY DEF TypeOK, Phases
<1>2. Placed'
  BY DEF Placed
<1> QED BY <1>1, <1>2

LEMMA PanicIInv == IInv /\ Panic => IInv'
<1> SUFFICES ASSUME IInv, Panic PROVE IInv'
  OBVIOUS
<1> USE DEF IInv, Panic, Executing, Advance, durable, planning, faultVars
<1>1. TypeOK'
  BY DEF TypeOK, Phases
<1>2. Placed'
  BY DEF Placed
<1> QED BY <1>1, <1>2

LEMMA EvictIInv == IInv /\ Evict => IInv'
<1> SUFFICES ASSUME IInv, Evict PROVE IInv'
  OBVIOUS
<1> USE DEF IInv, Evict, planning, durable, faultVars, Executing, NoFault, Fault, Inject, FaultKinds
<1>1. disk' \in [Dirs -> [Names -> Nat \cup {Absent}]]
  <2>1. Source \in Dirs /\ Current.name \in Names
    BY CurrentFacts, LayoutFacts DEF IsLocal, TypeOK
  <2>2. CASE disk' = [disk EXCEPT ![Source][Current.name] = Absent]
    BY <2>1, <2>2 DEF TypeOK
  <2>3. CASE UNCHANGED disk
    BY <2>3 DEF TypeOK
  <2> QED BY <2>2, <2>3
<1>2. hit' \subseteq FaultKinds /\ faults' \in Nat
  BY DEF TypeOK
<1>3. TypeOK'
  BY <1>1, <1>2 DEF TypeOK, Phases
<1>4. Placed'
  BY DEF Placed
<1> QED BY <1>3, <1>4

LEMMA ForgetIInv == IInv /\ Forget => IInv'
<1> SUFFICES ASSUME IInv, Forget PROVE IInv'
  OBVIOUS
<1> USE DEF IInv, Forget, planning, durable, faultVars, Advance, NoFault, Fault, Inject, FaultKinds
<1>1. at <= Len(plan) /\ Current.name \in Names
  BY CurrentFacts DEF Placed
<1>2. Nowhere \in Entry
  BY DEF Nowhere, Entry
<1>3. localSizes' \in [Names -> Entry] /\ EntriesOK(localSizes')
  BY <1>1, <1>2 DEF TypeOK, Placed, EntriesOK
<1>4. inventory' \in [Names -> Entry] /\ EntriesOK(inventory')
  BY <1>1, <1>2 DEF TypeOK, Placed, EntriesOK
<1>5. hit' \subseteq FaultKinds /\ faults' \in Nat
  BY DEF TypeOK
<1>6. TypeOK'
  BY <1>3, <1>4, <1>5 DEF TypeOK, Phases
<1>7. Placed'
  BY <1>3, <1>4 DEF Placed
<1> QED BY <1>6, <1>7

LEMMA FetchWriteIInv == IInv /\ FetchWrite => IInv'
<1> SUFFICES ASSUME IInv, FetchWrite PROVE IInv'
  OBVIOUS
<1> USE DEF IInv, FetchWrite, planning, durable, faultVars, Executing
<1>1. Current.name \in Files /\ Dest \in Dirs
  BY CurrentFacts DEF IsLocal, CandidateOK
<1>2. Part[Current.name] \in Names /\ Size[Current.name] \in Nat
  BY <1>1, NamesAssumption, ConfigAssumption DEF NamesAssumption, ConfigAssumption, Names
<1>3. disk' \in [Dirs -> [Names -> Nat \cup {Absent}]]
  BY <1>1, <1>2 DEF TypeOK
<1>4. TypeOK'
  BY <1>3 DEF TypeOK, Phases
<1>5. Current' = Current /\ Dest' = Dest
  BY DEF Current, Dest
<1>6. disk'[Dest][Part[Current.name]] # Absent
  BY <1>1, <1>2 DEF TypeOK, Absent
<1>7. Placed'
  BY <1>5, <1>6 DEF Placed, IsLocal
<1> QED BY <1>4, <1>7

LEMMA FetchCommitIInv == IInv /\ FetchCommit => IInv'
<1> SUFFICES ASSUME IInv, FetchCommit PROVE IInv'
  OBVIOUS
<1> USE DEF IInv, FetchCommit, planning, durable, faultVars
<1>1. Current.name \in Files /\ Dest \in Dirs
  BY CurrentFacts DEF Placed, IsLocal, CandidateOK
<1>2. Part[Current.name] \in Names /\ Current.name \in Names
  BY <1>1, NamesAssumption DEF NamesAssumption, Names
<1>3. disk' \in [Dirs -> [Names -> Nat \cup {Absent}]]
  BY <1>1, <1>2 DEF TypeOK
<1>4. hit' \subseteq FaultKinds /\ faults' \in Nat
  BY DEF TypeOK, NoFault, Fault, Inject, FaultKinds
<1>5. TypeOK'
  BY <1>3, <1>4 DEF TypeOK, Phases
<1>6. Placed'
  BY DEF Placed, IsLocal, Current
<1> QED BY <1>5, <1>6

LEMMA FetchFailIInv == IInv /\ FetchFail => IInv'
<1> SUFFICES ASSUME IInv, FetchFail PROVE IInv'
  OBVIOUS
<1> USE DEF IInv, FetchFail, planning, durable, faultVars, Executing, Advance, NextAttempt
<1>1. at <= Len(plan) /\ ~ IsLocal(Current) /\ Current.target # 0
  BY DEF Placed
<1>2. Current.name \in Files /\ Dest \in Dirs
  BY <1>1, CurrentFacts DEF IsLocal, CandidateOK
<1>3. Part[Current.name] \in Names
  BY <1>2, NamesAssumption DEF NamesAssumption, Names
<1>4. disk' \in [Dirs -> [Names -> Nat \cup {Absent}]]
  BY <1>2, <1>3 DEF TypeOK
<1>5. hit' \subseteq FaultKinds /\ faults' \in Nat
  BY DEF TypeOK, NoFault, Fault, Inject, FaultKinds
<1>6. TypeOK'
  BY <1>4, <1>5 DEF TypeOK, Phases
<1>7. Placed'
  BY DEF Placed
<1> QED BY <1>6, <1>7

LEMMA RecordIInv == IInv /\ Record => IInv'
<1> SUFFICES ASSUME IInv, Record PROVE IInv'
  OBVIOUS
<1> USE DEF IInv, Record, planning, durable, faultVars, Advance, NoFault, Fault, Inject, FaultKinds
<1>1. Current.name \in Names /\ Current.size \in Nat /\ Current.target \in Nat \ {0}
  BY CurrentFacts, LayoutFacts DEF Placed, TypeOK
<1>2. [size |-> Current.size, tier |-> Current.target] \in Entry
  BY <1>1 DEF Entry
<1>3. localSizes' \in [Names -> Entry] /\ EntriesOK(localSizes')
  <2>1. CASE UNCHANGED localSizes
    BY <2>1 DEF TypeOK, Placed, EntriesOK
  <2>2. CASE localSizes' = [localSizes EXCEPT ![Current.name] =
                              [size |-> Current.size, tier |-> Current.target]]
    BY <1>1, <1>2, <2>2 DEF TypeOK, Placed, EntriesOK
  <2> QED BY <2>1, <2>2
<1>4. inventory' \in [Names -> Entry] /\ EntriesOK(inventory')
  BY <1>1, <1>2 DEF TypeOK, Placed, EntriesOK
<1>5. hit' \subseteq FaultKinds /\ faults' \in Nat
  BY DEF TypeOK
<1>6. TypeOK'
  BY <1>3, <1>4, <1>5 DEF TypeOK, Phases
<1>7. Placed'
  BY <1>3, <1>4 DEF Placed
<1> QED BY <1>6, <1>7

\* The two directories of a move, while the loop is at one.
LEMMA MovingFacts ==
  ASSUME IInv, Moving \/ pc \in {"copy", "unlink", "retier"}
  PROVE  /\ at <= Len(plan) /\ Source \in Dirs /\ Dest \in Dirs /\ Source # Dest
         /\ Current.name \in Names
<1>1. /\ at <= Len(plan) /\ Current.tier # 0 /\ Current.target # 0
      /\ Current.tier # Current.target /\ Current.tier <= Len(tiers)
  BY DEF IInv, Placed, Moving, Executing, IsLocal
<1>2. Current.tier \in 1..Len(tiers) /\ Current.target \in 1..Len(tiers)
  BY <1>1, CurrentFacts, LayoutFacts DEF IInv, TypeOK
<1> QED BY <1>1, <1>2, CurrentFacts, LayoutFacts DEF IInv, TypeOK, Source, Dest

LEMMA MoveRenameIInv == IInv /\ MoveRename => IInv'
<1> SUFFICES ASSUME IInv, MoveRename PROVE IInv'
  OBVIOUS
<1> USE DEF IInv, MoveRename, planning, durable, faultVars
<1>1. disk' \in [Dirs -> [Names -> Nat \cup {Absent}]]
  <2> DEFINE gone == [disk EXCEPT ![Source][Current.name] = Absent]
  <2>1. SourceBytes \in Nat \cup {Absent}
    BY MovingFacts DEF TypeOK, SourceBytes
  <2>2. gone \in [Dirs -> [Names -> Nat \cup {Absent}]]
    BY MovingFacts DEF TypeOK
  <2>3. disk' = [gone EXCEPT ![Dest][Current.name] = SourceBytes]
    OBVIOUS
  <2> HIDE DEF gone
  <2>4. Dest \in Dirs /\ Current.name \in Names
    BY MovingFacts
  <2> QED BY ONLY <2>1, <2>2, <2>3, <2>4
<1>2. TypeOK'
  BY <1>1 DEF TypeOK, Phases
<1>3. Placed'
  BY DEF Placed, Moving, Executing, IsLocal, Current
<1> QED BY <1>2, <1>3

LEMMA CopyWriteIInv == IInv /\ CopyWrite => IInv'
<1> SUFFICES ASSUME IInv, CopyWrite PROVE IInv'
  OBVIOUS
<1> USE DEF IInv, CopyWrite, planning, durable, faultVars
<1>1. PICK t \in Temps, written \in 0..SourceBytes :
        /\ disk[Dest][t] = Absent
        /\ disk' = [disk EXCEPT ![Dest][t] = written]
        /\ temp' = t
  OBVIOUS
<1>2. SourceBytes \in Nat /\ t \in Names
  <2>1. SourceBytes \in Nat \cup {Absent}
    BY MovingFacts DEF TypeOK, SourceBytes
  <2> QED BY <2>1 DEF TypeOK, Names, Placed
<1>3. disk' \in [Dirs -> [Names -> Nat \cup {Absent}]]
  BY <1>1, <1>2, MovingFacts DEF TypeOK
<1>4. TypeOK'
  BY <1>1, <1>3 DEF TypeOK, Phases
<1>5. /\ Current' = Current /\ Source' = Source /\ Dest' = Dest
      /\ SourceBytes' = SourceBytes
  BY <1>1, MovingFacts DEF Current, Source, Dest, SourceBytes, TypeOK
<1>6. disk'[Dest'][temp'] # Absent /\ SourceBytes' # Absent
  BY <1>1, <1>2, <1>5, MovingFacts DEF TypeOK, Absent
<1>7. Placed'
  BY <1>5, <1>6 DEF Placed, Moving, Executing, IsLocal
<1> QED BY <1>4, <1>7

LEMMA CopyRestIInv == IInv /\ CopyRest => IInv'
<1> SUFFICES ASSUME IInv, CopyRest PROVE IInv'
  OBVIOUS
<1> USE DEF IInv, CopyRest, planning, durable, faultVars
<1>1. SourceBytes \in Nat /\ temp \in Names
  <2>1. SourceBytes \in Nat \cup {Absent}
    BY MovingFacts DEF TypeOK, SourceBytes
  <2> QED BY <2>1 DEF TypeOK, Names, Placed
<1>2. disk' \in [Dirs -> [Names -> Nat \cup {Absent}]]
  BY <1>1, MovingFacts DEF TypeOK
<1>3. TypeOK'
  BY <1>2 DEF TypeOK
<1>4. Current' = Current /\ Source' = Source /\ Dest' = Dest /\ SourceBytes' = SourceBytes
  BY MovingFacts DEF Current, Source, Dest, SourceBytes, TypeOK
<1>5. disk'[Dest'][temp'] # Absent /\ SourceBytes' # Absent
  BY <1>1, <1>4, MovingFacts DEF TypeOK, Absent
<1>6. Placed'
  BY <1>4, <1>5 DEF Placed
<1> QED BY <1>3, <1>6

LEMMA CopyCommitIInv == IInv /\ CopyCommit => IInv'
<1> SUFFICES ASSUME IInv, CopyCommit PROVE IInv'
  OBVIOUS
<1> USE DEF IInv, CopyCommit, planning, durable, faultVars
<1>1. disk[Dest][temp] \in Nat \cup {Absent} /\ temp \in Names
  BY MovingFacts DEF TypeOK, Names
<1>2. disk' \in [Dirs -> [Names -> Nat \cup {Absent}]]
  BY <1>1, MovingFacts DEF TypeOK
<1>3. hit' \subseteq FaultKinds /\ faults' \in Nat
  BY DEF TypeOK, NoFault, Fault, Inject, FaultKinds
<1>4. TypeOK'
  BY <1>2, <1>3, TempFacts DEF TypeOK, Phases
<1>5. Placed'
  BY DEF Placed, IsLocal, Current
<1> QED BY <1>4, <1>5

LEMMA CopyFailIInv == IInv /\ CopyFail => IInv'
<1> SUFFICES ASSUME IInv, CopyFail PROVE IInv'
  OBVIOUS
<1> USE DEF IInv, CopyFail, planning, durable, faultVars, AfterError, Advance, Fault, Inject, FaultKinds
<1>1. disk' \in [Dirs -> [Names -> Nat \cup {Absent}]]
  <2>1. temp \in Names
    BY DEF TypeOK, Names
  <2>2. CASE disk' = [disk EXCEPT ![Dest][temp] = Absent]
    BY <2>1, <2>2, MovingFacts DEF TypeOK
  <2>3. CASE UNCHANGED disk
    BY <2>3 DEF TypeOK
  <2> QED BY <2>2, <2>3
<1>2. hit' \subseteq FaultKinds /\ faults' \in Nat
  BY DEF TypeOK
<1>3. TypeOK'
  BY <1>1, <1>2, TempFacts DEF TypeOK, Phases
<1>4. Placed'
  BY DEF Placed
<1> QED BY <1>3, <1>4

LEMMA MoveFailIInv == IInv /\ MoveFail => IInv'
<1> SUFFICES ASSUME IInv, MoveFail PROVE IInv'
  OBVIOUS
<1> USE DEF IInv, MoveFail, planning, durable, faultVars, Advance, NoFault, Fault, Inject, FaultKinds
<1>1. hit' \subseteq FaultKinds /\ faults' \in Nat
  BY DEF TypeOK
<1>2. TypeOK'
  BY <1>1 DEF TypeOK, Phases
<1>3. Placed'
  BY DEF Placed, Moving, Executing
<1> QED BY <1>2, <1>3

LEMMA UnlinkIInv == IInv /\ Unlink => IInv'
<1> SUFFICES ASSUME IInv, Unlink PROVE IInv'
  OBVIOUS
<1> USE DEF IInv, Unlink, planning, durable, faultVars, Advance, NoFault, Fault, Inject, FaultKinds
<1>1. disk' \in [Dirs -> [Names -> Nat \cup {Absent}]]
  <2>1. CASE disk' = [disk EXCEPT ![Source][Current.name] = Absent]
    BY <2>1, MovingFacts DEF TypeOK
  <2>2. CASE UNCHANGED disk
    BY <2>2 DEF TypeOK
  <2> QED BY <2>1, <2>2
<1>2. hit' \subseteq FaultKinds /\ faults' \in Nat
  BY DEF TypeOK
<1>3. TypeOK'
  BY <1>1, <1>2 DEF TypeOK, Phases
<1>4. Placed'
  BY DEF Placed, IsLocal, Current
<1> QED BY <1>3, <1>4

LEMMA RetierIInv == IInv /\ Retier => IInv'
<1> SUFFICES ASSUME IInv, Retier PROVE IInv'
  OBVIOUS
<1> USE DEF IInv, Retier, planning, durable, faultVars, TierRow, Advance, NoFault, Fault, Inject, FaultKinds
<1>1. /\ Current.name \in Names /\ Current.size \in Nat /\ Current.target \in Nat \ {0}
  BY MovingFacts, CurrentFacts, LayoutFacts DEF Placed, TypeOK
<1>2. [size |-> Current.size, tier |-> Current.target] \in Entry
  BY <1>1 DEF Entry
<1>3. inventory' \in [Names -> Entry] /\ EntriesOK(inventory')
  BY <1>1, <1>2 DEF TypeOK, Placed, EntriesOK
<1>4. localSizes' \in [Names -> Entry] /\ EntriesOK(localSizes')
  <2>1. CASE localSizes' = localSizes
    BY <2>1 DEF TypeOK, Placed, EntriesOK
  <2>2. CASE localSizes' = [localSizes EXCEPT ![Current.name].tier = Current.target]
    <3>1. localSizes \in [Names -> Entry]
      BY DEF TypeOK
    <3>2. localSizes' \in [Names -> Entry]
      BY <1>1, <2>2, <3>1 DEF Entry
    <3>3. localSizes'[Current.name].tier # 0
      BY <1>1, <2>2, <3>1 DEF Entry
    <3>4. \A n \in Names \ {Current.name} : localSizes'[n] = localSizes[n]
      BY <1>1, <2>2, <3>1
    <3> QED BY <3>2, <3>3, <3>4 DEF Placed, EntriesOK
  <2> QED BY <2>1, <2>2
<1>5. hit' \subseteq FaultKinds /\ faults' \in Nat
  BY DEF TypeOK
<1>6. TypeOK'
  BY <1>3, <1>4, <1>5 DEF TypeOK, Phases
<1>7. Placed'
  BY <1>3, <1>4 DEF Placed
<1> QED BY <1>6, <1>7

LEMMA CleanupIInv == IInv /\ Cleanup => IInv'
<1> SUFFICES ASSUME IInv, Cleanup PROVE IInv'
  OBVIOUS
<1> USE DEF IInv, Cleanup, planning, durable, faultVars, Inject, FaultKinds
<1>1. remoteSizes' \in [Files -> Nat \cup {Unknown, Gone}] /\ aged' \subseteq Files
  BY DEF TypeOK
<1>2. localSizes' \in [Names -> Entry] /\ EntriesOK(localSizes')
  BY DEF TypeOK, Placed, EntriesOK, Nowhere, Entry
<1>3. hit' \subseteq FaultKinds /\ faults' \in Nat
  BY DEF TypeOK
<1>4. TypeOK'
  BY <1>1, <1>2, <1>3 DEF TypeOK, Phases
<1>5. Placed'
  BY <1>2 DEF Placed
<1> QED BY <1>4, <1>5

LEMMA CrashIInv == IInv /\ Crash => IInv'
<1> SUFFICES ASSUME IInv, Crash PROVE IInv'
  OBVIOUS
<1> USE DEF IInv, Crash, planning, durable, faultVars, Fault, Inject, FaultKinds
<1>1. EmptyInventory \in [Names -> Entry] /\ EntriesOK(EmptyInventory)
  BY DEF EmptyInventory, Nowhere, Entry, EntriesOK
<1>2. hit' \subseteq FaultKinds /\ faults' \in Nat
  BY DEF TypeOK
<1>3. TypeOK'
  BY <1>1, <1>2, TempFacts DEF TypeOK, Phases
<1>4. Placed'
  BY <1>1 DEF Placed
<1> QED BY <1>3, <1>4

LEMMA StutterIInv == IInv /\ UNCHANGED vars => IInv'
  BY DEF IInv, TypeOK, Placed, vars, EntriesOK, CandidateOK, IsLocal, Current, SourceBytes,
         Source, Dest

(***************************************************************************)
(* The state always has its type and the program counter its place: the    *)
(* run of cache.go never works on an assignment, a tier or a file there is *)
(* not, except where the model says it panics.                             *)
(***************************************************************************)
THEOREM Invariance == Spec => []IInv
<1>1. Init => IInv
  BY InitIInv
<1>2. IInv /\ [Next]_vars => IInv'
  BY StartIInv, WalkTierIInv, ResolveIInv, AssignIInv, AssignDoneIInv, ExecuteDoneIInv,
     SkipIInv, PanicIInv, EvictIInv, ForgetIInv, FetchWriteIInv, FetchCommitIInv,
     FetchFailIInv, RecordIInv, MoveRenameIInv, CopyWriteIInv, CopyRestIInv,
     CopyCommitIInv, CopyFailIInv, MoveFailIInv, UnlinkIInv, RetierIInv, CleanupIInv,
     CrashIInv, StutterIInv
  DEF Next, Step, Move, Fetch, Eviction
<1> QED BY <1>1, <1>2, PTL DEF Spec

\* The type invariant of the run's state (all of CacheManager.Run).
THEOREM TypeCorrect == Spec => []TypeOK
<1>1. IInv => TypeOK
  BY DEF IInv
<1> QED BY <1>1, Invariance, PTL

\* A fault that befell a run stays recorded.
LEMMA HitGrows == [Next]_vars => hit \subseteq hit'
<1> SUFFICES ASSUME [Next]_vars PROVE hit \subseteq hit'
  OBVIOUS
<1> USE DEF Inject, NoFault, Fault, faultVars
<1>1. CASE Start \/ Crash \/ WalkTier \/ Resolve \/ Assign \/ AssignDone \/ UNCHANGED vars
  BY <1>1 DEF Start, Crash, WalkTier, Resolve, Assign, AssignDone, vars
<1>2. CASE Skip \/ Panic \/ Eviction \/ Fetch \/ ExecuteDone \/ Cleanup
  BY <1>2 DEF Skip, Panic, Eviction, Evict, Forget, Fetch, FetchWrite, FetchCommit, FetchFail,
              Record, ExecuteDone, Cleanup
<1>3. CASE Move
  BY <1>3 DEF Move, MoveRename, CopyWrite, CopyRest, CopyCommit, CopyFail, MoveFail, Unlink, Retier
<1> QED BY <1>1, <1>2, <1>3 DEF Next, Step

\* A step that commits a file, as long as none ended early, commits all of it.
LEMMA NotShort ==
  ASSUME NEW whole \in BOOLEAN, IF whole THEN NoFault ELSE Fault("short"), "short" \notin hit'
  PROVE  whole
BY DEF NoFault, Fault, Inject

(***************************************************************************)
(* A package path never holds part of a package, unless a file ended early *)
(* without an error.  WholePackages needs no strengthening but IInv: the   *)
(* steps that write bytes write them to a Part or a Temp, whose names are  *)
(* no package's, and the steps that put something at a package path put    *)
(* there what is whole.                                                    *)
(***************************************************************************)
LEMMA WholeStep == IInv /\ WholePackages /\ [Next]_vars => WholePackages'
<1> SUFFICES ASSUME IInv, WholePackages, [Next]_vars, "short" \notin hit',
                    NEW d \in Dirs, NEW f \in Files
             PROVE  disk'[d][f] \in {Absent, Size[f]}
  BY DEF WholePackages
<1>0. "short" \notin hit
  BY HitGrows
<1>1. disk[d][f] \in {Absent, Size[f]} /\ f \in Names
  BY <1>0 DEF WholePackages, Names
<1>2. disk \in [Dirs -> [Names -> Nat \cup {Absent}]]
  BY DEF IInv, TypeOK
<1>3. CASE UNCHANGED disk
  BY <1>1, <1>3
<1>4. CASE Evict
  BY <1>1, <1>2, <1>4 DEF Evict
<1>5. CASE FetchWrite \/ FetchFail
  <2>1. Current.name \in Files
    BY <1>5, CurrentFacts DEF FetchWrite, FetchFail, Executing, IInv, Placed, IsLocal, CandidateOK
  <2>2. Part[Current.name] # f
    BY <2>1, NamesAssumption DEF NamesAssumption
  <2> QED BY <1>1, <1>2, <1>5, <2>2 DEF FetchWrite, FetchFail
<1>6. CASE FetchCommit
  <2>1. Current.name \in Files
    BY <1>6, CurrentFacts DEF FetchCommit, IInv, Placed, IsLocal, CandidateOK
  <2>2. Part[Current.name] # f
    BY <2>1, NamesAssumption DEF NamesAssumption
  <2>3. disk[Dest][Part[Current.name]] = Size[Current.name]
    BY <1>6, NotShort DEF FetchCommit, BodyComplete
  <2> QED BY <1>1, <1>2, <1>6, <2>2, <2>3 DEF FetchCommit
<1>7. CASE MoveRename
  <2>1. Current.name = f => SourceBytes \in {Absent, Size[f]}
    BY <1>0, <1>7, MovingFacts DEF MoveRename, WholePackages, SourceBytes
  <2> QED BY <1>1, <1>2, <1>7, <2>1, MovingFacts DEF MoveRename
<1>8. CASE CopyWrite \/ CopyRest \/ CopyFail
  <2>1. temp # f /\ \A t \in Temps : t # f
    BY NamesAssumption DEF NamesAssumption, IInv, TypeOK
  <2> QED BY <1>1, <1>2, <1>8, <2>1 DEF CopyWrite, CopyRest, CopyFail
<1>9. CASE CopyCommit
  <2>1. Current.name = f => SourceBytes \in {Absent, Size[f]}
    BY <1>0, <1>9, MovingFacts DEF CopyCommit, WholePackages, SourceBytes
  <2>2. temp # f
    BY NamesAssumption DEF NamesAssumption, IInv, TypeOK
  <2>3. disk[Dest][temp] = SourceBytes
    BY <1>9, NotShort DEF CopyCommit
  <2> QED BY <1>1, <1>2, <1>9, <2>1, <2>2, <2>3 DEF CopyCommit
<1>10. CASE Unlink
  BY <1>1, <1>2, <1>10 DEF Unlink
<1> QED
  BY <1>3, <1>4, <1>5, <1>6, <1>7, <1>8, <1>9, <1>10
  DEF Next, Step, Move, Fetch, Eviction, Start, WalkTier, Resolve, Assign, AssignDone, Skip,
      Panic, ExecuteDone, Cleanup, Forget, Record, MoveFail, Retier, Crash, durable, vars

\* Downloads and copies are never seen half done at a package path, unless one ended early
\* and no call said so.
THEOREM Wholeness == Spec => []WholePackages
<1>1. Init => WholePackages
  BY DEF Init, WholePackages, Names
<1> QED BY <1>1, WholeStep, Invariance, PTL DEF Spec

(***************************************************************************)
(* NoInversion.  It is inductive only with what makes the assignment pass  *)
(* greedy: the plan is sorted and ahead of what is pending, and a tier     *)
(* hotter than the one a file was given has, from then on, less room than  *)
(* the file needs.                                                         *)
(***************************************************************************)
Sorted ==
  /\ \A i, j \in 1..Len(plan) : i < j => ~ Outscores(plan[j], plan[i])
  /\ \A i \in 1..Len(plan) : \A c \in pending : ~ Outscores(c, plan[i])
Filled ==
  pc = "assign" =>
    \A i \in 1..Len(plan), t \in 1..Len(tiers) :
      Hotter(t, plan[i].target) => remaining[t] < plan[i].size
Unplanned == pc \in {"walk", "resolve"} => plan = << >>
GreedyInv == Unplanned /\ Sorted /\ Filled /\ NoInversion

LEMMA GreedyStep == IInv /\ GreedyInv /\ [Next]_vars => GreedyInv'
<1> SUFFICES ASSUME IInv, GreedyInv, [Next]_vars PROVE GreedyInv'
  OBVIOUS
<1>1. CASE Assign
  <2>1. PICK c \in pending, t \in 0..Len(tiers) :
          /\ Best(c) /\ FirstFit(c.size, t)
          /\ plan' = Append(plan, [c EXCEPT !.target = t])
          /\ remaining' = IF t = 0 THEN remaining ELSE [remaining EXCEPT ![t] = @ - c.size]
          /\ pending' = pending \ {c}
    BY <1>1 DEF Assign
  <2> DEFINE n == [c EXCEPT !.target = t]
  <2>2. /\ plan \in Seq(Candidate) /\ c \in Candidate /\ pending \subseteq Candidate
        /\ Len(tiers) \in Nat /\ remaining \in [1..Len(tiers) -> Nat]
        /\ pc = "assign" /\ tiers' = tiers
    BY <1>1, LayoutFacts DEF IInv, TypeOK, Placed, Assign
  <2>3. /\ n \in Candidate /\ n.target = t /\ n.size = c.size /\ n.votes = c.votes
        /\ t \in Nat /\ c.size \in Nat /\ c.votes \in Nat
    <3>1. t \in Nat
      BY <2>2
    <3>2. c.size \in Nat /\ c.votes \in Nat
      BY <2>2 DEF Candidate
    <3>3. n \in Candidate /\ n.target = t /\ n.size = c.size /\ n.votes = c.votes
      BY <2>2, <3>1 DEF Candidate
    <3> QED BY <3>1, <3>2, <3>3
  <2> HIDE DEF n
  <2>4. /\ Len(plan') = Len(plan) + 1 /\ Len(plan) \in Nat
        /\ \A i \in 1..Len(plan) : plan'[i] = plan[i]
        /\ plan'[Len(plan')] = n
    BY <2>1, <2>2, <2>3 DEF n
  <2>5. \A o \in Candidate : /\ Outscores(o, n) <=> Outscores(o, c)
                             /\ Outscores(n, o) <=> Outscores(c, o)
    BY <2>3 DEF Outscores
  <2>6. \A i \in 1..Len(plan) : plan[i] \in Candidate /\ plan[i].size \in Nat
    <3>1. \A i \in 1..Len(plan) : plan[i] \in Candidate
      BY <2>2
    <3>2. \A o \in Candidate : o.size \in Nat
      BY DEF Candidate
    <3> QED BY <3>1, <3>2
  <2>11. ~ Outscores(n, n)
    <3>1. Weight(n.size) \in Int
      BY <2>3, ConfigAssumption DEF Weight, ConfigAssumption
    <3>2. n.votes * Weight(n.size) \in Int
      BY <2>3, <3>1
    <3> QED BY <3>2 DEF Outscores
  <2>7. Sorted'
    <3>2. \A i, j \in 1..Len(plan') : i < j => ~ Outscores(plan'[j], plan'[i])
      <4> SUFFICES ASSUME NEW i \in 1..Len(plan'), NEW j \in 1..Len(plan'), i < j
                   PROVE ~ Outscores(plan'[j], plan'[i])
        OBVIOUS
      <4>1. i \in 1..Len(plan) /\ plan'[i] = plan[i]
        BY <2>4
      <4>2. CASE j \in 1..Len(plan)
        BY <2>4, <4>1, <4>2 DEF GreedyInv, Sorted
      <4>3. CASE j = Len(plan')
        <5>1. ~ Outscores(c, plan[i])
          BY <4>1 DEF GreedyInv, Sorted
        <5> QED BY <2>4, <2>5, <2>6, <4>1, <4>3, <5>1
      <4> QED BY <2>4, <4>2, <4>3
    <3>3. \A i \in 1..Len(plan') : \A o \in pending' : ~ Outscores(o, plan'[i])
      <4> SUFFICES ASSUME NEW i \in 1..Len(plan'), NEW o \in pending'
                   PROVE ~ Outscores(o, plan'[i])
        OBVIOUS
      <4>1. o \in pending /\ o \in Candidate
        BY <2>1, <2>2
      <4>2. CASE i \in 1..Len(plan)
        BY <2>4, <4>1, <4>2 DEF GreedyInv, Sorted
      <4>3. CASE i = Len(plan')
        BY <2>1, <2>4, <2>5, <4>1, <4>3 DEF Best
      <4> QED BY <2>4, <4>2, <4>3
    <3> QED BY <3>2, <3>3 DEF Sorted
  <2>8. \A u \in 1..Len(tiers) :
          /\ remaining'[u] <= remaining[u]
          /\ Hotter(u, t) => remaining'[u] < c.size
    <3> SUFFICES ASSUME NEW u \in 1..Len(tiers)
                 PROVE /\ remaining'[u] <= remaining[u]
                       /\ Hotter(u, t) => remaining'[u] < c.size
      OBVIOUS
    <3>1. remaining[u] \in Nat /\ t \in Nat /\ u \in Nat /\ c.size \in Nat
      BY <2>2, <2>3
    <3>2. Hotter(u, t) => remaining[u] < c.size
      BY <2>1, <3>1 DEF FirstFit, Hotter
    <3>3. remaining' = remaining \/ remaining' = [remaining EXCEPT ![t] = @ - c.size]
      BY <2>1
    <3>4. remaining'[u] = remaining[u] \/ remaining'[u] = remaining[u] - c.size
      BY <2>2, <3>3
    <3> QED BY <3>1, <3>2, <3>4
  <2>9. Filled'
    <3> SUFFICES ASSUME NEW i \in 1..Len(plan'), NEW u \in 1..Len(tiers),
                        Hotter(u, plan'[i].target)
                 PROVE remaining'[u] < plan'[i].size
      BY <2>2 DEF Filled
    <3>1. CASE i \in 1..Len(plan)
      <4>1. remaining[u] < plan[i].size
        BY <2>2, <2>4, <3>1 DEF GreedyInv, Filled
      <4>2. remaining[u] \in Nat /\ remaining'[u] \in Int
        BY <2>1, <2>2, <2>3
      <4> QED BY <2>4, <2>6, <2>8, <3>1, <4>1, <4>2
    <3>2. CASE i = Len(plan')
      BY <2>3, <2>4, <2>8, <3>2
    <3> QED BY <2>4, <3>1, <3>2
  <2>10. NoInversion'
    <3> SUFFICES ASSUME NEW i \in 1..Len(plan'), NEW j \in 1..Len(plan'),
                        Outscores(plan'[i], plan'[j]),
                        Hotter(plan'[j].target, plan'[i].target)
                 PROVE plan'[j].size < plan'[i].size
      BY <2>1, <2>4 DEF NoInversion
    <3>1. CASE i \in 1..Len(plan) /\ j \in 1..Len(plan)
      BY <2>2, <2>4, <3>1 DEF GreedyInv, NoInversion
    <3>2. CASE i \in 1..Len(plan) /\ j = Len(plan')
      <4>1. Hotter(t, plan[i].target) /\ t \in 1..Len(tiers)
        BY <2>3, <2>4, <3>2 DEF Hotter
      <4>2. remaining[t] < plan[i].size
        BY <2>2, <4>1, <3>2 DEF GreedyInv, Filled
      <4>3. c.size <= remaining[t]
        BY <2>1, <4>1 DEF FirstFit
      <4>4. c.size < plan[i].size
        BY <2>2, <2>3, <2>6, <3>2, <4>1, <4>2, <4>3
      <4> QED BY <2>3, <2>4, <3>2, <4>4
    <3>3. CASE i = Len(plan') /\ j \in 1..Len(plan')
      <4>1. ~ Outscores(plan'[i], plan'[j])
        BY <2>4, <2>7, <2>11, <3>3 DEF Sorted
      <4> QED BY <4>1
    <3> QED BY <2>4, <3>1, <3>2, <3>3
  <2> QED BY <2>2, <2>7, <2>9, <2>10, <1>1 DEF GreedyInv, Unplanned, Assign
<1>2. CASE Start \/ Crash
  BY <1>2 DEF Start, Crash, GreedyInv, Unplanned, Sorted, Filled, NoInversion
<1>3. CASE Resolve
  BY <1>3 DEF Resolve, GreedyInv, Unplanned, Sorted, Filled, NoInversion
<1>4. CASE UNCHANGED <<pending, plan>> /\ pc' \notin {"walk", "resolve", "assign"}
  BY <1>4 DEF GreedyInv, Unplanned, Sorted, Filled, NoInversion
<1>5. CASE UNCHANGED <<pending, plan, pc, tiers, remaining>>
  BY <1>5 DEF GreedyInv, Unplanned, Sorted, Filled, NoInversion
<1>6. CASE WalkTier
  BY <1>6 DEF WalkTier, planning, GreedyInv, Unplanned, Sorted, Filled, NoInversion
<1>7. AssignDone \/ Skip \/ Panic \/ Eviction \/ Fetch \/ Move \/ ExecuteDone \/ Cleanup =>
        UNCHANGED <<pending, plan>> /\ pc' \notin {"walk", "resolve", "assign"}
  BY DEF AssignDone, Skip, Panic, Eviction, Evict, Forget, Fetch, FetchWrite, FetchCommit,
         FetchFail, Record, Move, MoveRename, CopyWrite, CopyRest, CopyCommit, CopyFail,
         MoveFail, Unlink, Retier, ExecuteDone, Cleanup, Advance, AfterError, planning,
         Executing, Moving
<1> QED
  BY <1>1, <1>2, <1>3, <1>4, <1>5, <1>6, <1>7 DEF Next, Step, vars

\* A worse file never takes room in a hotter tier that the better file could have had.
THEOREM Greedy == Spec => []NoInversion
<1>1. Init => GreedyInv
  BY DEF Init, GreedyInv, Unplanned, Sorted, Filled, NoInversion
<1>2. GreedyInv => NoInversion
  BY DEF GreedyInv
<1> QED BY <1>1, <1>2, GreedyStep, Invariance, PTL DEF Spec

(***************************************************************************)
(* OnlyEvictionLoses.  Four kinds of step remove a file: an eviction, the  *)
(* removal of a temp file, a rename (which puts the file elsewhere), and   *)
(* the removal of a source after a copy.  The last is harmless because the *)
(* copy is there by then.                                                  *)
(***************************************************************************)
Copied == pc = "unlink" => disk[Dest][Current.name] # Absent

LEMMA CopiedStep == IInv /\ Copied /\ [Next]_vars => Copied'
<1> SUFFICES ASSUME IInv, Copied, [Next]_vars PROVE Copied'
  OBVIOUS
<1>1. CASE CopyCommit
  <2>2. disk' = [disk EXCEPT ![Dest] = [@ EXCEPT ![temp] = Absent,
                                                ![Current.name] = disk[Dest][temp]]]
    BY <1>1 DEF CopyCommit
  <2>3. /\ disk \in [Dirs -> [Names -> Nat \cup {Absent}]] /\ Dest \in Dirs
        /\ Current.name \in Names /\ disk[Dest][temp] # Absent
    BY <1>1, MovingFacts DEF CopyCommit, IInv, TypeOK, Placed
  <2>4. disk'[Dest][Current.name] # Absent
    BY <2>2, <2>3
  <2>5. Dest' = Dest /\ Current' = Current
    BY <1>1 DEF CopyCommit, Dest, Current, planning
  <2> QED BY <2>4, <2>5 DEF Copied
<1>2. CASE UNCHANGED vars
  BY <1>2 DEF Copied, vars, Dest, Current
<1>3. CASE CopyRest
  BY <1>3 DEF CopyRest, Copied
<1>4. CASE Assign
  BY <1>4 DEF Assign, Copied
<1>5. Start \/ WalkTier \/ Resolve \/ AssignDone \/ Skip \/ Panic \/ Eviction \/ Fetch
      \/ MoveRename \/ CopyWrite \/ CopyFail \/ MoveFail \/ Unlink \/ Retier \/ ExecuteDone
      \/ Cleanup \/ Crash => pc' # "unlink"
  BY DEF Start, WalkTier, Resolve, AssignDone, Skip, Panic, Eviction, Evict, Forget, Fetch,
         FetchWrite, FetchCommit, FetchFail, Record, MoveRename, CopyWrite, CopyFail,
         MoveFail, Unlink, Retier, ExecuteDone, Cleanup, Crash, Advance, AfterError
<1> QED BY <1>1, <1>2, <1>3, <1>4, <1>5 DEF Next, Step, Move, Copied

LEMMA LossStep ==
  ASSUME IInv, Copied, [Next]_vars, NEW f \in Files, Cached(f), ~ Cached(f)'
  PROVE  pc = "execute" /\ at \in DOMAIN plan /\ Current.name = f /\ Current.target = 0
<1>1. PICK d \in Dirs : disk[d][f] # Absent
  BY DEF Cached
<1>2. \A e \in Dirs : disk'[e][f] = Absent
  BY DEF Cached
<1>3. disk \in [Dirs -> [Names -> Nat \cup {Absent}]] /\ f \in Names
  BY DEF IInv, TypeOK, Names
<1>4. ~ UNCHANGED disk
  BY <1>1, <1>2
<1>5. CASE Evict
  <2>1. Current.name = f
    BY <1>1, <1>2, <1>3, <1>5 DEF Evict
  <2>2. at \in DOMAIN plan
    BY <1>5, CurrentFacts DEF Evict, Executing, IInv, TypeOK
  <2> QED BY <1>5, <2>1, <2>2 DEF Evict, Executing
<1>6. CASE FetchWrite \/ FetchFail
  <2>1. Current.name \in Files
    BY <1>6, CurrentFacts DEF FetchWrite, FetchFail, Executing, IInv, Placed, IsLocal, CandidateOK
  <2>2. Part[Current.name] # f
    BY <2>1, NamesAssumption DEF NamesAssumption
  <2> QED BY <1>1, <1>2, <1>3, <1>6, <2>2 DEF FetchWrite, FetchFail
<1>7. CASE FetchCommit
  <2>1. Current.name \in Files /\ Dest \in Dirs
    BY <1>7, CurrentFacts DEF FetchCommit, IInv, Placed, IsLocal, CandidateOK
  <2>2. Part[Current.name] # f /\ disk[Dest][Part[Current.name]] # Absent
    BY <1>7, <2>1, NamesAssumption DEF NamesAssumption, FetchCommit, IInv, Placed
  <2> QED BY <1>1, <1>2, <1>3, <1>7, <2>1, <2>2 DEF FetchCommit
<1>8. CASE MoveRename
  <2>1. Source \in Dirs /\ Dest \in Dirs /\ Source # Dest /\ SourceBytes # Absent
    BY <1>8, MovingFacts DEF MoveRename
  <2> QED BY <1>1, <1>2, <1>3, <1>8, <2>1 DEF MoveRename
<1>9. CASE CopyWrite \/ CopyRest \/ CopyFail
  <2>1. temp # f /\ \A t \in Temps : t # f
    BY NamesAssumption DEF NamesAssumption, IInv, TypeOK
  <2> QED BY <1>1, <1>2, <1>3, <1>9, <2>1 DEF CopyWrite, CopyRest, CopyFail
<1>10. CASE CopyCommit
  <2>1. temp # f
    BY NamesAssumption DEF NamesAssumption, IInv, TypeOK
  <2>2. Dest \in Dirs /\ disk[Dest][temp] # Absent
    BY <1>10, MovingFacts DEF CopyCommit, IInv, Placed
  <2> QED BY <1>1, <1>2, <1>3, <1>10, <2>1, <2>2 DEF CopyCommit
<1>11. CASE Unlink
  <2>1. /\ Source \in Dirs /\ Dest \in Dirs /\ Source # Dest
        /\ disk[Dest][Current.name] # Absent
    BY <1>11, MovingFacts DEF Unlink, Copied
  <2> QED BY <1>1, <1>2, <1>3, <1>11, <2>1 DEF Unlink
<1> QED
  BY <1>4, <1>5, <1>6, <1>7, <1>8, <1>9, <1>10, <1>11
  DEF Next, Step, Move, Fetch, Eviction, Start, WalkTier, Resolve, Assign, AssignDone, Skip,
      Panic, ExecuteDone, Cleanup, Forget, Record, MoveFail, Retier, Crash, durable, vars

\* A package stops being cached only by an eviction that the assignment pass decided.
THEOREM NothingLost == Spec => OnlyEvictionLoses
<1>1. Init => Copied
  BY DEF Init, Copied
<1>2. Spec => []Copied
  BY <1>1, CopiedStep, Invariance, PTL DEF Spec
<1>3. IInv /\ Copied /\ [Next]_vars =>
        [\A f \in Files : Cached(f) /\ ~ Cached(f)' =>
           pc = "execute" /\ at \in DOMAIN plan /\ Current.name = f /\ Current.target = 0]_vars
  BY LossStep
<1> QED BY <1>2, <1>3, Invariance, PTL DEF Spec, OnlyEvictionLoses
=============================================================================
