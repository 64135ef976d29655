--------------------------- MODULE CacheRunProofs ---------------------------
(***************************************************************************)
(* What a run of CacheManager has done when it reaches its end: theorems   *)
(* about runs that no fault but crashes befell, for every value of the     *)
(* constants.  Those about tiers ask that the operator does not change the *)
(* list of tiers from run to run.                                          *)
(***************************************************************************)
EXTENDS CacheManagerProofs, FiniteSetTheorems

Levels == 1..Len(tiers)

(***************************************************************************)
(* The plan and the inventory.  A path is planned once; an assignment not  *)
(* yet executed still says of its file what the inventory says; each file  *)
(* of the inventory has an assignment; and the execution pass ends after   *)
(* the last one, or at the error threshold.                                *)
(***************************************************************************)
Walked     == pc \notin {"idle", "walk", "panicked"}
Assigned   == Walked /\ pc # "resolve"
Planned(n) == \E i \in 1..Len(plan) : plan[i].name = n
Waiting(n) == \E c \in pending : c.name = n
Matches(c) == /\ inventory[c.name].tier = c.tier
              /\ c.tier # 0 => inventory[c.name].size = c.size

Distinct ==
  /\ \A i, j \in 1..Len(plan) : plan[i].name = plan[j].name => i = j
  /\ \A c, d \in pending : c.name = d.name => c = d
  /\ \A i \in 1..Len(plan), c \in pending : plan[i].name # c.name
Matched ==
  /\ \A c \in pending : Matches(c)
  /\ \A i \in 1..Len(plan) : i >= at => Matches(plan[i])
  /\ pc \in {"resolve", "assign"} => at = 1
Covered  == Assigned => \A n \in Names : inventory[n] # Nowhere => Planned(n) \/ Waiting(n)
Drained  == Assigned /\ pc # "assign" => pending = {}
Unplanned2 == pc \in {"walk", "resolve"} => plan = << >> /\ pending = {}
Finished == pc \in {"cleanup", "done"} => at > Len(plan) \/ errors >= ErrorThreshold

PlanInv == Distinct /\ Matched /\ Covered /\ Drained /\ Unplanned2 /\ Finished

\* The execution pass, its end and phase E.
Exec == \/ Skip \/ Panic \/ Eviction \/ Fetch \/ Move \/ ExecuteDone \/ Cleanup

\* No step of the execution pass touches the plan, and the inventory changes only for the
\* assignment that is left behind by the step.
LEMMA ExecFrame ==
  ASSUME IInv, Exec
  PROVE  /\ UNCHANGED <<tiers, pending, plan, remaining, runs>>
         /\ pc \notin {"idle", "walk", "resolve", "assign", "done", "panicked"}
         /\ pc' \notin {"idle", "walk", "resolve", "assign"}
         /\ pc' \in {"cleanup", "done"} => at' = at
         /\ \/ inventory' = inventory /\ at' \in {at, at + 1}
            \/ /\ at \in 1..Len(plan) /\ Current.name \in Names /\ at' = at + 1
               /\ pc \in {"forget", "record", "retier"}
               /\ \A n \in Names \ {Current.name} : inventory'[n] = inventory[n]
<1> USE DEF Advance, AfterError, planning, durable, faultVars
<1>1. CASE Skip \/ Panic \/ Evict \/ FetchWrite \/ FetchCommit \/ FetchFail \/ ExecuteDone
  BY <1>1 DEF Skip, Panic, Evict, FetchWrite, FetchCommit, FetchFail, ExecuteDone, Executing
<1>2. CASE \/ MoveRename \/ CopyWrite \/ CopyRest \/ CopyCommit \/ CopyFail \/ MoveFail
           \/ Unlink \/ Cleanup
  BY <1>2 DEF MoveRename, CopyWrite, CopyRest, CopyCommit, CopyFail, MoveFail, Unlink,
              Cleanup, Moving, Executing
<1>3. CASE Forget \/ Record \/ Retier
  <2>1. at \in 1..Len(plan) /\ Current.name \in Names
    BY <1>3, CurrentFacts DEF Forget, Record, Retier, IInv, Placed
  <2>2. \A n \in Names \ {Current.name} : inventory'[n] = inventory[n]
    BY <1>3, <2>1 DEF Forget, Record, Retier, IInv, TypeOK
  <2> QED BY <1>3, <2>1, <2>2 DEF Forget, Record, Retier
<1> QED BY <1>1, <1>2, <1>3 DEF Exec, Eviction, Fetch, Move

\* The steps of a run by what they do to the plan.
LEMMA StepKinds ==
  [Next]_vars =>
    \/ Start \/ Crash \/ WalkTier \/ Resolve \/ Assign \/ AssignDone \/ Exec \/ UNCHANGED vars
BY DEF Next, Step, Exec

(***************************************************************************)
(* Phase C: one candidate for each path of the inventory, and one for each *)
(* popular file it lacks, with a size that is within the limit and that of *)
(* the file as long as HEAD answers have a length.                         *)
(***************************************************************************)
SizeKnown(c) == c.tier = 0 => c.size = Size[c.name] /\ c.size <= FilesizeLimit
SizesKnown   == \A f \in Files : remoteSizes[f] \in {Unknown, Gone, Size[f]}

LEMMA ResolveGives ==
  ASSUME IInv, Resolve
  PROVE  /\ \A c \in pending' : c.name \in Names /\ Matches(c)
         /\ \A c, d \in pending' : c.name = d.name => c = d
         /\ \A n \in Names : inventory[n] # Nowhere => \E c \in pending' : c.name = n
         /\ \A c \in pending' : c.tier = 0 => inventory[c.name] = Nowhere
         /\ hit \subseteq hit'
         /\ "nolength" \notin hit' /\ SizesKnown =>
              SizesKnown' /\ \A c \in pending' : SizeKnown(c)
<1>1. PICK votes \in [Files -> VoteCounts] :
        \E answer \in [Missing(votes) -> UNION {Answers(f) : f \in Missing(votes)}] :
          /\ \A f \in Missing(votes) : answer[f] \in Answers(f)
          /\ \E stored \in SUBSET Asked(votes, answer) :
               /\ Inject((IF stored = Asked(votes, answer) THEN {} ELSE {"db"})
                         \cup {"nolength" : f \in {g \in Missing(votes) : answer[g] = NoLength}})
               /\ remoteSizes' = [f \in Files |-> IF f \in stored THEN Length(answer[f])
                                                 ELSE remoteSizes[f]]
          /\ pending' = Local(votes) \cup Wanted(votes, answer)
  BY DEF Resolve
<1>2. PICK answer \in [Missing(votes) -> UNION {Answers(f) : f \in Missing(votes)}] :
          /\ \A f \in Missing(votes) : answer[f] \in Answers(f)
          /\ \E stored \in SUBSET Asked(votes, answer) :
               /\ Inject((IF stored = Asked(votes, answer) THEN {} ELSE {"db"})
                         \cup {"nolength" : f \in {g \in Missing(votes) : answer[g] = NoLength}})
               /\ remoteSizes' = [f \in Files |-> IF f \in stored THEN Length(answer[f])
                                                 ELSE remoteSizes[f]]
          /\ pending' = Local(votes) \cup Wanted(votes, answer)
  BY <1>1
<1>3. PICK stored \in SUBSET Asked(votes, answer) :
          /\ Inject((IF stored = Asked(votes, answer) THEN {} ELSE {"db"})
                    \cup {"nolength" : f \in {g \in Missing(votes) : answer[g] = NoLength}})
          /\ remoteSizes' = [f \in Files |-> IF f \in stored THEN Length(answer[f])
                                            ELSE remoteSizes[f]]
  BY <1>2
<1>4. \A c \in Local(votes) :
        /\ c.name \in Names /\ inventory[c.name] # Nowhere
        /\ c.tier = inventory[c.name].tier /\ c.size = inventory[c.name].size
        /\ c.tier # 0
  BY DEF Local, IInv, Placed, EntriesOK
<1>5. \A c, d \in Local(votes) : c.name = d.name => c = d
  BY DEF Local
<1>6. \A c \in Wanted(votes, answer) :
        /\ c.name \in Missing(votes) /\ c.name \in Names /\ inventory[c.name] = Nowhere
        /\ c.tier = 0 /\ c.size = Length(answer[c.name]) /\ c.size <= FilesizeLimit /\ c.size >= 0
  BY DEF Wanted, Missing, Fetchable, Names
<1>7. \A c, d \in Wanted(votes, answer) : c.name = d.name => c = d
  BY DEF Wanted
<1>8. \A c \in pending' : c.name \in Names /\ Matches(c)
  BY <1>2, <1>4, <1>6 DEF Matches, Nowhere
<1>9. \A c, d \in pending' : c.name = d.name => c = d
  BY <1>2, <1>4, <1>5, <1>6, <1>7
<1>10. ASSUME NEW n \in Names, inventory[n] # Nowhere PROVE \E c \in pending' : c.name = n
  <2> DEFINE c == [name |-> n, size |-> inventory[n].size,
                   votes |-> IF n \in Files THEN votes[n] ELSE 0,
                   tier |-> inventory[n].tier, target |-> 0]
  <2>1. c \in Local(votes)
    BY <1>10 DEF Local
  <2> QED BY <1>2, <2>1
<1>11. hit \subseteq hit'
  BY <1>3 DEF Inject
<1>12. \A c \in pending' : c.tier = 0 => inventory[c.name] = Nowhere
  BY <1>2, <1>4, <1>6
<1>13. ASSUME "nolength" \notin hit', SizesKnown
       PROVE  SizesKnown' /\ \A c \in pending' : SizeKnown(c)
  <2>1. \A f \in Missing(votes) : answer[f] # NoLength
    BY <1>3, <1>13 DEF Inject
  <2>2. \A f \in Missing(votes) :
          f \in Files /\ Length(answer[f]) \in {Failed, Unknown, Gone, Size[f]}
    BY <1>2, <1>13, <2>1 DEF Answers, Length, Missing, SizesKnown
  <2>3. \A f \in stored : f \in Missing(votes) /\ answer[f] # Failed /\ answer[f] # NoLength
    BY <2>1 DEF Asked
  <2>4. \A f \in stored : Length(answer[f]) \in {Unknown, Gone, Size[f]}
    BY <1>2, <1>13, <2>3 DEF Answers, Length, Missing, SizesKnown
  <2>5. SizesKnown'
    BY <1>3, <1>13, <2>4 DEF SizesKnown
  <2>6. \A c \in Wanted(votes, answer) : SizeKnown(c)
    BY <1>6, <2>2 DEF SizeKnown, Failed, Unknown, Gone
  <2> QED BY <1>2, <1>4, <2>5, <2>6 DEF SizeKnown
<1> QED BY <1>8, <1>9, <1>10, <1>11, <1>12, <1>13

LEMMA PlanStep == IInv /\ PlanInv /\ [Next]_vars => PlanInv'
<1> SUFFICES ASSUME IInv, PlanInv, [Next]_vars PROVE PlanInv'
  OBVIOUS
<1> USE DEF PlanInv
<1>1. CASE Start \/ Crash
  BY <1>1 DEF Start, Crash, Distinct, Matched, Covered, Drained, Unplanned2, Finished,
              Assigned, Walked
<1>2. CASE WalkTier
  BY <1>2 DEF WalkTier, planning, Distinct, Matched, Covered, Drained, Unplanned2, Finished,
              Assigned, Walked
<1>3. CASE Resolve
  <2>1. /\ plan' = << >> /\ at' = 1 /\ pc' = "assign" /\ inventory' = inventory
    BY <1>3 DEF Resolve, Unplanned2, Matched
  <2>2. \A c \in pending' : Matches(c)'
    BY <1>3, <2>1, ResolveGives DEF Matches
  <2>3. Distinct' /\ Matched'
    BY <1>3, <2>1, <2>2, ResolveGives DEF Distinct, Matched
  <2>4. Covered'
    BY <1>3, <2>1, ResolveGives DEF Covered, Waiting
  <2> QED BY <2>1, <2>3, <2>4 DEF Drained, Unplanned2, Finished, Assigned, Walked
<1>4. CASE Assign
  <2>1. PICK c \in pending, t \in 0..Len(tiers) :
          /\ plan' = Append(plan, [c EXCEPT !.target = t])
          /\ pending' = pending \ {c}
    BY <1>4 DEF Assign
  <2> DEFINE n == [c EXCEPT !.target = t]
  <2>2. c \in Candidate /\ t \in Nat /\ plan \in Seq(Candidate)
    BY LayoutFacts DEF IInv, TypeOK
  <2>3. n \in Candidate /\ n.name = c.name /\ n.tier = c.tier /\ n.size = c.size
    BY <2>2 DEF Candidate
  <2> HIDE DEF n
  <2>4. /\ Len(plan') = Len(plan) + 1 /\ Len(plan) \in Nat
        /\ \A i \in 1..Len(plan) : plan'[i] = plan[i]
        /\ plan'[Len(plan')] = n
    BY <2>1, <2>2, <2>3 DEF n
  <2>5. \A i \in 1..Len(plan') :
          \/ i \in 1..Len(plan) /\ plan'[i] = plan[i]
          \/ i = Len(plan') /\ plan'[i] = n
    BY <2>4
  <2>6. UNCHANGED <<inventory, at, pc>> /\ pc = "assign"
    BY <1>4 DEF Assign
  <2>7. Distinct'
    <3>1. \A i, j \in 1..Len(plan') : plan'[i].name = plan'[j].name => i = j
      BY <2>3, <2>5 DEF Distinct
    <3>2. \A i \in 1..Len(plan'), d \in pending' : plan'[i].name # d.name
      BY <2>1, <2>3, <2>5 DEF Distinct
    <3> QED BY <2>1, <3>1, <3>2 DEF Distinct
  <2>8. Matched'
    BY <2>1, <2>3, <2>5, <2>6 DEF Matched, Matches
  <2>9. Covered'
    <3> SUFFICES ASSUME NEW m \in Names, inventory[m] # Nowhere
                 PROVE  Planned(m)' \/ Waiting(m)'
      BY <2>6 DEF Covered
    <3>1. CASE Planned(m)
      BY <2>4, <3>1 DEF Planned
    <3>2. CASE m = c.name
      BY <2>3, <2>4, <3>2 DEF Planned
    <3>3. CASE Waiting(m) /\ m # c.name
      BY <2>1, <3>3 DEF Waiting
    <3> QED BY <2>6, <3>1, <3>2, <3>3 DEF Covered, Assigned, Walked
  <2> QED BY <2>6, <2>7, <2>8, <2>9 DEF Drained, Unplanned2, Finished
<1>5. CASE AssignDone
  BY <1>5 DEF AssignDone, planning, durable, Distinct, Matched, Matches, Covered, Drained,
              Unplanned2, Finished, Assigned, Walked, Planned, Waiting
<1>6. CASE Exec
  <2>1. Distinct'
    BY <1>6, ExecFrame DEF Distinct
  <2>2. Matched'
    <3>1. \A i \in 1..Len(plan) : i >= at' => Matches(plan[i])'
      <4> SUFFICES ASSUME NEW i \in 1..Len(plan), i >= at' PROVE Matches(plan[i])'
        OBVIOUS
      <4>1. at \in Nat /\ at' \in {at, at + 1} /\ plan' = plan
        BY <1>6, ExecFrame DEF IInv, TypeOK
      <4>2. Matches(plan[i]) /\ plan[i].name \in Names
        <5>1. i >= at
          BY <4>1 DEF IInv, TypeOK
        <5>2. plan[i] \in Candidate
          BY DEF IInv, TypeOK
        <5> QED BY <5>1, <5>2 DEF Matched, Candidate
      <4>3. inventory'[plan[i].name] = inventory[plan[i].name]
        <5>1. CASE inventory' = inventory
          BY <5>1
        <5>2. CASE inventory' # inventory
          <6>1. at \in 1..Len(plan) /\ at' = at + 1 /\ i # at
            BY <1>6, <4>1, <5>2, ExecFrame
          <6>2. plan[i].name # Current.name
            BY <6>1 DEF Distinct, Current
          <6> QED BY <1>6, <4>2, <5>2, <6>2, ExecFrame
        <5> QED BY <5>1, <5>2
      <4> QED BY <4>1, <4>2, <4>3 DEF Matches
    <3>2. \A c \in pending : Matches(c)'
      BY <1>6, ExecFrame DEF Drained, Assigned, Walked
    <3> QED BY <1>6, <3>1, <3>2, ExecFrame DEF Matched
  <2>3. Covered'
    <3> SUFFICES ASSUME NEW m \in Names, inventory'[m] # Nowhere
                 PROVE  Planned(m)' \/ Waiting(m)'
      BY DEF Covered
    <3>1. CASE inventory'[m] = inventory[m]
      BY <1>6, <3>1, ExecFrame DEF Covered, Assigned, Walked, Planned, Waiting
    <3>2. CASE inventory'[m] # inventory[m]
      <4>1. at \in 1..Len(plan) /\ Current.name = m
        BY <1>6, <3>2, ExecFrame
      <4> QED BY <1>6, <4>1, ExecFrame DEF Planned, Current
    <3> QED BY <3>1, <3>2
  <2>4. Drained' /\ Unplanned2'
    BY <1>6, ExecFrame DEF Drained, Unplanned2, Assigned, Walked
  <2>5. Finished'
    <3>1. pc' \in {"cleanup", "done"} => ExecuteDone \/ Cleanup
      BY <1>6 DEF Exec, Skip, Panic, Eviction, Evict, Forget, Fetch, FetchWrite, FetchCommit,
                  FetchFail, Record, Move, MoveRename, CopyWrite, CopyRest, CopyCommit,
                  CopyFail, MoveFail, Unlink, Retier, Advance, AfterError
    <3>2. ExecuteDone \/ Cleanup => Finished'
      BY DEF ExecuteDone, Cleanup, planning, Finished
    <3> QED BY <3>1, <3>2 DEF Finished
  <2> QED BY <2>1, <2>2, <2>3, <2>4, <2>5
<1>7. CASE UNCHANGED vars
  BY <1>7 DEF vars, Distinct, Matched, Matches, Covered, Drained, Unplanned2, Finished,
              Assigned, Walked, Planned, Waiting
<1> QED BY <1>1, <1>2, <1>3, <1>4, <1>5, <1>6, <1>7, StepKinds

LEMMA PlanInvariance == Spec => []PlanInv
<1>1. Init => PlanInv
  BY DEF Init, PlanInv, Distinct, Matched, Covered, Drained, Unplanned2, Finished, Assigned,
         Walked
<1> QED BY <1>1, PlanStep, Invariance, PTL DEF Spec

(***************************************************************************)
(* FetchedWithinLimit.  A download runs after phase C only, so the size in *)
(* its assignment has to be the one upstream: as long as each HEAD answer  *)
(* had a length, so has each row of remote_sizes, of whatever run.         *)
(***************************************************************************)
Priced ==
  "nolength" \notin hit =>
    /\ SizesKnown
    /\ \A c \in pending : SizeKnown(c)
    /\ \A i \in 1..Len(plan) : SizeKnown(plan[i])

LEMMA PricedStep == IInv /\ PlanInv /\ Priced /\ [Next]_vars => Priced'
<1> SUFFICES ASSUME IInv, PlanInv, Priced, [Next]_vars, "nolength" \notin hit'
             PROVE  /\ SizesKnown'
                    /\ \A c \in pending' : SizeKnown(c)
                    /\ \A i \in 1..Len(plan') : SizeKnown(plan'[i])
  BY DEF Priced, SizeKnown
<1>1. /\ SizesKnown
      /\ \A c \in pending : SizeKnown(c)
      /\ \A i \in 1..Len(plan) : SizeKnown(plan[i])
  BY HitGrows DEF Priced
<1>2. CASE Start \/ Crash
  BY <1>1, <1>2 DEF Start, Crash, durable, SizesKnown
<1>3. CASE Resolve
  BY <1>1, <1>3, ResolveGives DEF Resolve, PlanInv, Unplanned2
<1>4. CASE Assign
  <2>1. PICK c \in pending, t \in 0..Len(tiers) :
          /\ plan' = Append(plan, [c EXCEPT !.target = t])
          /\ pending' = pending \ {c}
    BY <1>4 DEF Assign
  <2> DEFINE n == [c EXCEPT !.target = t]
  <2>2. c \in Candidate /\ t \in Nat /\ plan \in Seq(Candidate)
    BY LayoutFacts DEF IInv, TypeOK
  <2>3. n \in Candidate /\ n.name = c.name /\ n.tier = c.tier /\ n.size = c.size
    BY <2>2 DEF Candidate
  <2>4. SizeKnown(n)
    BY <1>1, <2>3 DEF SizeKnown
  <2> HIDE DEF n
  <2>5. \A i \in 1..Len(plan') : plan'[i] = n \/ (i \in 1..Len(plan) /\ plan'[i] = plan[i])
    BY <2>1, <2>2, <2>3 DEF n
  <2> QED BY <1>1, <1>4, <2>1, <2>4, <2>5 DEF Assign, durable, SizesKnown
<1>5. CASE WalkTier \/ AssignDone \/ UNCHANGED vars
  BY <1>1, <1>5 DEF WalkTier, AssignDone, planning, durable, vars, SizesKnown
<1>6. CASE Exec
  <2>1. \A f \in Files : remoteSizes'[f] \in {remoteSizes[f], Unknown}
    BY <1>6 DEF Exec, Skip, Panic, Eviction, Evict, Forget, Fetch, FetchWrite, FetchCommit,
                FetchFail, Record, Move, MoveRename, CopyWrite, CopyRest, CopyCommit,
                CopyFail, MoveFail, Unlink, Retier, ExecuteDone, Cleanup, durable
  <2> QED BY <1>1, <1>6, <2>1, ExecFrame DEF SizesKnown
<1> QED BY <1>2, <1>3, <1>4, <1>5, <1>6, StepKinds

LEMMA PricedInvariance == Spec => []Priced
<1>1. Init => Priced
  BY DEF Init, Priced, SizesKnown
<1> QED BY <1>1, PricedStep, Invariance, PlanInvariance, PTL DEF Spec

\* No file over filesize_limit is downloaded, whatever the tables say and whatever fails, as
\* long as each HEAD answer had a length.
THEOREM LimitKept == Spec => []FetchedWithinLimit
<1>1. IInv /\ Priced => FetchedWithinLimit
  <2> SUFFICES ASSUME IInv, Priced, pc = "record", "nolength" \notin hit
               PROVE  Size[Current.name] <= FilesizeLimit
    BY DEF FetchedWithinLimit
  <2>1. at \in 1..Len(plan) /\ Current.tier = 0
    BY DEF IInv, TypeOK, Placed, IsLocal
  <2> QED BY <2>1 DEF Priced, SizeKnown, Current
<1> QED BY <1>1, Invariance, PricedInvariance, PTL

(***************************************************************************)
(* Where the files are.  Healthy is the hypothesis of CrashHeals.  During  *)
(* a run, once the walk is over, each package is in the tier the inventory *)
(* says, except the one a step of phase D is half through with (Places);   *)
(* before that, the walked tiers agree with the inventory (Walking) and    *)
(* what is in the tiers to come is in one tier at most, and no row names   *)
(* another (Durable): this is all that a crash leaves a run to start from. *)
(***************************************************************************)
StableLayout == \A l, m \in Layouts : l = m

Healthy    == hit \subseteq {"crash"}
Touched(f) == pc \in {"record", "forget", "unlink", "retier"} /\ Current.name = f
Places(f)  == IF ~ Touched(f) THEN {inventory[f].tier}
              ELSE IF pc = "forget" THEN {}
              ELSE IF pc = "unlink" THEN {Current.tier, Current.target}
              ELSE {Current.target}
InPlace(f) == /\ inventory[f].tier <= Len(tiers)
              /\ \A t \in Levels :
                   disk[tiers[t]][f] = IF t \in Places(f) THEN Size[f] ELSE Absent
Single(f)  == \A t \in Levels : disk[tiers[t]][f] # Absent =>
                /\ localSizes[f].tier \in {0, t}
                /\ \A u \in Levels : disk[tiers[u]][f] # Absent => u = t
Seen(f)    == /\ inventory[f].tier < at
              /\ \A t \in 1..(at - 1) :
                   disk[tiers[t]][f] = IF inventory[f].tier = t THEN Size[f] ELSE Absent

Rows ==
  Healthy =>
    /\ \A n \in Names : inventory[n] # Nowhere => localSizes[n] = inventory[n]
    /\ \A f \in Files : localSizes[f] # Nowhere => localSizes[f].size = Size[f]
    /\ pc = "done" => localSizes = inventory
Durable == Healthy /\ ~ Walked => \A f \in Files : Single(f)
Walking == Healthy /\ pc = "walk" => \A f \in Files : Seen(f)
Located == Healthy /\ Walked => \A f \in Files : InPlace(f)

SiteInv == Rows /\ Durable /\ Walking /\ Located

\* The kinds of fault that a step of a healthy run may meet.
LEMMA HealthyFault ==
  ASSUME NEW kind, Fault(kind), Healthy'
  PROVE  kind = "crash"
BY DEF Fault, Inject, Healthy

LEMMA HealthyFaults ==
  ASSUME NEW kinds, Inject(kinds), Healthy'
  PROVE  kinds \subseteq {"crash"}
BY DEF Inject, Healthy

LEMMA HealthyBefore == [Next]_vars /\ Healthy' => Healthy
BY HitGrows DEF Healthy

\* A step that leaves the packages where they are, and the inventory and the rows as they are.
LEMMA SiteFrame ==
  ASSUME IInv, SiteInv, Healthy, Walked, Walked', UNCHANGED <<tiers, inventory, localSizes>>,
         \A f \in Files : ~ Touched(f) /\ ~ Touched(f)',
         pc' = "done" => pc = "done",
         \A d \in Dirs, f \in Files : disk'[d][f] = disk[d][f]
  PROVE  SiteInv'
<1>1. \A t \in Levels : tiers[t] \in Dirs
  BY LayoutFacts DEF Levels, IInv, TypeOK
<1>2. Located'
  BY <1>1 DEF SiteInv, Located, InPlace, Places, Levels
<1>3. Rows'
  BY DEF SiteInv, Rows
<1> QED BY <1>2, <1>3 DEF SiteInv, Durable, Walking, Walked

LEMMA StartSite ==
  ASSUME StableLayout, IInv, SiteInv, Start, Healthy'
  PROVE  SiteInv'
<1>1. tiers' = tiers /\ Healthy
  BY DEF StableLayout, IInv, TypeOK, Start, Healthy, NoFault, Inject
<1>2. ASSUME NEW f \in Files PROVE Single(f)
  <2>1. CASE pc = "done"
    <3>1. InPlace(f) /\ localSizes[f] = inventory[f] /\ Places(f) = {inventory[f].tier}
      BY <1>1, <2>1 DEF SiteInv, Located, Walked, Rows, Places, Touched, Names
    <3> QED BY <3>1 DEF InPlace, Single
  <2>2. CASE pc # "done"
    BY <1>1, <2>2 DEF SiteInv, Durable, Start, Resting, Walked
  <2> QED BY <2>1, <2>2
<1>3. Durable'
  BY <1>1, <1>2 DEF Durable, Single, Start, Levels
<1>4. Walking'
  BY DEF Walking, Seen, Start, EmptyInventory, Nowhere, Names
<1>5. Rows'
  BY <1>1 DEF SiteInv, Rows, Start, EmptyInventory
<1> QED BY <1>3, <1>4, <1>5 DEF SiteInv, Located, Walked, Start

LEMMA WalkTierSite ==
  ASSUME IInv, WholePackages, SiteInv, WalkTier, Healthy'
  PROVE  SiteInv'
<1> DEFINE here  == disk[tiers[at]]
           found == {n \in Names : here[n] # Absent}
           new   == {n \in found : inventory[n] = Nowhere}
           entry(n) == IF localSizes[n] # Nowhere THEN localSizes[n]
                       ELSE [size |-> here[n], tier |-> at]
<1>1. /\ Healthy /\ pc = "walk" /\ UNCHANGED <<disk, tiers>>
      /\ inventory'  = [n \in Names |-> IF n \in new THEN entry(n) ELSE inventory[n]]
      /\ localSizes' = [n \in Names |-> IF n \in new THEN entry(n) ELSE localSizes[n]]
  BY HealthyFault DEF WalkTier, NoFault, Fault, Inject, Healthy
<1>2. /\ at \in Levels /\ at \in Nat /\ tiers[at] \in Dirs /\ Len(tiers) \in Nat
      /\ disk \in [Dirs -> [Names -> Nat \cup {Absent}]]
  BY <1>1, LayoutFacts DEF Levels, IInv, TypeOK, Placed
<1> HIDE DEF new, found, here, entry
<1>3. ASSUME NEW f \in Files PROVE Single(f)'
  <2>1. f \in Names /\ Single(f) /\ localSizes[f] \in Entry
    BY <1>1 DEF SiteInv, Durable, Walked, Names, IInv, TypeOK
  <2>2. CASE f \in new
    <3>1. here[f] # Absent
      BY <2>2 DEF new, found
    <3>2. entry(f).tier \in {localSizes[f].tier, at}
      BY DEF entry
    <3> QED BY <1>1, <1>2, <2>1, <2>2, <3>1, <3>2 DEF Single, Levels, here
  <2>3. CASE f \notin new
    BY <1>1, <2>1, <2>3 DEF Single, Levels
  <2> QED BY <2>2, <2>3
<1>4. ASSUME NEW f \in Files
      PROVE  /\ inventory'[f].tier <= at
             /\ \A t \in 1..at :
                  disk[tiers[t]][f] = IF inventory'[f].tier = t THEN Size[f] ELSE Absent
  <2>1. /\ f \in Names /\ Single(f) /\ Seen(f) /\ localSizes[f] \in Entry
        /\ inventory[f] \in Entry /\ inventory[f].tier \in Nat
        /\ here[f] \in {Absent, Size[f]} /\ Size[f] # Absent
    <3>1. f \in Names /\ Single(f) /\ Seen(f)
      BY <1>1 DEF SiteInv, Durable, Walking, Walked, Names
    <3>2. localSizes[f] \in Entry /\ inventory[f] \in Entry
      BY <3>1 DEF IInv, TypeOK
    <3>3. here[f] \in {Absent, Size[f]} /\ Size[f] # Absent
      BY <1>1, <1>2, ConfigAssumption DEF WholePackages, here, ConfigAssumption, Absent, Healthy
    <3> QED BY <3>1, <3>2, <3>3 DEF Entry
  <2>2. CASE f \in new
    <3>1. here[f] # Absent /\ inventory[f] = Nowhere
      BY <2>2 DEF new, found
    <3>2. entry(f).tier = at
      <4>1. CASE localSizes[f] = Nowhere
        BY <4>1 DEF entry
      <4>2. CASE localSizes[f] # Nowhere
        BY <1>2, <2>1, <3>1, <4>2 DEF entry, Single, here, IInv, Placed, EntriesOK
      <4> QED BY <4>1, <4>2
    <3>3. inventory'[f].tier = at
      BY <1>1, <2>1, <2>2, <3>2
    <3>4. \A t \in 1..(at - 1) : disk[tiers[t]][f] = Absent
      BY <2>1, <3>1 DEF Seen, Nowhere
    <3> QED BY <1>2, <2>1, <3>1, <3>3, <3>4 DEF here
  <2>3. CASE f \notin new
    <3>1. inventory'[f] = inventory[f] /\ inventory[f].tier < at
      BY <1>1, <2>1, <2>3 DEF Seen
    <3>2. here[f] = Absent
      <4> SUFFICES ASSUME here[f] # Absent PROVE FALSE
        OBVIOUS
      <4>1. inventory[f] # Nowhere
        BY <2>1, <2>3 DEF new, found
      <4>2. inventory[f].tier \in 1..(at - 1)
        BY <1>2, <2>1, <3>1, <4>1 DEF IInv, Placed, EntriesOK
      <4>3. disk[tiers[inventory[f].tier]][f] # Absent /\ inventory[f].tier \in Levels
        BY <1>2, <2>1, <4>2 DEF Seen, Levels
      <4> QED BY <1>2, <2>1, <4>2, <4>3 DEF Single, here
    <3> QED BY <1>2, <2>1, <3>1, <3>2 DEF Seen, here
  <2> QED BY <2>2, <2>3
<1>5. Rows'
  <2>1. \A n \in Names : inventory'[n] # Nowhere => localSizes'[n] = inventory'[n]
    BY <1>1 DEF SiteInv, Rows
  <2>2. ASSUME NEW f \in Files, localSizes'[f] # Nowhere PROVE localSizes'[f].size = Size[f]
    <3>1. f \in Names /\ (localSizes[f] # Nowhere => localSizes[f].size = Size[f])
      BY <1>1 DEF SiteInv, Rows, Names
    <3>2. f \in new => here[f] = Size[f]
      BY <1>1, <1>2 DEF new, found, here, WholePackages, Healthy
    <3> QED BY <1>1, <2>2, <3>1, <3>2 DEF entry
  <2>3. pc' # "done"
    BY DEF WalkTier
  <2> QED BY <2>1, <2>2, <2>3 DEF Rows
<1>6. pc' \in {"walk", "resolve"} /\ (pc' = "walk" => at' = at + 1)
      /\ (pc' = "resolve" => at = Len(tiers))
  BY <1>1 DEF WalkTier
<1>7. Durable'
  BY <1>3 DEF Durable
<1>8. Walking'
  <2> SUFFICES ASSUME pc' = "walk", NEW f \in Files PROVE Seen(f)'
    BY DEF Walking
  <2>1. at' - 1 = at /\ at' = at + 1 /\ inventory'[f].tier <= at
    BY <1>2, <1>4, <1>6
  <2>2. inventory'[f].tier \in Nat
    BY <1>1, WalkTierIInv DEF IInv, TypeOK, Entry, Names
  <2>3. disk' = disk /\ tiers' = tiers
    BY <1>1
  <2>4. \A t \in 1..at :
          disk'[tiers'[t]][f] = IF inventory'[f].tier = t THEN Size[f] ELSE Absent
    BY <1>4, <2>3
  <2>5. inventory'[f].tier < at'
    BY <1>2, <2>1, <2>2
  <2> QED BY <2>1, <2>4, <2>5 DEF Seen
<1>9. Located'
  BY <1>1, <1>2, <1>4, <1>6 DEF Located, InPlace, Places, Touched, Walked, Levels
<1> QED BY <1>5, <1>7, <1>8, <1>9 DEF SiteInv

\* What SiteInv says of the file of the assignment a step of phase D works on.
LEMMA CurrentSite ==
  ASSUME IInv, PlanInv, SiteInv, Healthy, at <= Len(plan),
         pc \in {"execute", "fetch", "copy", "record", "forget", "unlink", "retier"}
  PROVE  /\ Current.name \in Names /\ Current.tier \in Nat /\ Current.target \in 0..Len(tiers)
         /\ inventory[Current.name].tier = Current.tier
         /\ Current.tier # 0 =>
              /\ inventory[Current.name].size = Current.size
              /\ localSizes[Current.name] = inventory[Current.name]
         /\ \A f \in Files : InPlace(f) /\ f \in Names
<1>1. at \in 1..Len(plan) /\ Current.name \in Names
  BY CurrentFacts
<1>2. Matches(Current)
  BY <1>1 DEF PlanInv, Matched, Current, IInv, TypeOK
<1>3. Current.tier # 0 => inventory[Current.name] # Nowhere
  BY <1>2 DEF Matches, Nowhere
<1>4. \A f \in Files : InPlace(f) /\ f \in Names
  BY DEF SiteInv, Located, Walked, Names
<1> QED BY <1>1, <1>2, <1>3, <1>4, CurrentFacts DEF Matches, SiteInv, Rows

LEMMA TierFacts ==
  ASSUME IInv
  PROVE  /\ Len(tiers) \in Nat /\ \A t \in Levels : tiers[t] \in Dirs
         /\ \A t, u \in Levels : tiers[t] = tiers[u] => t = u
         /\ disk \in [Dirs -> [Names -> Nat \cup {Absent}]]
         /\ \A f \in Files : Size[f] \in Nat /\ Size[f] # Absent
<1>1. tiers \in Layouts /\ disk \in [Dirs -> [Names -> Nat \cup {Absent}]]
  BY DEF IInv, TypeOK
<1>2. \A f \in Files : Size[f] \in Nat /\ Size[f] # Absent
  BY ConfigAssumption DEF ConfigAssumption, Absent
<1> QED BY <1>1, <1>2, LayoutFacts DEF Levels

\* A step that may touch no package but that of the current assignment.
LEMMA SiteOfCurrent ==
  ASSUME IInv, SiteInv, Healthy, Walked, Walked', tiers' = tiers,
         NEW n, n = Current.name,
         pc' = "execute" \/ Current' = Current,
         \A f \in Files \ {n} :
            inventory'[f] = inventory[f] /\ \A d \in Dirs : disk'[d][f] = disk[d][f],
         n \in Files => InPlace(n)'
  PROVE  Located'
<1> SUFFICES ASSUME NEW f \in Files, f # n PROVE InPlace(f)'
  BY DEF Located
<1>1. ~ Touched(f) /\ ~ Touched(f)' /\ InPlace(f)
  BY DEF Touched, SiteInv, Located
<1> QED BY <1>1, TierFacts DEF InPlace, Places, Levels

LEMMA EvictSite ==
  ASSUME IInv, PlanInv, SiteInv, Evict, Healthy, Healthy', NEW n, n = Current.name
  PROVE  SiteInv'
<1>1. /\ disk' = [disk EXCEPT ![Source][n] = Absent] /\ pc' = "forget" /\ pc = "execute"
      /\ UNCHANGED <<tiers, inventory, localSizes, plan, at>>
      /\ Current' = Current
      /\ Current.tier \in Levels /\ at <= Len(plan) /\ n \in Names
  <2>1. disk' = [disk EXCEPT ![Source][n] = Absent]
    BY HealthyFault DEF Evict
  <2>2. Current.tier \in Levels /\ at <= Len(plan)
    BY CurrentFacts, TierFacts DEF Evict, Executing, IsLocal, Levels
  <2> QED BY <2>1, <2>2, CurrentFacts DEF Evict, Executing, planning, Current
<1>2. \A t \in Levels : /\ tiers[t] = Source <=> t = Current.tier
                        /\ tiers[t] \in Dirs
  BY <1>1, TierFacts DEF Source
<1>3. ASSUME n \in Files PROVE InPlace(n)'
  <2>1. InPlace(n) /\ Places(n) = {Current.tier}
    BY <1>1, <1>3, CurrentSite DEF Touched, Places
  <2>2. \A t \in Levels : disk'[tiers[t]][n] = Absent
    BY <1>1, <1>2, <2>1, TierFacts DEF InPlace
  <2>3. Places(n)' = {}
    BY <1>1 DEF Places, Touched
  <2> QED BY <1>1, <2>1, <2>2, <2>3 DEF InPlace, Levels
<1>4. \A g \in Files \ {n}, d \in Dirs : disk'[d][g] = disk[d][g]
  BY <1>1, TierFacts DEF Names
<1>5. Located'
  BY <1>1, <1>3, <1>4, SiteOfCurrent DEF Walked
<1>6. Rows'
  BY <1>1 DEF SiteInv, Rows
<1> QED BY <1>1, <1>5, <1>6 DEF SiteInv, Durable, Walking, Walked

LEMMA ForgetSite ==
  ASSUME IInv, PlanInv, SiteInv, Forget, Healthy, Healthy', NEW n, n = Current.name
  PROVE  SiteInv'
<1>1. /\ localSizes' = [localSizes EXCEPT ![n] = Nowhere]
      /\ inventory' = [inventory EXCEPT ![n] = Nowhere]
      /\ pc = "forget" /\ pc' = "execute" /\ UNCHANGED <<disk, tiers>>
      /\ at <= Len(plan) /\ n \in Names
      /\ localSizes \in [Names -> Entry] /\ inventory \in [Names -> Entry]
  BY HealthyFault, CurrentFacts DEF Forget, Advance, IInv, Placed, TypeOK
<1>2. ASSUME n \in Files PROVE InPlace(n)'
  <2>1. InPlace(n) /\ Places(n) = {}
    BY <1>1, <1>2, CurrentSite DEF Touched, Places
  <2>2. inventory'[n].tier = 0 /\ Places(n)' = {0}
    BY <1>1 DEF Places, Touched, Nowhere
  <2> QED BY <1>1, <2>1, <2>2, TierFacts DEF InPlace, Levels
<1>3. Located'
  BY <1>1, <1>2, SiteOfCurrent DEF Walked, Names
<1>4. Rows'
  BY <1>1 DEF SiteInv, Rows, Names
<1> QED BY <1>1, <1>3, <1>4 DEF SiteInv, Durable, Walking, Walked

LEMMA FetchCommitSite ==
  ASSUME IInv, PlanInv, SiteInv, FetchCommit, Healthy, Healthy', NEW n, n = Current.name
  PROVE  SiteInv'
<1>1. /\ pc = "fetch" /\ pc' = "record" /\ UNCHANGED <<tiers, inventory, localSizes>>
      /\ Current' = Current
      /\ at <= Len(plan) /\ n \in Files /\ Current.tier = 0
      /\ Current.target \in Levels /\ Dest = tiers[Current.target]
      /\ Part[n] \in Names \ Files
  <2>1. /\ at <= Len(plan) /\ n \in Files /\ Current.tier = 0 /\ Current.target \in Levels
    BY CurrentFacts, TierFacts
    DEF FetchCommit, IInv, Placed, IsLocal, CandidateOK, Levels
  <2> QED BY <2>1, NamesAssumption
          DEF FetchCommit, planning, Current, Dest, NamesAssumption, Names
<1>2. /\ \A d \in Dirs, g \in Files : disk'[d][g] =
           IF d = Dest /\ g = n THEN Size[n] ELSE disk[d][g]
  <2>1. disk' = [disk EXCEPT ![Dest] = [@ EXCEPT ![n] = Size[n], ![Part[n]] = Absent]]
    BY NotShort DEF FetchCommit, BodyComplete, Healthy
  <2> QED BY <1>1, <2>1, TierFacts DEF Names
<1>3. InPlace(n)'
  <2>1. InPlace(n) /\ Places(n) = {0}
    BY <1>1, CurrentSite DEF Touched, Places
  <2>2. Places(n)' = {Current.target}
    BY <1>1 DEF Touched, Places
  <2> QED BY <1>1, <1>2, <2>1, <2>2, TierFacts DEF InPlace, Levels
<1>4. Located'
  BY <1>1, <1>2, <1>3, SiteOfCurrent DEF Walked
<1>5. Rows'
  BY <1>1 DEF SiteInv, Rows
<1> QED BY <1>1, <1>4, <1>5 DEF SiteInv, Durable, Walking, Walked

LEMMA RecordSite ==
  ASSUME IInv, PlanInv, Priced, SiteInv, Record, Healthy, Healthy', NEW n, n = Current.name
  PROVE  SiteInv'
<1> DEFINE e == [size |-> Current.size, tier |-> Current.target]
<1>1. /\ localSizes' = [localSizes EXCEPT ![n] = e]
      /\ inventory' = [inventory EXCEPT ![n] = e]
      /\ pc = "record" /\ pc' = "execute" /\ UNCHANGED <<disk, tiers>>
      /\ at \in 1..Len(plan) /\ n \in Files /\ n \in Names /\ Current.tier = 0
      /\ localSizes \in [Names -> Entry] /\ inventory \in [Names -> Entry]
  BY HealthyFault, CurrentFacts
  DEF Record, Advance, IInv, Placed, TypeOK, IsLocal, CandidateOK
<1>2. e.size = Size[n]
  BY <1>1 DEF Priced, Healthy, SizeKnown, Current
<1>3. InPlace(n)'
  <2>1. InPlace(n) /\ Places(n) = {Current.target} /\ Current.target \in 0..Len(tiers)
    BY <1>1, CurrentSite DEF Touched, Places
  <2>2. inventory'[n].tier = Current.target /\ Places(n)' = {Current.target}
    BY <1>1 DEF Places, Touched
  <2> QED BY <1>1, <2>1, <2>2, TierFacts DEF InPlace, Levels
<1>4. Located'
  BY <1>1, <1>3, SiteOfCurrent DEF Walked, Names
<1>5. Rows'
  BY <1>1, <1>2 DEF SiteInv, Rows, Names
<1> QED BY <1>1, <1>4, <1>5 DEF SiteInv, Durable, Walking, Walked

LEMMA RetierSite ==
  ASSUME IInv, PlanInv, SiteInv, Retier, Healthy, Healthy', NEW n, n = Current.name
  PROVE  SiteInv'
<1> DEFINE e == [size |-> Current.size, tier |-> Current.target]
<1>1. /\ localSizes' = TierRow
      /\ inventory' = [inventory EXCEPT ![n] = e]
      /\ pc = "retier" /\ pc' = "execute" /\ UNCHANGED <<disk, tiers>>
      /\ at \in 1..Len(plan) /\ n \in Names /\ Current.tier # 0
      /\ localSizes \in [Names -> Entry] /\ inventory \in [Names -> Entry]
  BY HealthyFault, CurrentFacts DEF Retier, Advance, IInv, Placed, TypeOK, IsLocal
<1>2. /\ localSizes[n] = inventory[n] /\ inventory[n].size = Current.size
      /\ inventory[n].tier # 0
  BY <1>1, CurrentSite
<1>3. localSizes' = [localSizes EXCEPT ![n] = e]
  <2>1. localSizes[n] # Nowhere /\ localSizes[n] \in Entry
    BY <1>1, <1>2 DEF Nowhere
  <2>2. [localSizes[n] EXCEPT !.tier = Current.target] = e
    BY <1>2, <2>1 DEF Entry
  <2> QED BY <1>1, <2>1, <2>2 DEF TierRow
<1>4. ASSUME n \in Files PROVE InPlace(n)'
  <2>1. InPlace(n) /\ Places(n) = {Current.target} /\ Current.target \in 0..Len(tiers)
    BY <1>1, <1>4, CurrentSite DEF Touched, Places
  <2>2. inventory'[n].tier = Current.target /\ Places(n)' = {Current.target}
    BY <1>1 DEF Places, Touched
  <2> QED BY <1>1, <2>1, <2>2, TierFacts DEF InPlace, Levels
<1>5. Located'
  BY <1>1, <1>4, SiteOfCurrent DEF Walked, Names
<1>6. Rows'
  <2>1. n \in Files => inventory[n].size = Size[n]
    BY <1>2 DEF SiteInv, Rows, Nowhere
  <2> QED BY <1>1, <1>2, <1>3, <2>1 DEF SiteInv, Rows, Names
<1> QED BY <1>1, <1>5, <1>6 DEF SiteInv, Durable, Walking, Walked

LEMMA CleanupSite ==
  ASSUME IInv, SiteInv, Cleanup, Healthy, Healthy'
  PROVE  SiteInv'
<1>1. /\ localSizes' = [n \in Names |->
           IF localSizes[n] # Nowhere /\ inventory[n] = Nowhere THEN Nowhere ELSE localSizes[n]]
      /\ pc = "cleanup" /\ pc' = "done" /\ UNCHANGED <<disk, tiers, inventory, plan, at>>
      /\ localSizes \in [Names -> Entry] /\ inventory \in [Names -> Entry]
  BY DEF Cleanup, Inject, Healthy, planning, IInv, TypeOK
<1>2. localSizes' = inventory
  <2> SUFFICES ASSUME NEW n \in Names PROVE localSizes'[n] = inventory[n]
    BY <1>1
  <2> QED BY <1>1 DEF SiteInv, Rows
<1>3. Located'
  BY <1>1 DEF SiteInv, Located, Walked, InPlace, Places, Touched, Levels
<1>4. Rows'
  BY <1>1, <1>2 DEF SiteInv, Rows, Names
<1> QED BY <1>1, <1>3, <1>4 DEF SiteInv, Durable, Walking, Walked

\* Facts the three steps of a move share: its two directories, and the file in one of them.
LEMMA MovingSite ==
  ASSUME IInv, PlanInv, SiteInv, Healthy, NEW n, n = Current.name,
         Moving \/ pc \in {"copy", "unlink"}
  PROVE  /\ at <= Len(plan) /\ n \in Names /\ Source # Dest
         /\ Current.tier \in Levels /\ Current.target \in Levels
         /\ Source = tiers[Current.tier] /\ Dest = tiers[Current.target]
         /\ Source \in Dirs /\ Dest \in Dirs
         /\ inventory[n].tier = Current.tier
         /\ n \in Files => InPlace(n)
<1>1. at <= Len(plan) /\ pc \in {"execute", "copy", "unlink"}
  BY MovingFacts DEF Moving, Executing
<1>2. Current.tier # 0 /\ Current.target # 0 /\ Current.tier <= Len(tiers)
  BY DEF IInv, Placed, Moving, IsLocal
<1>3. Current.tier \in Levels /\ Current.target \in Levels
  BY <1>1, <1>2, CurrentFacts, TierFacts DEF Levels
<1> QED BY <1>1, <1>3, MovingFacts, CurrentSite DEF Source, Dest

LEMMA MoveRenameSite ==
  ASSUME IInv, PlanInv, SiteInv, MoveRename, Healthy, NEW n, n = Current.name
  PROVE  SiteInv'
<1> USE MovingSite
<1>1. /\ disk' = [disk EXCEPT ![Source][n] = Absent, ![Dest][n] = disk[Source][n]]
      /\ pc = "execute" /\ pc' = "retier" /\ UNCHANGED <<tiers, inventory, localSizes>>
      /\ Current' = Current /\ Moving
  BY DEF MoveRename, Moving, Executing, planning, Current, SourceBytes
<1>2. \A d \in Dirs, g \in Files : disk'[d][g] =
        IF g # n THEN disk[d][g]
        ELSE IF d = Dest THEN disk[Source][n] ELSE IF d = Source THEN Absent ELSE disk[d][g]
  BY <1>1, TierFacts DEF Names
<1>3. ASSUME n \in Files PROVE InPlace(n)'
  <2>1. InPlace(n) /\ Places(n) = {Current.tier} /\ disk[Source][n] = Size[n]
    BY <1>1, <1>3 DEF Touched, Places, InPlace
  <2>2. Places(n)' = {Current.target}
    BY <1>1 DEF Touched, Places
  <2>3. \A t \in Levels : disk'[tiers[t]][n] = IF t = Current.target THEN Size[n] ELSE Absent
    BY <1>1, <1>2, <1>3, <2>1, TierFacts DEF InPlace
  <2> QED BY <1>1, <2>1, <2>2, <2>3 DEF InPlace, Levels
<1>4. Located'
  <2>1. \A g \in Files \ {n}, d \in Dirs : disk'[d][g] = disk[d][g]
    BY <1>2
  <2> QED BY <1>1, <1>3, <2>1, SiteOfCurrent DEF Walked
<1>5. Rows'
  BY <1>1 DEF SiteInv, Rows
<1> QED BY <1>1, <1>4, <1>5 DEF SiteInv, Durable, Walking, Walked

LEMMA CopyCommitSite ==
  ASSUME IInv, PlanInv, SiteInv, CopyCommit, Healthy, Healthy', NEW n, n = Current.name
  PROVE  SiteInv'
<1> USE MovingSite
<1>1. /\ disk' = [disk EXCEPT ![Dest] = [@ EXCEPT ![temp] = Absent, ![n] = disk[Source][n]]]
      /\ pc = "copy" /\ pc' = "unlink" /\ UNCHANGED <<tiers, inventory, localSizes>>
      /\ Current' = Current
  BY NotShort DEF CopyCommit, planning, Current, SourceBytes, Healthy
<1>2. temp \notin Files
  BY NamesAssumption DEF NamesAssumption, IInv, TypeOK
<1>3. \A d \in Dirs, g \in Files : disk'[d][g] =
        IF g = n /\ d = Dest THEN disk[Source][n] ELSE disk[d][g]
  BY <1>1, <1>2, TierFacts DEF Names
<1>4. ASSUME n \in Files PROVE InPlace(n)'
  <2>1. InPlace(n) /\ Places(n) = {Current.tier} /\ disk[Source][n] = Size[n]
    BY <1>1, <1>4 DEF Touched, Places, InPlace
  <2>2. Places(n)' = {Current.tier, Current.target}
    BY <1>1 DEF Touched, Places
  <2>3. \A t \in Levels :
          disk'[tiers[t]][n] = IF t \in {Current.tier, Current.target} THEN Size[n] ELSE Absent
    BY <1>1, <1>3, <1>4, <2>1, TierFacts DEF InPlace
  <2> QED BY <1>1, <2>1, <2>2, <2>3 DEF InPlace, Levels
<1>5. Located'
  BY <1>1, <1>3, <1>4, SiteOfCurrent DEF Walked
<1>6. Rows'
  BY <1>1 DEF SiteInv, Rows
<1> QED BY <1>1, <1>5, <1>6 DEF SiteInv, Durable, Walking, Walked

LEMMA UnlinkSite ==
  ASSUME IInv, PlanInv, SiteInv, Unlink, Healthy, Healthy', NEW n, n = Current.name
  PROVE  SiteInv'
<1> USE MovingSite
<1>1. /\ disk' = [disk EXCEPT ![Source][n] = Absent]
      /\ pc = "unlink" /\ pc' = "retier" /\ UNCHANGED <<tiers, inventory, localSizes>>
      /\ Current' = Current
  BY HealthyFault DEF Unlink, planning, Current
<1>2. \A d \in Dirs, g \in Files : disk'[d][g] =
        IF g = n /\ d = Source THEN Absent ELSE disk[d][g]
  BY <1>1, TierFacts DEF Names
<1>3. ASSUME n \in Files PROVE InPlace(n)'
  <2>1. InPlace(n) /\ Places(n) = {Current.tier, Current.target}
    BY <1>1, <1>3 DEF Touched, Places
  <2>2. Places(n)' = {Current.target}
    BY <1>1 DEF Touched, Places
  <2>3. \A t \in Levels :
          disk'[tiers[t]][n] = IF t = Current.target THEN Size[n] ELSE Absent
    BY <1>1, <1>2, <1>3, <2>1, TierFacts DEF InPlace
  <2> QED BY <1>1, <2>1, <2>2, <2>3 DEF InPlace, Levels
<1>4. Located'
  BY <1>1, <1>2, <1>3, SiteOfCurrent DEF Walked
<1>5. Rows'
  BY <1>1 DEF SiteInv, Rows
<1> QED BY <1>1, <1>4, <1>5 DEF SiteInv, Durable, Walking, Walked

\* The run ends before its end: by a crash that is not torn, or by a panic.
LEMMA StopSite ==
  ASSUME IInv, SiteInv, Crash \/ Panic, Healthy, Healthy'
  PROVE  SiteInv'
<1>1. /\ UNCHANGED <<disk, tiers, localSizes>> /\ pc' \in {"idle", "panicked"} /\ ~ Torn
      /\ pc # "done" /\ (inventory' = inventory \/ inventory' = EmptyInventory)
  BY HealthyFault DEF Crash, Panic, durable, Executing, Torn, Resting
<1>2. ASSUME NEW f \in Files PROVE Single(f)
  <2>1. CASE ~ Walked
    BY <2>1 DEF SiteInv, Durable
  <2>2. CASE Walked
    <3>1. InPlace(f) /\ f \in Names
      BY <2>2 DEF SiteInv, Located, Names
    <3>2. CASE ~ Touched(f)
      <4> SUFFICES ASSUME NEW t \in Levels, disk[tiers[t]][f] # Absent
                   PROVE  /\ localSizes[f].tier = t
                          /\ \A u \in Levels : disk[tiers[u]][f] # Absent => u = t
        BY DEF Single
      <4>1. inventory[f].tier = t /\ \A u \in Levels : disk[tiers[u]][f] # Absent => u = t
        BY <3>1, <3>2 DEF InPlace, Places
      <4>2. inventory[f] # Nowhere
        BY <4>1, TierFacts DEF Nowhere, Levels
      <4> QED BY <3>1, <4>1, <4>2 DEF SiteInv, Rows
    <3>3. CASE Touched(f)
      BY <1>1, <3>1, <3>3 DEF Torn, Touched, Places, InPlace, Single
    <3> QED BY <3>2, <3>3
  <2> QED BY <2>1, <2>2
<1>3. Durable'
  BY <1>1, <1>2 DEF Durable, Single, Levels
<1>4. Rows'
  BY <1>1 DEF SiteInv, Rows, EmptyInventory
<1> QED BY <1>1, <1>3, <1>4 DEF SiteInv, Walking, Located, Walked

\* Steps of a download or a copy that write elsewhere than at the path of a package.
LEMMA WriteSite ==
  ASSUME IInv, SiteInv, FetchWrite \/ FetchFail \/ CopyWrite \/ CopyRest, Healthy
  PROVE  SiteInv'
<1>1. \A f \in Files : f \in Names /\ temp # f /\ \A t \in Temps : t # f
  BY NamesAssumption DEF NamesAssumption, IInv, TypeOK, Names
<1>2. \A d \in Dirs, f \in Files : disk'[d][f] = disk[d][f]
  <2>1. CASE FetchWrite \/ FetchFail
    <3>1. Current.name \in Files
      BY <2>1, CurrentFacts
      DEF FetchWrite, FetchFail, Executing, IInv, Placed, IsLocal, CandidateOK
    <3>2. \A f \in Files : Part[Current.name] # f
      BY <3>1, NamesAssumption DEF NamesAssumption
    <3> QED BY <1>1, <2>1, <3>2, TierFacts DEF FetchWrite, FetchFail
  <2>2. CASE CopyWrite \/ CopyRest
    BY <1>1, <2>2, TierFacts DEF CopyWrite, CopyRest
  <2> QED BY <2>1, <2>2
<1>3. /\ UNCHANGED <<tiers, inventory, localSizes>>
      /\ pc \in {"execute", "fetch", "copy"} /\ pc' \in {"execute", "fetch", "copy"}
  BY DEF FetchWrite, FetchFail, CopyWrite, CopyRest, Executing, Moving, Advance
<1> QED BY <1>2, <1>3, SiteFrame DEF Touched, Walked

LEMMA SiteStep ==
  ASSUME StableLayout, IInv, PlanInv, WholePackages, Priced, SiteInv, [Next]_vars
  PROVE  SiteInv'
<1>1. CASE ~ Healthy'
  BY <1>1 DEF SiteInv, Rows, Durable, Walking, Located
<1> SUFFICES ASSUME Healthy' PROVE SiteInv'
  BY <1>1
<1> USE HealthyBefore
<1>2. CASE Start \/ WalkTier \/ Crash \/ Panic
  BY <1>2, StartSite, WalkTierSite, StopSite
<1>3. CASE Resolve \/ Assign \/ AssignDone \/ Skip \/ ExecuteDone \/ MoveFail
  <2>1. /\ UNCHANGED <<disk, tiers, inventory, localSizes>>
        /\ pc \in {"resolve", "assign", "execute"}
        /\ pc' \in {"assign", "execute", "cleanup"}
    BY <1>3 DEF Resolve, Assign, AssignDone, Skip, ExecuteDone, MoveFail, Moving, Executing,
                Advance, durable
  <2> QED BY <2>1, SiteFrame DEF Touched, Walked
<1>4. CASE FetchWrite \/ FetchFail \/ CopyWrite \/ CopyRest
  BY <1>4, WriteSite
<1>5. CASE Eviction \/ FetchCommit \/ Record
  BY <1>5, EvictSite, ForgetSite, FetchCommitSite, RecordSite DEF Eviction
<1>6. CASE MoveRename \/ CopyCommit \/ Unlink \/ Retier
  BY <1>6, MoveRenameSite, CopyCommitSite, UnlinkSite, RetierSite
<1>7. CASE CopyFail
  BY <1>7, HealthyFaults DEF CopyFail, Fault
<1>8. CASE Cleanup
  BY <1>8, CleanupSite
<1>9. CASE UNCHANGED vars
  BY <1>9 DEF vars, SiteInv, Rows, Durable, Walking, Located, Healthy, Walked, Single, Seen,
              InPlace, Places, Touched, Levels, Current
<1> QED BY <1>2, <1>3, <1>4, <1>5, <1>6, <1>7, <1>8, <1>9 DEF Next, Step, Fetch, Move

LEMMA SiteInvariance ==
  ASSUME StableLayout
  PROVE  Spec => []SiteInv
<1>1. Init => SiteInv
  <2> SUFFICES ASSUME Init PROVE SiteInv
    OBVIOUS
  <2>1. PICK home \in [Files -> {{}} \cup {{d} : d \in Dirs}] :
          disk = [d \in Dirs |-> [n \in Names |-> IF n \in {f \in Files : d \in home[f]}
                                                THEN Size[n] ELSE Absent]]
    BY DEF Init
  <2>2. \A f \in Files, t, u \in Levels :
          disk[tiers[t]][f] # Absent /\ disk[tiers[u]][f] # Absent => u = t
    <3> SUFFICES ASSUME NEW f \in Files, NEW t \in Levels, NEW u \in Levels,
                        disk[tiers[t]][f] # Absent, disk[tiers[u]][f] # Absent
                 PROVE  u = t
      OBVIOUS
    <3>1. tiers[t] \in home[f] /\ tiers[u] \in home[f] /\ f \in Names
      BY <2>1, InitIInv, TierFacts DEF Names
    <3>2. tiers[t] = tiers[u]
      BY <3>1
    <3> QED BY <3>2, InitIInv, TierFacts
  <2>3. \A f \in Files : localSizes[f].tier = 0 /\ localSizes[f] = Nowhere
    BY DEF Init, EmptyInventory, Nowhere, Names
  <2> QED BY <2>2, <2>3 DEF Init, SiteInv, Rows, Durable, Walking, Located, Walked, Single,
                            EmptyInventory
<1>2. Spec => []WholePackages
  BY Wholeness
<1> QED BY <1>1, <1>2, SiteStep, Invariance, PlanInvariance, PricedInvariance, PTL DEF Spec

\* Whatever crashes came before, a run that reaches its end leaves each package in one tier at
\* most, where its row and the inventory say, if the list of tiers never changed.
THEOREM CrashesHealed ==
  ASSUME StableLayout
  PROVE  Spec => []CrashHeals
<1>1. IInv /\ SiteInv => CrashHeals
  <2> SUFFICES ASSUME IInv, SiteInv, pc = "done", Healthy, NEW f \in Files
               PROVE  /\ localSizes[f] = inventory[f]
                      /\ \A t \in Levels : disk[tiers[t]][f] =
                           IF inventory[f].tier = t THEN inventory[f].size ELSE Absent
    BY DEF CrashHeals, Healthy, Levels
  <2>1. localSizes = inventory /\ InPlace(f) /\ Places(f) = {inventory[f].tier}
    BY DEF SiteInv, Rows, Located, Walked, Places, Touched
  <2>2. \A t \in Levels : inventory[f].tier = t => inventory[f].size = Size[f]
    BY <2>1, TierFacts DEF SiteInv, Rows, Nowhere, Levels
  <2> QED BY <2>1, <2>2 DEF InPlace
<1> QED BY <1>1, Invariance, SiteInvariance, PTL

(***************************************************************************)
(* What the execution pass has done so far: each file it has passed is in  *)
(* the tier the assignment pass gave it, or could not be downloaded.       *)
(***************************************************************************)
Settled ==
  Healthy =>
    /\ pc = "forget" => Current.target = 0
    /\ \A i \in 1..Len(plan) : i < at /\ plan[i].name \in Files =>
         \/ inventory[plan[i].name].tier = plan[i].target
         \/ errors > 0 /\ inventory[plan[i].name].tier = 0

\* The assignment a step leaves behind is settled by it.
LEMMA Passed ==
  ASSUME IInv, PlanInv, SiteInv, Settled, Exec, Healthy, Healthy',
         at' = at + 1, at <= Len(plan), Current.name \in Files
  PROVE  \/ inventory'[Current.name].tier = Current.target
         \/ errors' > 0 /\ inventory'[Current.name].tier = 0
<1>1. /\ at \in Nat /\ at' # at /\ errors \in Nat /\ Current.name \in Names
      /\ inventory \in [Names -> Entry]
  BY DEF IInv, TypeOK, Names
<1>2. CASE Skip
  BY <1>2, CurrentSite DEF Skip, Executing
<1>3. CASE Forget
  BY <1>1, <1>3 DEF Forget, Settled, Nowhere
<1>4. CASE FetchFail
  <2>1. Current.tier = 0 /\ pc \in {"execute", "fetch"}
    BY <1>4 DEF FetchFail, Executing, IsLocal, IInv, Placed
  <2>2. errors' = errors + 1 /\ inventory' = inventory
    BY <1>1, <1>4 DEF FetchFail
  <2> QED BY <1>1, <2>1, <2>2, CurrentSite
<1>5. CASE Record \/ Retier
  BY <1>1, <1>5 DEF Record, Retier
<1>6. CASE MoveFail
  <2>1. Moving /\ SourceBytes = Absent /\ pc = "execute"
    BY <1>6, HealthyFault DEF MoveFail, Moving, Executing
  <2>2. InPlace(Current.name) /\ Source = tiers[Current.tier] /\ Current.tier \in Levels
        /\ Places(Current.name) = {Current.tier}
    BY <2>1, MovingSite DEF Places, Touched
  <2> QED BY <2>1, <2>2, TierFacts DEF InPlace, SourceBytes
<1>7. CASE CopyFail
  BY <1>7, HealthyFaults DEF CopyFail, Fault
<1>8. CASE Unlink
  BY <1>1, <1>8, HealthyFault DEF Unlink
<1>9. CASE Panic \/ Evict \/ FetchWrite \/ FetchCommit \/ MoveRename \/ CopyWrite \/ CopyRest
           \/ CopyCommit \/ ExecuteDone \/ Cleanup
  BY <1>1, <1>9 DEF Panic, Evict, FetchWrite, FetchCommit, MoveRename, CopyWrite, CopyRest,
                    CopyCommit, ExecuteDone, Cleanup
<1> QED BY <1>2, <1>3, <1>4, <1>5, <1>6, <1>7, <1>8, <1>9 DEF Exec, Eviction, Fetch, Move

LEMMA SettledStep ==
  ASSUME IInv, PlanInv, SiteInv, Settled, [Next]_vars
  PROVE  Settled'
<1> SUFFICES ASSUME Healthy' PROVE Settled'
  BY DEF Settled
<1>1. Healthy
  BY HealthyBefore
<1>2. CASE Start \/ Crash
  BY <1>2 DEF Start, Crash, Settled
<1>3. CASE WalkTier \/ Resolve
  BY <1>3 DEF WalkTier, Resolve, planning, PlanInv, Unplanned2, Settled
<1>4. CASE Assign
  <2>1. pc' = "assign" /\ at' = 1
    BY <1>4 DEF Assign, PlanInv, Matched
  <2> QED BY <2>1 DEF Settled
<1>5. CASE AssignDone
  <2>1. pc' = "execute" /\ at' = 1
    BY <1>5 DEF AssignDone
  <2> QED BY <2>1 DEF Settled
<1>6. CASE Exec
  <2>1. pc' = "forget" => Current'.target = 0
    BY <1>6 DEF Exec, Skip, Panic, Eviction, Evict, Forget, Fetch, FetchWrite, FetchCommit,
                FetchFail, Record, Move, MoveRename, CopyWrite, CopyRest, CopyCommit,
                CopyFail, MoveFail, Unlink, Retier, ExecuteDone, Cleanup, Advance,
                AfterError, planning, Current
  <2>2. errors' \in {errors, errors + 1} /\ errors \in Nat
    BY <1>6 DEF Exec, Skip, Panic, Eviction, Evict, Forget, Fetch, FetchWrite, FetchCommit,
                FetchFail, Record, Move, MoveRename, CopyWrite, CopyRest, CopyCommit,
                CopyFail, MoveFail, Unlink, Retier, ExecuteDone, Cleanup, IInv, TypeOK
  <2>3. ASSUME NEW i \in 1..Len(plan), i < at', plan[i].name \in Files
        PROVE  \/ inventory'[plan[i].name].tier = plan[i].target
               \/ errors' > 0 /\ inventory'[plan[i].name].tier = 0
    <3>1. at \in Nat /\ at' \in {at, at + 1} /\ plan[i].name \in Names
      BY <1>6, <2>3, ExecFrame DEF IInv, TypeOK, Names
    <3>2. CASE i = at
      <4>1. at' = at + 1 /\ at <= Len(plan) /\ Current = plan[i]
        BY <2>3, <3>1, <3>2 DEF Current
      <4> QED BY <1>1, <1>6, <2>3, <4>1, Passed
    <3>3. CASE i # at
      <4>1. i < at
        BY <2>3, <3>1, <3>3
      <4>2. at \in 1..Len(plan) => plan[i].name # Current.name
        BY <3>3 DEF PlanInv, Distinct, Current
      <4>3. inventory'[plan[i].name] = inventory[plan[i].name]
        BY <1>6, <3>1, <4>2, ExecFrame
      <4> QED BY <1>1, <2>2, <2>3, <4>1, <4>3 DEF Settled
    <3> QED BY <3>2, <3>3
  <2> QED BY <1>6, <2>1, <2>3, ExecFrame DEF Settled
<1>7. CASE UNCHANGED vars
  BY <1>7 DEF vars, Settled, Healthy, Current
<1> QED BY <1>2, <1>3, <1>4, <1>5, <1>6, <1>7, StepKinds

LEMMA SettledInvariance ==
  ASSUME StableLayout
  PROVE  Spec => []Settled
<1>1. Init => Settled
  BY DEF Init, Settled
<1> QED BY <1>1, SettledStep, Invariance, PlanInvariance, SiteInvariance, PTL DEF Spec

(***************************************************************************)
(* Runs that met no fault at all, not even a crash: nothing but packages   *)
(* is left in the tiers, the inventory and the table, except the temp file *)
(* of the download or copy that is going on; and every candidate is a      *)
(* package, of its real size.                                              *)
(***************************************************************************)
Unharmed   == hit = {}
InHand(n)  == \/ pc = "fetch" /\ n = Part[Current.name]
              \/ pc = "copy" /\ n = temp
Genuine(c) == c.name \in Files /\ c.size = Size[c.name]

NoRubbish ==
  Unharmed => \A n \in Names \ Files :
    /\ localSizes[n] = Nowhere /\ inventory[n] = Nowhere
    /\ \A d \in Dirs : disk[d][n] # Absent => d = Dest /\ InHand(n)
AllGenuine ==
  Unharmed => /\ \A c \in pending : Genuine(c)
              /\ \A i \in 1..Len(plan) : Genuine(plan[i])

LEMMA UnharmedBefore == [Next]_vars /\ Unharmed' => Unharmed /\ Healthy /\ Healthy'
BY HitGrows DEF Unharmed, Healthy

LEMMA UnharmedFault ==
  ASSUME NEW kinds, Inject(kinds), Unharmed'
  PROVE  kinds = {}
BY DEF Inject, Unharmed

LEMMA GenuineStep ==
  ASSUME IInv, PlanInv, Priced, SiteInv, NoRubbish, AllGenuine, [Next]_vars
  PROVE  AllGenuine'
<1> SUFFICES ASSUME Unharmed'
             PROVE  /\ \A c \in pending' : Genuine(c)
                    /\ \A i \in 1..Len(plan') : Genuine(plan'[i])
  BY DEF AllGenuine, Genuine
<1>1. /\ Healthy /\ Healthy' /\ Unharmed
      /\ \A c \in pending : Genuine(c)
      /\ \A i \in 1..Len(plan) : Genuine(plan[i])
  BY UnharmedBefore DEF AllGenuine
<1>2. CASE Start \/ Crash
  BY <1>2 DEF Start, Crash
<1>3. CASE Resolve
  <2>1. plan' = << >>
    BY <1>3 DEF Resolve, PlanInv, Unplanned2
  <2>2. "nolength" \notin hit /\ "nolength" \notin hit'
    BY <1>1 DEF Unharmed
  <2>3. ASSUME NEW c \in pending' PROVE Genuine(c)
    <3>1. c.name \in Names /\ Matches(c) /\ SizeKnown(c) /\ CandidateOK(c)
      BY <1>3, <2>2, ResolveGives, ResolveIInv DEF IInv, Placed, Priced
    <3>2. CASE c.tier = 0
      BY <3>1, <3>2 DEF SizeKnown, CandidateOK, Genuine
    <3>3. CASE c.tier # 0
      <4>1. inventory[c.name] # Nowhere /\ c.size = inventory[c.name].size
        BY <3>1, <3>3 DEF Matches, Nowhere
      <4>2. c.name \in Files
        BY <1>1, <3>1, <4>1 DEF NoRubbish
      <4> QED BY <1>1, <3>1, <4>1, <4>2 DEF SiteInv, Rows, Genuine
    <3> QED BY <3>2, <3>3
  <2> QED BY <2>1, <2>3
<1>4. CASE Assign
  <2>1. PICK c \in pending, t \in 0..Len(tiers) :
          /\ plan' = Append(plan, [c EXCEPT !.target = t])
          /\ pending' = pending \ {c}
    BY <1>4 DEF Assign
  <2> DEFINE n == [c EXCEPT !.target = t]
  <2>2. c \in Candidate /\ t \in Nat /\ plan \in Seq(Candidate)
    BY LayoutFacts DEF IInv, TypeOK
  <2>3. n \in Candidate /\ n.name = c.name /\ n.size = c.size
    BY <2>2 DEF Candidate
  <2>4. Genuine(n)
    BY <1>1, <2>3 DEF Genuine
  <2> HIDE DEF n
  <2>5. \A i \in 1..Len(plan') : plan'[i] = n \/ (i \in 1..Len(plan) /\ plan'[i] = plan[i])
    BY <2>1, <2>2, <2>3 DEF n
  <2> QED BY <1>1, <2>1, <2>4, <2>5
<1>5. CASE WalkTier \/ AssignDone \/ UNCHANGED vars
  BY <1>1, <1>5 DEF WalkTier, AssignDone, planning, vars
<1>6. CASE Exec
  BY <1>1, <1>6, ExecFrame
<1> QED BY <1>2, <1>3, <1>4, <1>5, <1>6, StepKinds

LEMMA RubbishStep ==
  ASSUME IInv, NoRubbish, AllGenuine, [Next]_vars
  PROVE  NoRubbish'
<1> SUFFICES ASSUME Unharmed', NEW n \in Names \ Files
             PROVE  /\ localSizes'[n] = Nowhere /\ inventory'[n] = Nowhere
                    /\ \A d \in Dirs : disk'[d][n] # Absent => d = Dest' /\ InHand(n)'
  BY DEF NoRubbish
<1>1. /\ localSizes[n] = Nowhere /\ inventory[n] = Nowhere /\ Unharmed
      /\ \A d \in Dirs : disk[d][n] # Absent => d = Dest /\ InHand(n)
  BY UnharmedBefore DEF NoRubbish
<1>2. at <= Len(plan) => Current.name \in Files /\ Part[Current.name] \notin Files
  BY <1>1, CurrentFacts, NamesAssumption DEF AllGenuine, Genuine, NamesAssumption, Current
<1>3. /\ localSizes \in [Names -> Entry] /\ inventory \in [Names -> Entry]
      /\ disk \in [Dirs -> [Names -> Nat \cup {Absent}]]
      /\ pc \in {"fetch", "record", "forget", "copy", "unlink", "retier"} => at <= Len(plan)
      /\ Executing \/ Moving => at <= Len(plan) /\ pc = "execute"
  BY DEF IInv, TypeOK, Placed, Executing, Moving
<1>4. CASE Start \/ Crash \/ Resolve \/ Assign \/ AssignDone \/ Skip \/ Panic \/ MoveFail
           \/ ExecuteDone \/ Cleanup \/ CopyFail
  <2>1. ~ CopyFail /\ ~ Crash
    BY UnharmedFault DEF CopyFail, Crash, Fault
  <2>2. disk' = disk /\ pc \notin {"fetch", "copy"}
    BY <1>4, <2>1 DEF Start, Resolve, Assign, AssignDone, Skip, Panic, MoveFail, ExecuteDone,
                      Cleanup, durable, Executing, Moving, Resting
  <2>3. localSizes'[n] = Nowhere /\ inventory'[n] = Nowhere
    BY <1>1, <1>3, <1>4, <2>1
    DEF Start, Resolve, Assign, AssignDone, Skip, Panic, MoveFail, ExecuteDone, Cleanup,
        durable, EmptyInventory
  <2> QED BY <1>1, <2>2, <2>3 DEF InHand
<1>5. CASE WalkTier
  <2>1. \A d \in Dirs : disk[d][n] = Absent
    BY <1>1, <1>5 DEF WalkTier, InHand
  <2>2. disk[tiers[at]][n] = Absent
    BY <1>5, <2>1, TierFacts DEF WalkTier, Levels, IInv, TypeOK, Placed
  <2> QED BY <1>1, <2>1, <2>2, <1>5 DEF WalkTier
<1>6. CASE Evict
  <2>1. disk' = [disk EXCEPT ![Source][Current.name] = Absent] \/ disk' = disk
    BY <1>6 DEF Evict
  <2>2. Current.name # n /\ pc = "execute" /\ UNCHANGED <<localSizes, inventory>>
    BY <1>2, <1>3, <1>6 DEF Evict
  <2>3. \A d \in Dirs : disk'[d][n] = disk[d][n]
    BY <1>3, <2>1, <2>2
  <2> QED BY <1>1, <2>2, <2>3 DEF InHand
<1>7. CASE Forget \/ Record \/ Retier
  <2>1. Current.name # n /\ disk' = disk /\ pc \in {"forget", "record", "retier"}
    BY <1>2, <1>3, <1>7 DEF Forget, Record, Retier
  <2>2. localSizes'[n] = localSizes[n] /\ inventory'[n] = inventory[n]
    BY <1>3, <1>7, <2>1 DEF Forget, Record, Retier, TierRow
  <2> QED BY <1>1, <2>1, <2>2 DEF InHand
<1>8. CASE FetchWrite
  <2>1. /\ pc = "execute" /\ pc' = "fetch" /\ Current' = Current /\ Dest' = Dest
        /\ UNCHANGED <<localSizes, inventory>>
    BY <1>3, <1>8 DEF FetchWrite, Current, Dest, planning
  <2>2. \A d \in Dirs : disk'[d][n] # Absent => d = Dest /\ n = Part[Current.name]
    BY <1>1, <1>3, <1>8, <2>1 DEF FetchWrite, InHand
  <2> QED BY <1>1, <2>1, <2>2 DEF InHand
<1>9. CASE FetchCommit
  <2>1. /\ disk' = [disk EXCEPT ![Dest] = [@ EXCEPT ![Current.name] = disk[Dest][Part[Current.name]],
                                                 ![Part[Current.name]] = Absent]]
        /\ pc = "fetch" /\ Current.name # n /\ UNCHANGED <<localSizes, inventory>>
    BY <1>2, <1>3, <1>9 DEF FetchCommit
  <2>2. \A d \in Dirs : disk'[d][n] = Absent
    BY <1>1, <1>3, <2>1 DEF InHand
  <2> QED BY <1>1, <2>1, <2>2
<1>10. CASE FetchFail
  <2>1. /\ disk' = [disk EXCEPT ![Dest][Part[Current.name]] = Absent]
        /\ pc \in {"execute", "fetch"} /\ UNCHANGED <<localSizes, inventory>>
    BY <1>3, <1>10, UnharmedFault DEF FetchFail, Fault
  <2>2. \A d \in Dirs : disk'[d][n] = Absent
    BY <1>1, <1>3, <2>1 DEF InHand
  <2> QED BY <1>1, <2>1, <2>2
<1>11. CASE MoveRename \/ Unlink
  <2>1. pc \in {"execute", "unlink"} /\ Current.name # n /\ UNCHANGED <<localSizes, inventory>>
    BY <1>2, <1>3, <1>11 DEF MoveRename, Unlink
  <2>2. \A d \in Dirs : disk'[d][n] = disk[d][n]
    BY <1>3, <1>11, <2>1 DEF MoveRename, Unlink
  <2> QED BY <1>1, <2>1, <2>2 DEF InHand
<1>12. CASE CopyWrite
  <2>1. /\ pc = "execute" /\ pc' = "copy" /\ Current' = Current /\ Dest' = Dest
        /\ UNCHANGED <<localSizes, inventory>>
    BY <1>3, <1>12 DEF CopyWrite, Current, Dest, planning
  <2>2. \A d \in Dirs : disk'[d][n] # Absent => d = Dest /\ n = temp'
    BY <1>1, <1>3, <1>12, <2>1 DEF CopyWrite, InHand
  <2> QED BY <1>1, <2>1, <2>2 DEF InHand
<1>13. CASE CopyRest
  <2>1. /\ pc = "copy" /\ pc' = pc /\ Current' = Current /\ Dest' = Dest /\ temp' = temp
        /\ disk' = [disk EXCEPT ![Dest][temp] = SourceBytes]
        /\ UNCHANGED <<localSizes, inventory>>
    BY <1>13 DEF CopyRest, Current, Dest, planning
  <2>2. \A d \in Dirs : disk'[d][n] # Absent => d = Dest /\ n = temp
    BY <1>1, <1>3, <2>1 DEF InHand
  <2> QED BY <1>1, <2>1, <2>2 DEF InHand
<1>14. CASE CopyCommit
  <2>1. /\ disk' = [disk EXCEPT ![Dest] = [@ EXCEPT ![temp] = Absent,
                                                 ![Current.name] = disk[Dest][temp]]]
        /\ pc = "copy" /\ Current.name # n /\ UNCHANGED <<localSizes, inventory>>
    BY <1>2, <1>3, <1>14 DEF CopyCommit
  <2>2. \A d \in Dirs : disk'[d][n] = Absent
    BY <1>1, <1>3, <2>1 DEF InHand
  <2> QED BY <1>1, <2>1, <2>2
<1>15. CASE UNCHANGED vars
  BY <1>1, <1>15 DEF vars, InHand, Current, Dest
<1> QED
  BY <1>4, <1>5, <1>6, <1>7, <1>8, <1>9, <1>10, <1>11, <1>12, <1>13, <1>14, <1>15
  DEF Next, Step, Eviction, Fetch, Move

LEMMA CleanInvariance ==
  ASSUME StableLayout
  PROVE  Spec => [](NoRubbish /\ AllGenuine)
<1>1. Init => NoRubbish /\ AllGenuine
  BY NamesAssumption DEF Init, NoRubbish, AllGenuine, EmptyInventory, Nowhere, Names, Absent
<1> QED BY <1>1, GenuineStep, RubbishStep, Invariance, PlanInvariance, PricedInvariance,
           SiteInvariance, PTL DEF Spec

\* At the end of a run no fault has ever befallen, the disk, the inventory and the table agree on
\* every name: one copy of each package, of its size, and nothing else.
THEOREM AllReconciled ==
  ASSUME StableLayout
  PROVE  Spec => []Reconciled
<1>1. CrashHeals /\ SiteInv /\ NoRubbish /\ IInv => Reconciled
  <2> SUFFICES ASSUME CrashHeals, SiteInv, NoRubbish, IInv, FaultFree
               PROVE  /\ localSizes = inventory
                      /\ \A n \in Names, t \in Levels : disk[tiers[t]][n] =
                           IF inventory[n].tier = t THEN inventory[n].size ELSE Absent
    BY DEF Reconciled, Levels
  <2>1. pc = "done" /\ Healthy /\ Unharmed
    BY DEF FaultFree, Healthy, Unharmed
  <2>2. ASSUME NEW n \in Names, NEW t \in Levels
        PROVE  disk[tiers[t]][n] = IF inventory[n].tier = t THEN inventory[n].size ELSE Absent
    <3>1. CASE n \in Files
      BY <2>1, <3>1 DEF CrashHeals, Healthy, Levels
    <3>2. CASE n \notin Files
      BY <2>1, <3>2, TierFacts DEF NoRubbish, InHand, Nowhere, Levels
    <3> QED BY <3>1, <3>2
  <2> QED BY <2>1, <2>2 DEF SiteInv, Rows
<1> QED BY <1>1, CrashesHealed, SiteInvariance, CleanInvariance, Invariance, PTL

\* If besides no download failed, each file of the plan is in the tier it was assigned, and in
\* no other.
THEOREM PlanKept ==
  ASSUME StableLayout
  PROVE  Spec => []PlanRealised
<1>1. IInv /\ PlanInv /\ SiteInv /\ Settled /\ AllGenuine => PlanRealised
  <2>0. IInv => DOMAIN plan = 1..Len(plan)
    BY DEF IInv, TypeOK
  <2> SUFFICES ASSUME IInv, PlanInv, SiteInv, Settled, AllGenuine, FaultFree, errors = 0,
                      NEW i \in 1..Len(plan), NEW t \in Levels
               PROVE  disk[tiers[t]][plan[i].name] # Absent <=> plan[i].target = t
    BY <2>0 DEF PlanRealised, Levels
  <2>1. pc = "done" /\ Healthy /\ Unharmed
    BY DEF FaultFree, Healthy, Unharmed
  <2>2. i < at /\ plan[i].name \in Files
    <3>1. ~ (errors >= ErrorThreshold) /\ at \in Nat /\ Len(plan) \in Nat
      BY ConfigAssumption DEF ConfigAssumption, IInv, TypeOK
    <3> QED BY <2>1, <3>1 DEF PlanInv, Finished, AllGenuine, Genuine
  <2>3. inventory[plan[i].name].tier = plan[i].target
    BY <2>1, <2>2 DEF Settled
  <2>4. InPlace(plan[i].name) /\ Places(plan[i].name) = {plan[i].target}
    BY <2>1, <2>2, <2>3 DEF SiteInv, Located, Walked, Places, Touched
  <2> QED BY <2>2, <2>4, TierFacts DEF InPlace
<1> QED BY <1>1, Invariance, PlanInvariance, SiteInvariance, SettledInvariance,
           CleanInvariance, PTL


(***************************************************************************)
(* Sums over a finite set.  MapThenSumSet is a fold: it takes the elements *)
(* of a set away one by one, each time the one CHOOSE picks.  What it      *)
(* computes is shown by descent: no natural number, and no subset of a     *)
(* finite set, is the least for which the fact fails.                      *)
(***************************************************************************)
Pick(s)      == CHOOSE x \in s : TRUE
Adds(it, S, g) ==
  it = [s \in SUBSET S |-> IF s = {} THEN 0 ELSE g[Pick(s)] + it[s \ {Pick(s)}]]
Partial(S, g) == CHOOSE it : Adds(it, S, g)
Total(S, g)   == Partial(S, g)[S]

LEMMA PickIn == ASSUME NEW s, s # {} PROVE Pick(s) \in s
BY DEF Pick

LEMMA LeastSubset ==
  ASSUME NEW S, IsFiniteSet(S), NEW Bad \in SUBSET (SUBSET S), Bad # {}
  PROVE  \E U \in Bad : \A V \in Bad : V \subseteq U => V = U
<1>1. IsWellFoundedOn(StrictSubsetOrdering(S), SUBSET S)
  BY FS_StrictSubsetOrderingWellFounded, FS_FiniteSubsetsOfFinite
<1>2. PICK U \in Bad : \A V \in Bad : ~ (<<V, U>> \in StrictSubsetOrdering(S))
  BY <1>1, WFMin
<1> QED BY <1>2 DEF StrictSubsetOrdering

LEMMA LeastNat ==
  ASSUME NEW Bad \in SUBSET Nat, Bad # {}
  PROVE  \E m \in Bad : \A k \in Bad : m <= k
<1> DEFINE R == {ss \in Nat \X Nat : ss[1] < ss[2]}
<1>1. IsWellFoundedOn(R, Nat)
  BY NatLessThanWellFounded DEF OpToRel
<1>2. PICK m \in Bad : \A k \in Bad : ~ (<<k, m>> \in R)
  <2> HIDE DEF R
  <2> QED BY <1>1, WFMin
<1>3. \A k \in Bad : ~ (k < m) /\ k \in Nat /\ m \in Nat
  BY <1>2
<1> QED BY <1>3

\* There is a function that adds up: one that is right for the sets of at most k elements
\* gives one that is right for those of k + 1.
LEMMA PartialExists ==
  ASSUME NEW S, IsFiniteSet(S), NEW g \in [S -> Nat]
  PROVE  Adds(Partial(S, g), S, g)
<1> DEFINE After(it) == [s \in SUBSET S |->
                           IF s = {} THEN 0 ELSE g[Pick(s)] + it[s \ {Pick(s)}]]
           Right(it, k) == \A s \in SUBSET S : Cardinality(s) <= k => it[s] = After(it)[s]
           Good == {k \in Nat : \E it \in [SUBSET S -> Nat] : Right(it, k)}
<1>1. ASSUME NEW it \in [SUBSET S -> Nat] PROVE After(it) \in [SUBSET S -> Nat]
  BY <1>1, PickIn
<1>2. ASSUME NEW s \in SUBSET S
      PROVE  IsFiniteSet(s) /\ Cardinality(s) \in Nat /\ Cardinality(s) <= Cardinality(S)
  BY FS_Subset, FS_CardinalityType
<1>3. 0 \in Good
  <2> DEFINE zero == [s \in SUBSET S |-> 0]
  <2>1. \A s \in SUBSET S : Cardinality(s) <= 0 => s = {}
    BY <1>2, FS_EmptySet
  <2>2. Right(zero, 0) /\ zero \in [SUBSET S -> Nat]
    BY <2>1
  <2> HIDE DEF Right, zero
  <2> QED BY <2>2
<1>4. ASSUME NEW k \in Good PROVE k + 1 \in Good
  <2>1. PICK it \in [SUBSET S -> Nat] : Right(it, k)
    OBVIOUS
  <2>2. ASSUME NEW s \in SUBSET S, Cardinality(s) <= k + 1
        PROVE  After(it)[s] = After(After(it))[s]
    <3>1. CASE s = {}
      BY <3>1
    <3>2. CASE s # {}
      <4> DEFINE r == s \ {Pick(s)}
      <4>1. r \in SUBSET S /\ Cardinality(r) = Cardinality(s) - 1 /\ Cardinality(s) \in Nat
        BY <1>2, <3>2, PickIn, FS_RemoveElement
      <4>2. Cardinality(r) <= k
        BY <2>2, <4>1
      <4>3. it[r] = After(it)[r]
        BY <2>1, <4>1, <4>2
      <4> QED BY <3>2, <4>3
    <3> QED BY <3>1, <3>2
  <2>3. Right(After(it), k + 1) /\ After(it) \in [SUBSET S -> Nat]
    BY <1>1, <2>2
  <2> HIDE DEF Right, After
  <2> QED BY <2>3
<1> HIDE DEF Good
<1>5. Good = Nat
  <2> SUFFICES ASSUME Nat \ Good # {} PROVE FALSE
    BY DEF Good
  <2>1. PICK m \in Nat \ Good : \A k \in Nat \ Good : m <= k
    BY LeastNat
  <2>2. m - 1 \in Nat /\ m - 1 \notin Nat \ Good
    BY <1>3, <2>1
  <2>3. (m - 1) + 1 = m /\ m - 1 \in Good
    BY <2>2
  <2> QED BY <1>4, <2>1, <2>3
<1>6. PICK it \in [SUBSET S -> Nat] : Right(it, Cardinality(S))
  BY <1>2, <1>5 DEF Good
<1>7. it = After(it)
  BY <1>1, <1>2, <1>6
<1> QED BY <1>7 DEF Adds, Partial

\* The sum of a set is that of what is left of it without an element, and the element; so a
\* fact about sums fails, if at all, for a set that Pick has just taken from being right.
LEMMA PartialEmpty ==
  ASSUME NEW S, IsFiniteSet(S), NEW g \in [S -> Nat]
  PROVE  Partial(S, g)[{}] = 0
<1> DEFINE it == Partial(S, g)
<1>1. it = [r \in SUBSET S |-> IF r = {} THEN 0 ELSE g[Pick(r)] + it[r \ {Pick(r)}]]
  <2>1. Adds(Partial(S, g), S, g)
    BY PartialExists
  <2> QED BY <2>1 DEF Adds
<1> HIDE DEF it
<1>2. it[{}] = 0
  BY <1>1
<1> QED BY <1>2 DEF it

LEMMA PartialStep ==
  ASSUME NEW S, IsFiniteSet(S), NEW g \in [S -> Nat], NEW s \in SUBSET S, s # {}
  PROVE  Partial(S, g)[s] = g[Pick(s)] + Partial(S, g)[s \ {Pick(s)}]
<1> DEFINE it == Partial(S, g)
<1>1. it = [r \in SUBSET S |-> IF r = {} THEN 0 ELSE g[Pick(r)] + it[r \ {Pick(r)}]]
  <2>1. Adds(Partial(S, g), S, g)
    BY PartialExists
  <2> QED BY <2>1 DEF Adds
<1> HIDE DEF it
<1>2. it[s] = g[Pick(s)] + it[s \ {Pick(s)}]
  BY <1>1
<1> QED BY <1>2 DEF it

LEMMA FirstFailure ==
  ASSUME NEW S, IsFiniteSet(S), NEW Bad \in SUBSET (SUBSET S), Bad # {}, {} \notin Bad
  PROVE  \E U \in Bad : /\ U \in SUBSET S /\ U # {} /\ Pick(U) \in U
                        /\ U \ {Pick(U)} \in SUBSET S /\ U \ {Pick(U)} \notin Bad
<1>1. PICK U \in Bad : \A V \in Bad : V \subseteq U => V = U
  BY LeastSubset
<1>2. U # {} /\ Pick(U) \in U
  BY <1>1, PickIn
<1> QED BY <1>1, <1>2

LEMMA PartialNat ==
  ASSUME NEW S, IsFiniteSet(S), NEW g \in [S -> Nat]
  PROVE  \A s \in SUBSET S : Partial(S, g)[s] \in Nat
<1> DEFINE Bad == {s \in SUBSET S : Partial(S, g)[s] \notin Nat}
<1> SUFFICES ASSUME Bad # {} PROVE FALSE
  OBVIOUS
<1>1. Bad \in SUBSET (SUBSET S) /\ {} \notin Bad
  BY PartialEmpty
<1>2. PICK U \in Bad : /\ U \in SUBSET S /\ U # {} /\ Pick(U) \in U
                       /\ U \ {Pick(U)} \in SUBSET S /\ U \ {Pick(U)} \notin Bad
  <2> HIDE DEF Bad
  <2> QED BY <1>1, FirstFailure
<1>3. Partial(S, g)[U \ {Pick(U)}] \in Nat /\ g[Pick(U)] \in Nat
  BY <1>2
<1>4. Partial(S, g)[U] = g[Pick(U)] + Partial(S, g)[U \ {Pick(U)}]
  <2> HIDE DEF Bad
  <2> QED BY <1>2, PartialStep
<1> QED BY <1>3, <1>4

LEMMA TotalNat ==
  ASSUME NEW S, IsFiniteSet(S), NEW g \in [S -> Nat]
  PROVE  Total(S, g) \in Nat
BY PartialNat DEF Total

LEMMA TotalMonotone ==
  ASSUME NEW S, IsFiniteSet(S), NEW g \in [S -> Nat], NEW h \in [S -> Nat],
         \A x \in S : g[x] <= h[x]
  PROVE  Total(S, g) <= Total(S, h)
<1> DEFINE Bad == {s \in SUBSET S : ~ (Partial(S, g)[s] <= Partial(S, h)[s])}
<1> SUFFICES ASSUME Bad # {} PROVE FALSE
  BY DEF Total
<1>1. Bad \in SUBSET (SUBSET S) /\ {} \notin Bad
  BY PartialEmpty
<1>2. PICK U \in Bad : /\ U \in SUBSET S /\ U # {} /\ Pick(U) \in U
                       /\ U \ {Pick(U)} \in SUBSET S /\ U \ {Pick(U)} \notin Bad
  <2> HIDE DEF Bad
  <2> QED BY <1>1, FirstFailure
<1>3. /\ Partial(S, g)[U \ {Pick(U)}] <= Partial(S, h)[U \ {Pick(U)}]
      /\ g[Pick(U)] <= h[Pick(U)] /\ g[Pick(U)] \in Nat /\ h[Pick(U)] \in Nat
  BY <1>2
<1>4. /\ Partial(S, g)[U \ {Pick(U)}] \in Nat
      /\ Partial(S, h)[U \ {Pick(U)}] \in Nat
  BY <1>2, PartialNat
<1>5. /\ Partial(S, g)[U] = g[Pick(U)] + Partial(S, g)[U \ {Pick(U)}]
      /\ Partial(S, h)[U] = h[Pick(U)] + Partial(S, h)[U \ {Pick(U)}]
  <2> HIDE DEF Bad
  <2> QED BY <1>2, PartialStep
<1>6. Partial(S, g)[U] <= Partial(S, h)[U]
  BY <1>3, <1>4, <1>5
<1> QED BY <1>2, <1>6

\* Adding n at one element adds n to the sum.
LEMMA TotalAt ==
  ASSUME NEW S, IsFiniteSet(S), NEW g \in [S -> Nat], NEW h \in [S -> Nat],
         NEW x \in S, NEW n \in Nat, h[x] = g[x] + n, \A y \in S \ {x} : h[y] = g[y]
  PROVE  Total(S, h) = Total(S, g) + n
<1> DEFINE Grows(s) == Partial(S, h)[s] = Partial(S, g)[s] + (IF x \in s THEN n ELSE 0)
           Bad == {s \in SUBSET S : ~ Grows(s)}
<1> SUFFICES ASSUME Bad # {} PROVE FALSE
  BY DEF Total
<1>1. Bad \in SUBSET (SUBSET S) /\ {} \notin Bad
  BY PartialEmpty
<1>2. PICK U \in Bad : /\ U \in SUBSET S /\ U # {} /\ Pick(U) \in U
                       /\ U \ {Pick(U)} \in SUBSET S /\ U \ {Pick(U)} \notin Bad
  <2> HIDE DEF Bad
  <2> QED BY <1>1, FirstFailure
<1> DEFINE V == U \ {Pick(U)}
<1>3. Grows(V) /\ g[Pick(U)] \in Nat /\ h[Pick(U)] \in Nat
  BY <1>2
<1>4. Partial(S, g)[V] \in Nat /\ Partial(S, h)[V] \in Nat
  BY <1>2, PartialNat
<1>5. /\ Partial(S, g)[U] = g[Pick(U)] + Partial(S, g)[V]
      /\ Partial(S, h)[U] = h[Pick(U)] + Partial(S, h)[V]
  <2>1. U \in SUBSET S /\ U # {}
    BY <1>2
  <2>2. Partial(S, g)[U] = g[Pick(U)] + Partial(S, g)[V]
    BY <2>1, PartialStep
  <2>3. Partial(S, h)[U] = h[Pick(U)] + Partial(S, h)[V]
    BY <2>1, PartialStep
  <2> QED BY <2>2, <2>3
<1>6. /\ h[Pick(U)] = g[Pick(U)] + (IF Pick(U) = x THEN n ELSE 0)
      /\ x \in U <=> x \in V \/ Pick(U) = x
      /\ ~ (x \in V /\ Pick(U) = x)
  BY <1>2, <1>3
<1>7. Grows(U)
  <2> HIDE DEF V
  <2> QED BY <1>3, <1>4, <1>5, <1>6
<1> QED BY <1>2, <1>7

LEMMA TotalZero ==
  ASSUME NEW S, IsFiniteSet(S), NEW g \in [S -> Nat], \A x \in S : g[x] = 0
  PROVE  Total(S, g) = 0
<1> DEFINE Bad == {s \in SUBSET S : Partial(S, g)[s] # 0}
<1> SUFFICES ASSUME Bad # {} PROVE FALSE
  BY DEF Total
<1>1. Bad \in SUBSET (SUBSET S) /\ {} \notin Bad
  BY PartialEmpty
<1>2. PICK U \in Bad : /\ U \in SUBSET S /\ U # {} /\ Pick(U) \in U
                       /\ U \ {Pick(U)} \in SUBSET S /\ U \ {Pick(U)} \notin Bad
  <2> HIDE DEF Bad
  <2> QED BY <1>1, FirstFailure
<1>3. Partial(S, g)[U \ {Pick(U)}] = 0 /\ g[Pick(U)] = 0
  BY <1>2
<1>4. Partial(S, g)[U] = g[Pick(U)] + Partial(S, g)[U \ {Pick(U)}]
  <2> HIDE DEF Bad
  <2> QED BY <1>2, PartialStep
<1> QED BY <1>2, <1>3, <1>4

\* Usage is such a sum.
Bytes(d) == [n \in Names |-> IF disk[d][n] = Absent THEN 0 ELSE disk[d][n]]

LEMMA UsageTotal == ASSUME NEW d PROVE Usage(d) = Total(Names, Bytes(d))
<1> DEFINE f(n) == IF disk[d][n] = Absent THEN 0 ELSE disk[d][n]
           F(it) == [s \in SUBSET Names |->
                       IF s = {} THEN 0 ELSE f(Pick(s)) + it[s \ {Pick(s)}]]
<1>1. Usage(d) = (CHOOSE it : it = F(it))[Names]
  BY DEF Usage, MapThenSumSet, MapThenFoldSet, Pick
<1>2. ASSUME NEW it PROVE it = F(it) <=> Adds(it, Names, Bytes(d))
  <2>1. \A s \in SUBSET Names : s # {} => f(Pick(s)) = Bytes(d)[Pick(s)]
    BY PickIn DEF Bytes
  <2>2. F(it) = [s \in SUBSET Names |->
                   IF s = {} THEN 0 ELSE Bytes(d)[Pick(s)] + it[s \ {Pick(s)}]]
    BY <2>1
  <2> HIDE DEF F
  <2> QED BY <2>2 DEF Adds
<1> HIDE DEF F
<1>3. (CHOOSE it : it = F(it)) = Partial(Names, Bytes(d))
  BY <1>2 DEF Partial
<1> QED BY <1>1, <1>3 DEF Total

(***************************************************************************)
(* CapacityKept.  In the assignment pass what remains of a tier is its     *)
(* limit less what the plan gave it; and what is in a tier at the end is   *)
(* part of that, since every file of the inventory was planned for.        *)
(***************************************************************************)
Share(t) == [n \in Names |-> IF \E i \in 1..Len(plan) : plan[i].name = n /\ plan[i].target = t
                             THEN Size[n] ELSE 0]
Room ==
  Unharmed /\ Assigned =>
    \A t \in Levels : /\ remaining[t] \in Nat
                      /\ remaining[t] + Total(Names, Share(t)) = Capacity[tiers[t]]

LEMMA ShareNat ==
  ASSUME IInv, Unharmed, AllGenuine, NEW t
  PROVE  Share(t) \in [Names -> Nat]
BY ConfigAssumption DEF Share, AllGenuine, Genuine, ConfigAssumption

LEMMA AssignRoom ==
  ASSUME IInv, PlanInv, AllGenuine, Room, Assign, Unharmed, NEW t \in Levels
  PROVE  /\ remaining'[t] \in Nat
         /\ remaining'[t] + Total(Names, Share(t)') = Capacity[tiers[t]]
<1>1. PICK c \in pending, u \in 0..Len(tiers) :
        /\ FirstFit(c.size, u)
        /\ plan' = Append(plan, [c EXCEPT !.target = u])
        /\ remaining' = IF u = 0 THEN remaining ELSE [remaining EXCEPT ![u] = @ - c.size]
        /\ pending' = pending \ {c}
  BY DEF Assign
<1> DEFINE a == [c EXCEPT !.target = u]
<1>2. /\ c \in Candidate /\ u \in Nat /\ plan \in Seq(Candidate) /\ c.name \in Names
      /\ c.size \in Nat /\ c.size = Size[c.name] /\ t \in Nat \ {0}
      /\ remaining \in [Levels -> Nat] /\ pc = "assign"
  <2>1. /\ c \in Candidate /\ plan \in Seq(Candidate) /\ pc = "assign"
        /\ remaining \in [Levels -> Nat]
    BY DEF IInv, TypeOK, Placed, Assign, Levels
  <2>2. u \in Nat /\ t \in Nat \ {0}
    BY TierFacts DEF Levels
  <2>3. c.name \in Names /\ c.size \in Nat
    BY <2>1 DEF Candidate
  <2> QED BY <2>1, <2>2, <2>3 DEF AllGenuine, Genuine
<1>3. a \in Candidate /\ a.name = c.name /\ a.target = u
  BY <1>2 DEF Candidate
<1> HIDE DEF a
<1>4. /\ Len(plan') = Len(plan) + 1 /\ Len(plan) \in Nat
      /\ \A i \in 1..Len(plan) : plan'[i] = plan[i]
      /\ plan'[Len(plan')] = a
  BY <1>1, <1>2, <1>3 DEF a
<1>5. ASSUME NEW i \in 1..Len(plan')
      PROVE  \/ i \in 1..Len(plan) /\ plan'[i] = plan[i]
             \/ i = Len(plan') /\ plan'[i] = a
  BY <1>4
<1>6. remaining[t] \in Nat /\ remaining[t] + Total(Names, Share(t)) = Capacity[tiers[t]]
  BY <1>2 DEF Room, Assigned, Walked
<1>7. Share(t) \in [Names -> Nat] /\ Total(Names, Share(t)) \in Nat
  BY ShareNat, TotalNat, FinitenessAssumption DEF FinitenessAssumption
<1>8. \A n \in Names \ {c.name} : Share(t)'[n] = Share(t)[n]
  <2> SUFFICES ASSUME NEW n \in Names, n # c.name
               PROVE  (\E i \in 1..Len(plan') : plan'[i].name = n /\ plan'[i].target = t)
                      <=> (\E i \in 1..Len(plan) : plan[i].name = n /\ plan[i].target = t)
    BY DEF Share
  <2> QED BY <1>3, <1>4, <1>5
<1>9. Share(t)[c.name] = 0
  BY <1>2 DEF Share, PlanInv, Distinct
<1>10. Share(t)'[c.name] = IF u = t THEN c.size ELSE 0
  <2>1. (\E i \in 1..Len(plan') : plan'[i].name = c.name /\ plan'[i].target = t) <=> u = t
    BY <1>3, <1>4, <1>5 DEF PlanInv, Distinct
  <2> QED BY <1>2, <2>1 DEF Share
<1>11. Share(t)' \in [Names -> Nat]
  <2>1. \A n \in Names : Share(t)'[n] \in Nat
    BY <1>2, <1>7, <1>8, <1>10
  <2> QED BY <2>1 DEF Share
<1>12. CASE u = t
  <2>1. Total(Names, Share(t)') = Total(Names, Share(t)) + c.size
    <3> DEFINE g == Share(t)
               h == Share(t)'
    <3>1. /\ g \in [Names -> Nat] /\ h \in [Names -> Nat] /\ h[c.name] = g[c.name] + c.size
          /\ \A n \in Names \ {c.name} : h[n] = g[n]
      BY <1>2, <1>7, <1>8, <1>9, <1>10, <1>11, <1>12
    <3> HIDE DEF g, h
    <3>2. Total(Names, h) = Total(Names, g) + c.size
      BY <1>2, <3>1, TotalAt, FinitenessAssumption DEF FinitenessAssumption
    <3> QED BY <3>2 DEF g, h
  <2>2. remaining'[t] = remaining[t] - c.size /\ c.size <= remaining[t]
    BY <1>1, <1>2, <1>12 DEF FirstFit
  <2> QED BY <1>2, <1>6, <1>7, <2>1, <2>2
<1>13. CASE u # t
  <2>1. Share(t)' = Share(t)
    BY <1>7, <1>8, <1>9, <1>10, <1>11, <1>13
  <2>2. remaining'[t] = remaining[t]
    BY <1>1, <1>2, <1>13
  <2> QED BY <1>6, <2>1, <2>2
<1> QED BY <1>12, <1>13

LEMMA RoomStep ==
  ASSUME IInv, PlanInv, AllGenuine, Room, [Next]_vars
  PROVE  Room'
<1> SUFFICES ASSUME Unharmed', Assigned'
             PROVE  Room'
  BY DEF Room
<1>1. Unharmed
  BY UnharmedBefore
<1>2. CASE Start \/ Crash \/ WalkTier
  BY <1>2 DEF Start, Crash, WalkTier, Assigned, Walked
<1>3. CASE Resolve
  <2>1. /\ plan' = << >> /\ tiers' = tiers
        /\ remaining' = [t \in 1..Len(tiers) |-> Capacity[tiers[t]]]
    BY <1>3 DEF Resolve, PlanInv, Unplanned2
  <2>2. ASSUME NEW t \in Levels PROVE Total(Names, Share(t)') = 0
    <3> DEFINE g == Share(t)'
    <3>1. g \in [Names -> Nat] /\ \A n \in Names : g[n] = 0
      BY <2>1 DEF Share
    <3> HIDE DEF g
    <3>2. Total(Names, g) = 0
      BY <3>1, TotalZero, FinitenessAssumption DEF FinitenessAssumption
    <3> QED BY <3>2 DEF g
  <2>3. \A t \in Levels : Capacity[tiers[t]] \in Nat
    BY TierFacts, ConfigAssumption DEF ConfigAssumption
  <2> QED BY <2>1, <2>2, <2>3 DEF Room, Levels
<1>4. CASE Assign
  <2>1. tiers' = tiers
    BY <1>4 DEF Assign
  <2> QED BY <1>1, <1>4, <2>1, AssignRoom DEF Room, Levels
<1>5. CASE AssignDone \/ Exec \/ UNCHANGED vars
  <2>1. UNCHANGED <<tiers, plan, remaining>> /\ Assigned
    BY <1>5, ExecFrame DEF AssignDone, planning, vars, Assigned, Walked
  <2>2. \A t : Share(t)' = Share(t)
    BY <2>1 DEF Share
  <2> QED BY <1>1, <2>1, <2>2 DEF Room, Levels
<1> QED BY <1>2, <1>3, <1>4, <1>5, StepKinds

\* At the end of a run no fault has befallen and that did not stop at the error threshold, every
\* tier is within its limit, in whatever order its files came and went and whichever failed.
THEOREM CapacitiesKept ==
  ASSUME StableLayout
  PROVE  Spec => []CapacityKept
<1>1. Init => Room
  BY DEF Init, Room, Assigned, Walked
<1>2. Spec => []Room
  BY <1>1, RoomStep, Invariance, PlanInvariance, CleanInvariance, PTL DEF Spec
<1>3. IInv /\ PlanInv /\ SiteInv /\ Settled /\ NoRubbish /\ AllGenuine /\ Room => CapacityKept
  <2> SUFFICES ASSUME IInv, PlanInv, SiteInv, Settled, NoRubbish, AllGenuine, Room,
                      FaultFree, errors < ErrorThreshold, NEW t \in Levels
               PROVE  Usage(tiers[t]) <= Capacity[tiers[t]]
    BY DEF CapacityKept, Levels
  <2>1. pc = "done" /\ Healthy /\ Unharmed /\ Assigned
    BY DEF FaultFree, Healthy, Unharmed, Assigned, Walked
  <2>2. at > Len(plan) /\ at \in Nat /\ Len(plan) \in Nat
    <3>1. ~ (errors >= ErrorThreshold) /\ at \in Nat /\ Len(plan) \in Nat
      BY ConfigAssumption DEF ConfigAssumption, IInv, TypeOK
    <3> QED BY <2>1, <3>1 DEF PlanInv, Finished
  <2> DEFINE g == Bytes(tiers[t])
             h == Share(t)
  <2>3. h \in [Names -> Nat]
    BY <2>1, ShareNat
  <2>4. ASSUME NEW n \in Names PROVE g[n] \in Nat /\ g[n] <= h[n]
    <3>1. disk[tiers[t]][n] \in Nat \cup {Absent}
      BY TierFacts
    <3>2. CASE disk[tiers[t]][n] = Absent
      BY <2>3, <3>2 DEF Bytes
    <3>3. CASE disk[tiers[t]][n] # Absent
      <4>1. n \in Files
        BY <2>1, <3>3, TierFacts DEF NoRubbish, InHand
      <4>2. inventory[n].tier = t /\ disk[tiers[t]][n] = Size[n]
        BY <2>1, <3>3, <4>1 DEF SiteInv, Located, Assigned, InPlace, Places, Touched
      <4>3. PICK i \in 1..Len(plan) : plan[i].name = n
        <5>1. inventory[n] # Nowhere
          BY <4>2, TierFacts DEF Nowhere, Levels
        <5> QED BY <2>1, <5>1 DEF PlanInv, Covered, Drained, Planned, Waiting
      <4>4. plan[i].target = t
        <5>1. t # 0 /\ i < at
          BY <2>2, TierFacts DEF Levels
        <5> QED BY <2>1, <4>1, <4>2, <4>3, <5>1 DEF Settled
      <4>5. h[n] = Size[n] /\ g[n] = Size[n]
        BY <3>3, <4>2, <4>3, <4>4 DEF Share, Bytes
      <4> QED BY <3>1, <3>3, <4>2, <4>5, <2>3
    <3> QED BY <3>2, <3>3
  <2>5. g \in [Names -> Nat]
    BY <2>4 DEF Bytes
  <2>6. Total(Names, g) <= Total(Names, h) /\ Total(Names, g) \in Nat /\ Total(Names, h) \in Nat
    <3> HIDE DEF g, h
    <3> QED BY <2>3, <2>4, <2>5, TotalMonotone, TotalNat, FinitenessAssumption
            DEF FinitenessAssumption
  <2>7. remaining[t] \in Nat /\ remaining[t] + Total(Names, h) = Capacity[tiers[t]]
    BY <2>1 DEF Room
  <2>8. Usage(tiers[t]) = Total(Names, g)
    BY UsageTotal
  <2>9. Capacity[tiers[t]] \in Nat
    BY TierFacts, ConfigAssumption DEF ConfigAssumption
  <2> HIDE DEF g, h
  <2> QED BY <2>6, <2>7, <2>8, <2>9
<1> QED BY <1>2, <1>3, Invariance, PlanInvariance, SiteInvariance, SettledInvariance,
           CleanInvariance, PTL
=============================================================================
