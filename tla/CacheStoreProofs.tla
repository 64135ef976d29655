-------------------------- MODULE CacheStoreProofs --------------------------
(***************************************************************************)
(* CacheManager implements PackageStore, for every value of its constants: *)
(* its initial states are initial states of the store, and each of its     *)
(* steps, seen through Holders and Doomed, is a step of the store or none. *)
(* Needed of the states is IInv, and Copied: a source is removed only when *)
(* its copy is in place.                                                   *)
(***************************************************************************)
EXTENDS CacheManagerProofs

LEMMA HoldersFacts ==
  /\ Holders \in [Files -> SUBSET Dirs]
  /\ \A f \in Files, d \in Dirs : d \in Holders[f] <=> disk[d][f] # Absent
  BY DEF Holders

\* A step that disturbs the copies of one file, and where they are after it.
LEMMA OneFileChanges ==
  ASSUME NEW f \in Files, NEW held \in SUBSET Dirs,
         \A g \in Files, d \in Dirs : g # f => disk'[d][g] = disk[d][g],
         \A d \in Dirs : d \in held <=> disk'[d][f] # Absent
  PROVE  Holders' = [Holders EXCEPT ![f] = held]
<1>1. Holders' = [g \in Files |-> {d \in Dirs : disk'[d][g] # Absent}]
  BY DEF Holders
<1>2. {d \in Dirs : disk'[d][f] # Absent} = held
  OBVIOUS
<1>3. \A g \in Files : g # f => {d \in Dirs : disk'[d][g] # Absent} = Holders[g]
  BY DEF Holders
<1>4. Holders' = [g \in Files |-> IF g = f THEN held ELSE Holders[g]]
  BY <1>1, <1>2, <1>3
<1> QED BY <1>4, HoldersFacts

\* Steps that write only under temporary names, or not at all, are hidden from readers.
LEMMA HiddenStep ==
  ASSUME \A f \in Files, d \in Dirs : disk'[d][f] # Absent <=> disk[d][f] # Absent
  PROVE  Holders' = Holders
  BY DEF Holders

LEMMA SamePlan ==
  ASSUME UNCHANGED plan
  PROVE  UNCHANGED Doomed
  BY DEF Doomed

LEMMA StoreInit == Init => Store!Init
<1> SUFFICES ASSUME Init PROVE Store!Init
  OBVIOUS
<1>1. Doomed = {}
  BY DEF Init, Doomed
<1> QED BY <1>1, HoldersFacts DEF Store!Init

LEMMA StoreEvict == IInv /\ Evict => [Store!Next]_(Store!store)
<1> SUFFICES ASSUME IInv, Evict PROVE [Store!Next]_(Store!store)
  OBVIOUS
<1>1. /\ disk \in [Dirs -> [Names -> Nat \cup {Absent}]]
      /\ Current.name \in Names /\ Source \in Dirs /\ at \in DOMAIN plan
  BY CurrentFacts, LayoutFacts DEF Evict, Executing, IsLocal, IInv, TypeOK
<1>2. UNCHANGED Doomed
  BY SamePlan DEF Evict, planning
<1>3. CASE UNCHANGED disk \/ Current.name \notin Files \/ disk[Source][Current.name] = Absent
  <2>1. disk' = disk \/ disk' = [disk EXCEPT ![Source][Current.name] = Absent]
    BY DEF Evict
  <2>2. \A f \in Files, d \in Dirs : disk'[d][f] = disk[d][f]
    BY <1>1, <1>3, <2>1 DEF Names
  <2>3. Holders' = Holders
    BY <2>2, HiddenStep
  <2> QED BY <1>2, <2>3 DEF Store!store
<1>4. CASE /\ disk' = [disk EXCEPT ![Source][Current.name] = Absent]
           /\ Current.name \in Files /\ disk[Source][Current.name] # Absent
  <2>1. \A f \in Files, d \in Dirs : disk'[d][f] =
          IF f = Current.name /\ d = Source THEN Absent ELSE disk[d][f]
    BY <1>1, <1>4 DEF Names
  <2>2. Holders' = [Holders EXCEPT ![Current.name] = Holders[Current.name] \ {Source}]
    <3>1. \A g \in Files, d \in Dirs : g # Current.name => disk'[d][g] = disk[d][g]
      BY <1>1, <1>4, <2>1
    <3>2. \A d \in Dirs : d \in (Holders[Current.name] \ {Source}) <=> disk'[d][Current.name] # Absent
      BY <1>1, <1>4, <2>1, HoldersFacts
    <3>3. (Holders[Current.name] \ {Source}) \in SUBSET Dirs
      BY <1>1, <1>4, <2>1, HoldersFacts
    <3> QED BY <1>1, <1>4, <2>1, <3>1, <3>2, <3>3, OneFileChanges
  <2>3. Current.name \in Doomed
    BY <1>1, <1>4 DEF Doomed, Evict, Current
  <2>4. Source \in Holders[Current.name]
    BY <1>1, <1>4, HoldersFacts
  <2>5. Store!Evict(Current.name, Source)
    BY <1>2, <2>2, <2>3, <2>4 DEF Store!Evict
  <2> QED BY <1>1, <1>4, <2>5 DEF Store!Next
<1> QED BY <1>3, <1>4 DEF Evict

LEMMA StoreFetchCommit == IInv /\ FetchCommit => [Store!Next]_(Store!store)
<1> SUFFICES ASSUME IInv, FetchCommit PROVE [Store!Next]_(Store!store)
  OBVIOUS
<1>1. /\ disk \in [Dirs -> [Names -> Nat \cup {Absent}]]
      /\ Current.name \in Files /\ Dest \in Dirs
  BY CurrentFacts DEF FetchCommit, IInv, TypeOK, Placed, IsLocal, CandidateOK
<1>2. UNCHANGED Doomed
  BY SamePlan DEF FetchCommit, planning
<1>3. /\ Part[Current.name] \notin Files /\ disk[Dest][Part[Current.name]] # Absent
      /\ Part[Current.name] \in Names
  BY <1>1, NamesAssumption DEF FetchCommit, NamesAssumption, Names, IInv, Placed
<1>4. \A f \in Files, d \in Dirs : disk'[d][f] =
        IF f = Current.name /\ d = Dest THEN disk[Dest][Part[Current.name]] ELSE disk[d][f]
  BY <1>1, <1>3 DEF FetchCommit, Names
<1>5. Holders' = [Holders EXCEPT ![Current.name] = Holders[Current.name] \cup {Dest}]
  <2>1. \A g \in Files, d \in Dirs : g # Current.name => disk'[d][g] = disk[d][g]
    BY <1>1, <1>3, <1>4
  <2>2. \A d \in Dirs : d \in (Holders[Current.name] \cup {Dest}) <=> disk'[d][Current.name] # Absent
    BY <1>1, <1>3, <1>4, HoldersFacts
  <2>3. (Holders[Current.name] \cup {Dest}) \in SUBSET Dirs
    BY <1>1, <1>3, <1>4, HoldersFacts
  <2> QED BY <1>1, <1>3, <1>4, <2>1, <2>2, <2>3, OneFileChanges
<1>6. Store!Place(Current.name, Dest)
  BY <1>2, <1>5 DEF Store!Place
<1> QED BY <1>1, <1>6 DEF Store!Next

LEMMA StoreMoveRename == IInv /\ MoveRename => [Store!Next]_(Store!store)
<1> SUFFICES ASSUME IInv, MoveRename PROVE [Store!Next]_(Store!store)
  OBVIOUS
<1>1. /\ disk \in [Dirs -> [Names -> Nat \cup {Absent}]] /\ Current.name \in Names
      /\ Source \in Dirs /\ Dest \in Dirs /\ Source # Dest /\ SourceBytes # Absent
  BY MovingFacts DEF MoveRename, IInv, TypeOK
<1>2. UNCHANGED Doomed
  BY SamePlan DEF MoveRename, planning
<1>3. \A f \in Files, d \in Dirs : disk'[d][f] =
        IF f # Current.name THEN disk[d][f]
        ELSE IF d = Source THEN Absent ELSE IF d = Dest THEN SourceBytes ELSE disk[d][f]
  BY <1>1 DEF MoveRename, Names
<1>4. CASE Current.name \notin Files
  <2>1. \A f \in Files, d \in Dirs : disk'[d][f] # Absent <=> disk[d][f] # Absent
    BY <1>3, <1>4
  <2> QED BY <1>2, <2>1, HiddenStep DEF Store!store
<1>5. CASE Current.name \in Files
  <2>1. Holders' = [Holders EXCEPT ![Current.name] =
                      (Holders[Current.name] \ {Source}) \cup {Dest}]
    <3>1. \A g \in Files, d \in Dirs : g # Current.name => disk'[d][g] = disk[d][g]
      BY <1>1, <1>3, <1>5
    <3>2. \A d \in Dirs : d \in ((Holders[Current.name] \ {Source}) \cup {Dest}) <=> disk'[d][Current.name] # Absent
      BY <1>1, <1>3, <1>5, HoldersFacts
    <3>3. ((Holders[Current.name] \ {Source}) \cup {Dest}) \in SUBSET Dirs
      BY <1>1, <1>3, <1>5, HoldersFacts
    <3> QED BY <1>1, <1>3, <1>5, <3>1, <3>2, <3>3, OneFileChanges
  <2>2. Source \in Holders[Current.name]
    BY <1>1, <1>5, HoldersFacts DEF SourceBytes
  <2>3. Store!Move(Current.name, Source, Dest)
    BY <1>2, <2>1, <2>2 DEF Store!Move
  <2> QED BY <1>1, <1>5, <2>3 DEF Store!Next
<1> QED BY <1>4, <1>5

LEMMA StoreCopyCommit == IInv /\ CopyCommit => [Store!Next]_(Store!store)
<1> SUFFICES ASSUME IInv, CopyCommit PROVE [Store!Next]_(Store!store)
  OBVIOUS
<1>1. /\ disk \in [Dirs -> [Names -> Nat \cup {Absent}]] /\ Current.name \in Names
      /\ Dest \in Dirs /\ disk[Dest][temp] # Absent
  BY MovingFacts DEF CopyCommit, IInv, TypeOK, Placed
<1>3. UNCHANGED Doomed
  BY SamePlan DEF CopyCommit, planning
<1>4. temp \notin Files
  BY NamesAssumption DEF NamesAssumption, IInv, TypeOK
<1>5. \A f \in Files, d \in Dirs : disk'[d][f] =
        IF f = Current.name /\ d = Dest THEN disk[Dest][temp] ELSE disk[d][f]
  BY <1>1, <1>4 DEF CopyCommit, Names
<1>6. CASE Current.name \notin Files
  <2>1. \A f \in Files, d \in Dirs : disk'[d][f] # Absent <=> disk[d][f] # Absent
    BY <1>5, <1>6
  <2> QED BY <1>3, <2>1, HiddenStep DEF Store!store
<1>7. CASE Current.name \in Files
  <2>1. Holders' = [Holders EXCEPT ![Current.name] = Holders[Current.name] \cup {Dest}]
    <3>1. \A g \in Files, d \in Dirs : g # Current.name => disk'[d][g] = disk[d][g]
      BY <1>1, <1>5, <1>7
    <3>2. \A d \in Dirs : d \in (Holders[Current.name] \cup {Dest}) <=> disk'[d][Current.name] # Absent
      BY <1>1, <1>5, <1>7, HoldersFacts
    <3>3. (Holders[Current.name] \cup {Dest}) \in SUBSET Dirs
      BY <1>1, <1>5, <1>7, HoldersFacts
    <3> QED BY <1>1, <1>5, <1>7, <3>1, <3>2, <3>3, OneFileChanges
  <2>2. Store!Place(Current.name, Dest)
    BY <1>3, <2>1 DEF Store!Place
  <2> QED BY <1>1, <1>7, <2>2 DEF Store!Next
<1> QED BY <1>6, <1>7

LEMMA StoreUnlink == IInv /\ Copied /\ Unlink => [Store!Next]_(Store!store)
<1> SUFFICES ASSUME IInv, Copied, Unlink PROVE [Store!Next]_(Store!store)
  OBVIOUS
<1>1. /\ disk \in [Dirs -> [Names -> Nat \cup {Absent}]] /\ Current.name \in Names
      /\ Source \in Dirs /\ Dest \in Dirs /\ Source # Dest
      /\ disk[Dest][Current.name] # Absent
  BY MovingFacts DEF Unlink, Copied, IInv, TypeOK
<1>2. UNCHANGED Doomed
  BY SamePlan DEF Unlink, planning
<1>3. CASE UNCHANGED disk \/ Current.name \notin Files \/ disk[Source][Current.name] = Absent
  <2>1. disk' = disk \/ disk' = [disk EXCEPT ![Source][Current.name] = Absent]
    BY DEF Unlink
  <2>2. \A f \in Files, d \in Dirs : disk'[d][f] = disk[d][f]
    BY <1>1, <1>3, <2>1 DEF Names
  <2>3. Holders' = Holders
    BY <2>2, HiddenStep
  <2> QED BY <1>2, <2>3 DEF Store!store
<1>4. CASE /\ disk' = [disk EXCEPT ![Source][Current.name] = Absent]
           /\ Current.name \in Files /\ disk[Source][Current.name] # Absent
  <2>1. \A f \in Files, d \in Dirs : disk'[d][f] =
          IF f = Current.name /\ d = Source THEN Absent ELSE disk[d][f]
    BY <1>1, <1>4 DEF Names
  <2>2. Holders' = [Holders EXCEPT ![Current.name] = Holders[Current.name] \ {Source}]
    <3>1. \A g \in Files, d \in Dirs : g # Current.name => disk'[d][g] = disk[d][g]
      BY <1>1, <1>4, <2>1
    <3>2. \A d \in Dirs : d \in (Holders[Current.name] \ {Source}) <=> disk'[d][Current.name] # Absent
      BY <1>1, <1>4, <2>1, HoldersFacts
    <3>3. (Holders[Current.name] \ {Source}) \in SUBSET Dirs
      BY <1>1, <1>4, <2>1, HoldersFacts
    <3> QED BY <1>1, <1>4, <2>1, <3>1, <3>2, <3>3, OneFileChanges
  <2>3. Source \in Holders[Current.name] /\ Holders[Current.name] # {Source}
    BY <1>1, <1>4, HoldersFacts
  <2>4. Store!Drop(Current.name, Source)
    BY <1>2, <2>2, <2>3 DEF Store!Drop
  <2> QED BY <1>1, <1>4, <2>4 DEF Store!Next
<1> QED BY <1>3, <1>4 DEF Unlink

\* Every step of the cache manager is a step of the store, or readers do not see it.
LEMMA StoreStep == IInv /\ Copied /\ [Next]_vars => [Store!Next]_(Store!store)
<1> SUFFICES ASSUME IInv, Copied, [Next]_vars PROVE [Store!Next]_(Store!store)
  OBVIOUS
<1>1. disk \in [Dirs -> [Names -> Nat \cup {Absent}]]
  BY DEF IInv, TypeOK
<1>2. CASE UNCHANGED disk
  <2>1. Holders' = Holders
    BY <1>2, HiddenStep
  <2>2. Doomed' \in SUBSET Files
    BY DEF Doomed
  <2> QED BY <2>1, <2>2 DEF Store!Next, Store!Plan
<1>3. CASE FetchWrite \/ FetchFail
  <2>1. Current.name \in Files
    BY <1>3, CurrentFacts DEF FetchWrite, FetchFail, Executing, IInv, Placed, IsLocal, CandidateOK
  <2>2. Part[Current.name] \notin Files
    BY <2>1, NamesAssumption DEF NamesAssumption
  <2>3. \A f \in Files, d \in Dirs : disk'[d][f] = disk[d][f]
    BY <1>1, <1>3, <2>2 DEF FetchWrite, FetchFail, Names
  <2>4. Holders' = Holders
    BY <2>3, HiddenStep
  <2>5. UNCHANGED Doomed
    BY <1>3, SamePlan DEF FetchWrite, FetchFail, planning
  <2> QED BY <2>4, <2>5 DEF Store!store
<1>4. CASE CopyWrite \/ CopyRest \/ CopyFail
  <2>1. temp \notin Files /\ \A t \in Temps : t \notin Files
    BY NamesAssumption DEF NamesAssumption, IInv, TypeOK
  <2>2. \A f \in Files, d \in Dirs : disk'[d][f] = disk[d][f]
    BY <1>1, <1>4, <2>1 DEF CopyWrite, CopyRest, CopyFail, Names
  <2>3. Holders' = Holders
    BY <2>2, HiddenStep
  <2>4. UNCHANGED Doomed
    BY <1>4, SamePlan DEF CopyWrite, CopyRest, CopyFail, planning
  <2> QED BY <2>3, <2>4 DEF Store!store
<1>5. CASE Evict \/ FetchCommit \/ MoveRename \/ CopyCommit \/ Unlink
  BY <1>5, StoreEvict, StoreFetchCommit, StoreMoveRename, StoreCopyCommit, StoreUnlink
<1> QED
  BY <1>2, <1>3, <1>4, <1>5
  DEF Next, Step, Move, Fetch, Eviction, Start, WalkTier, Resolve, Assign, AssignDone, Skip,
      Panic, ExecuteDone, Cleanup, Forget, Record, MoveFail, Retier, Crash, durable, vars

\* The cache manager, whatever fails and whenever it dies, is a PackageStore to readers.
THEOREM StoreImplemented == Spec => ImplementsStore
<1>1. Init => Copied
  BY DEF Init, Copied
<1>2. Spec => []Copied
  BY <1>1, CopiedStep, Invariance, PTL DEF Spec
<1> QED BY <1>2, StoreInit, StoreStep, Invariance, PTL DEF Spec, ImplementsStore, Store!Spec
=============================================================================
