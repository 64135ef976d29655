---------------------------- MODULE CacheManager ----------------------------
(***************************************************************************)
(* The cache phases of the sync command: CacheManager.Run in               *)
(* syncer/cache.go, with Downloader in syncer/downloader.go and the tables *)
(* local_sizes and remote_sizes of db/sizedb.go.                           *)
(*                                                                         *)
(* One process at a time runs the phases; it may die at any step and a     *)
(* later run starts from what the disk and the two tables hold.  A step    *)
(* is one file-system operation or one statement sent to the database, so  *)
(* a crash falls between any two of them.                                  *)
(*                                                                         *)
(* Tier indexes are those of the code plus one: 1 is the hottest tier and  *)
(* 0 stands for the code's -1 (no tier).                                   *)
(***************************************************************************)
EXTENDS Integers, Sequences, FiniteSetsExt

CONSTANTS
  Files,          \* package paths {ab}/{cd}/{hash}/{filename}
  Part,           \* [Files -> Parts]: the ".tmp" path a download of a file writes
  Parts,          \* those paths
  Temps,          \* the names os.CreateTemp may pick for a copy between tiers
  Dirs,           \* directories that may be configured as a cache tier
  Size,           \* [Files -> Nat]: bytes of the file upstream
  Capacity,       \* [Dirs -> Nat]: size_limit of a tier in that directory
  Layouts,        \* the tier lists an operator may configure, hottest first
  VoteCounts,     \* what popularMap may yield for a file; 0 is "not popular"
  SizeFloor,      \* 2 GiB in the code
  FilesizeLimit,  \* cache.filesize_limit
  Retry,          \* sync.retry
  ErrorThreshold, \* sync.download_error_threshold
  Faults,         \* the kinds of fault the environment may inject
  MaxFaults,      \* bound on how many of them
  MaxRuns         \* bound on how many times sync is started

Names == Files \cup Parts \cup Temps

(***************************************************************************)
(* "walk": the inventory of a tier stops at an error.  "nolength": a HEAD  *)
(* answer has no Content-Length.  "copy": a move fails while copying.      *)
(* "unlink": os.Remove fails.  "db": a statement fails and the code drops  *)
(* the error.  "short": a file ends early and no call says so.  "crash":   *)
(* the process dies; "torn": it dies where it leaves a file in a tier      *)
(* while the row of the file names another one.                            *)
(***************************************************************************)
FaultKinds == {"walk", "nolength", "copy", "unlink", "db", "short", "crash", "torn"}

ASSUME NamesAssumption ==
  /\ Files \cap Parts = {} /\ Files \cap Temps = {} /\ Parts \cap Temps = {}
  /\ Temps # {}
  /\ Part \in [Files -> Parts]
  /\ \A f, g \in Files : Part[f] = Part[g] => f = g

ASSUME FinitenessAssumption == IsFiniteSet(Names)

ASSUME ConfigAssumption ==
  /\ Size \in [Files -> Nat] /\ Capacity \in [Dirs -> Nat]
  /\ Layouts \subseteq Seq(Dirs) /\ Layouts # {}
  /\ \A l \in Layouts : /\ l # << >>
                        /\ \A i, j \in 1..Len(l) : l[i] = l[j] => i = j
  /\ VoteCounts \subseteq Nat /\ 0 \in VoteCounts
  /\ SizeFloor \in Nat /\ FilesizeLimit \in Nat
  /\ Retry \in Nat \ {0} /\ ErrorThreshold \in Nat \ {0}
  /\ Faults \subseteq FaultKinds /\ MaxFaults \in Nat /\ MaxRuns \in Nat

Absent  == -1     \* no file at this path
Unknown == -1     \* no remote_sizes row
Gone    == -2     \* a remote_sizes row whose size is NULL (confirmed 404)
Nowhere == [size |-> 0, tier |-> 0]       \* no localFile, no local_sizes row

Entry     == [size : Nat, tier : Nat]
Candidate == [name : Names, size : Nat, votes : Nat, tier : Nat, target : Nat]
Phases    == {"idle", "walk", "resolve", "assign", "execute", "fetch", "record",
              "forget", "copy", "unlink", "retier", "cleanup", "done", "panicked"}
Resting   == {"idle", "done", "panicked"}

VARIABLES
  disk,         \* [Dirs -> [Names -> bytes of the file there, or Absent]]
  localSizes,   \* table local_sizes
  remoteSizes,  \* table remote_sizes
  aged,         \* files whose remote_sizes row is older than size_db_ttl
  pc,           \* where the run is
  tiers,        \* CacheManager.tiers of this process
  inventory,    \* the map Run passes from phase to phase
  pending,      \* candidates not yet assigned
  plan,         \* the assignments, in execution order
  remaining,    \* bytes left in each tier during the assignment pass
  at,           \* loop index: tier in phase A, assignment in phase D
  attempt,      \* failed attempts of the current download
  errors,       \* downloadErrors
  temp,         \* the name os.CreateTemp picked for the current copy
  runs, faults, hit   \* bounds, and the kinds of fault that occurred

durable   == <<disk, localSizes, remoteSizes, aged>>
planning  == <<pending, plan, remaining>>
faultVars == <<faults, hit>>
vars == <<disk, localSizes, remoteSizes, aged, pc, tiers, inventory, pending, plan,
          remaining, at, attempt, errors, temp, runs, faults, hit>>

\* A step on which faults of these kinds befall the run.
Inject(kinds) == /\ kinds \subseteq Faults /\ (kinds = {} \/ faults < MaxFaults)
                 /\ faults' = IF kinds = {} THEN faults ELSE faults + 1
                 /\ hit' = hit \cup kinds
NoFault     == Inject({})
Fault(kind) == Inject({kind})

EmptyInventory == [n \in Names |-> Nowhere]
AnyTemp == CHOOSE t \in Temps : TRUE

(***************************************************************************)
(* scoreFile: votes / (max(size, 2 GiB) + 1).  The code compares floating  *)
(* point quotients; here the comparison is exact.                          *)
(***************************************************************************)
Weight(size) == 1 + (IF size < SizeFloor THEN SizeFloor ELSE size)
Outscores(a, b) == a.votes * Weight(b.size) > b.votes * Weight(a.size)

Current   == plan[at]
IsLocal(c) == c.tier # 0
Source    == tiers[Current.tier]
Dest      == tiers[Current.target]

(***************************************************************************)
(* A first sync may find packages an earlier mirror left (DEPLOY.md,       *)
(* "Migration"), each in one tier, and empty tables.                       *)
(***************************************************************************)
Init ==
  /\ \E home \in [Files -> {{}} \cup {{d} : d \in Dirs}] :
       disk = [d \in Dirs |-> [n \in Names |-> IF n \in {f \in Files : d \in home[f]} THEN Size[n]
                                            ELSE Absent]]
  /\ localSizes = EmptyInventory
  /\ remoteSizes = [f \in Files |-> Unknown]
  /\ aged = {}
  /\ pc = "idle" /\ tiers \in Layouts /\ inventory = EmptyInventory
  /\ pending = {} /\ plan = << >> /\ remaining = << >>
  /\ at = 1 /\ attempt = 0 /\ errors = 0 /\ temp = AnyTemp
  /\ runs = 0 /\ faults = 0 /\ hit = {}

(***************************************************************************)
(* A sync process starts: it loads the configuration of the day.  Between  *)
(* two runs any remote_sizes row may have outlived size_db_ttl.            *)
(***************************************************************************)
Start ==
  /\ pc \in Resting /\ runs < MaxRuns
  /\ tiers' \in Layouts
  /\ \E old \in SUBSET {f \in Files : remoteSizes[f] # Unknown} : aged' = aged \cup old
  /\ pc' = "walk" /\ inventory' = EmptyInventory
  /\ pending' = {} /\ plan' = << >> /\ remaining' = << >>
  /\ at' = 1 /\ attempt' = 0 /\ errors' = 0 /\ temp' = AnyTemp
  /\ runs' = runs + 1 /\ NoFault
  /\ UNCHANGED <<disk, localSizes, remoteSizes>>

(***************************************************************************)
(* Phase A, one tier: a path already in the inventory is skipped, a path   *)
(* with a row gets the row's size and tier, any other gets its size on     *)
(* disk, this tier and a new row.  An error ends the walk of the tier and  *)
(* is only logged.                                                         *)
(***************************************************************************)
WalkTier ==
  /\ pc = "walk"
  /\ LET here  == disk[tiers[at]]
         found == {n \in Names : here[n] # Absent}
         entry(n) == IF localSizes[n] # Nowhere THEN localSizes[n]
                     ELSE [size |-> here[n], tier |-> at]
     IN \E seen \in SUBSET found :
          LET new == {n \in seen : inventory[n] = Nowhere} IN
          /\ IF seen = found THEN NoFault ELSE Fault("walk")
          /\ inventory'  = [n \in Names |-> IF n \in new THEN entry(n) ELSE inventory[n]]
          /\ localSizes' = [n \in Names |-> IF n \in new THEN entry(n) ELSE localSizes[n]]
  /\ IF at = Len(tiers) THEN pc' = "resolve" /\ at' = 1
                        ELSE at' = at + 1 /\ UNCHANGED pc
  /\ UNCHANGED <<disk, remoteSizes, aged, tiers, planning, attempt, errors, temp, runs>>

(***************************************************************************)
(* Phase B for one set of vote counts, and phase C.  A popular file that   *)
(* is not in the inventory takes the size remote_sizes holds, whatever its *)
(* age, or else what a HEAD request answers: a 404 (stored as NULL), a     *)
(* length, or no length, which the code reads as 0.  An error of the       *)
(* lookup or of the request skips the file; an error of the store is       *)
(* dropped.                                                                *)
(***************************************************************************)
Failed   == -3
NoLength == -4
Answers(f) == {Failed} \cup (IF remoteSizes[f] # Unknown THEN {remoteSizes[f]}
                             ELSE {Gone, NoLength, Size[f]})

Length(a) == IF a = NoLength THEN 0 ELSE a

FetchableAnySize(size) == size >= 0    \* mutant: the filesize_limit test is missing
Fetchable(size) == size >= 0 /\ size <= FilesizeLimit

Missing(votes) == {f \in Files : votes[f] # 0 /\ inventory[f] = Nowhere}
Asked(votes, answer) ==
  {f \in Missing(votes) : remoteSizes[f] = Unknown /\ answer[f] # Failed}

Local(votes) ==
  {[name |-> n, size |-> inventory[n].size, votes |-> IF n \in Files THEN votes[n] ELSE 0,
    tier |-> inventory[n].tier, target |-> 0] : n \in {m \in Names : inventory[m] # Nowhere}}
Wanted(votes, answer) ==
  {[name |-> f, size |-> Length(answer[f]), votes |-> votes[f], tier |-> 0, target |-> 0] :
     f \in {g \in Missing(votes) : Fetchable(Length(answer[g]))}}

Resolve ==
  /\ pc = "resolve"
  /\ \E votes \in [Files -> VoteCounts] :
       \E answer \in [Missing(votes) -> UNION {Answers(f) : f \in Missing(votes)}] :
         /\ \A f \in Missing(votes) : answer[f] \in Answers(f)
         /\ \E stored \in SUBSET Asked(votes, answer) :
              /\ Inject((IF stored = Asked(votes, answer) THEN {} ELSE {"db"})
                        \cup {"nolength" : f \in {g \in Missing(votes) : answer[g] = NoLength}})
              /\ remoteSizes' = [f \in Files |-> IF f \in stored THEN Length(answer[f])
                                                ELSE remoteSizes[f]]
         /\ pending' = Local(votes) \cup Wanted(votes, answer)
  /\ remaining' = [t \in 1..Len(tiers) |-> Capacity[tiers[t]]]
  /\ pc' = "assign"
  /\ UNCHANGED <<disk, localSizes, aged, tiers, inventory, plan, at, attempt, errors, temp, runs>>

(***************************************************************************)
(* Phase D, assignment pass.  sort.Slice is not stable and its input comes *)
(* from a map, so any candidate that no other outscores may be next; it    *)
(* goes to the first tier with room for it, or to none.                    *)
(***************************************************************************)
\* Tier t is the first with room for so many bytes; 0 is the answer if none has.
FirstFitByOne(size, t) ==     \* mutant: one byte too many fits
  /\ t # 0 => remaining[t] + 1 >= size
  /\ \A u \in 1..Len(tiers) : t = 0 \/ u < t => remaining[u] + 1 < size
FirstFit(size, t) ==
  /\ t # 0 => remaining[t] >= size
  /\ \A u \in 1..Len(tiers) : t = 0 \/ u < t => remaining[u] < size

Worst(c) == \A o \in pending : ~ Outscores(c, o)     \* mutant: sorted ascending
Best(c)  == \A o \in pending : ~ Outscores(o, c)

Assign ==
  /\ pc = "assign"
  /\ \E c \in pending, t \in 0..Len(tiers) :
       /\ Best(c) /\ FirstFit(c.size, t)
       /\ plan' = Append(plan, [c EXCEPT !.target = t])
       /\ remaining' = IF t = 0 THEN remaining ELSE [remaining EXCEPT ![t] = @ - c.size]
       /\ pending' = pending \ {c}
  /\ UNCHANGED <<durable, pc, tiers, inventory, at, attempt, errors, temp, runs, faultVars>>

AssignDone ==
  /\ pc = "assign" /\ pending = {}
  /\ pc' = "execute" /\ at' = 1
  /\ UNCHANGED <<durable, tiers, inventory, planning, attempt, errors, temp, runs, faultVars>>

(***************************************************************************)
(* Phase D, execution pass: the loop ends after the last assignment, or    *)
(* before the next one once downloadErrors has reached the threshold.      *)
(***************************************************************************)
Executing == pc = "execute" /\ at <= Len(plan) /\ errors < ErrorThreshold

ExecuteDone ==
  /\ pc = "execute" /\ (at > Len(plan) \/ errors >= ErrorThreshold)
  /\ pc' = "cleanup"
  /\ UNCHANGED <<durable, tiers, inventory, planning, at, attempt, errors, temp, runs, faultVars>>

\* The loop moves on to the next assignment.
SkipOne == pc' = "execute" /\ at' = at + 2     \* mutant: an assignment is passed over
Advance == pc' = "execute" /\ at' = at + 1

\* A download that was not given a tier, or a local file that is where it should be.
Skip ==
  /\ Executing
  /\ Current.tier = Current.target
  /\ Advance
  /\ UNCHANGED <<durable, tiers, inventory, planning, attempt, errors, temp, runs, faultVars>>

\* tierFilePath indexes CacheManager.tiers with a tier the configuration no longer has.
Panic ==
  /\ Executing
  /\ IsLocal(Current) /\ Current.tier # Current.target /\ Current.tier > Len(tiers)
  /\ pc' = "panicked"
  /\ UNCHANGED <<durable, tiers, inventory, planning, at, attempt, errors, temp, runs, faultVars>>

\* Eviction, first step: os.Remove; a failure is logged and changes nothing else.
Evict ==
  /\ Executing
  /\ IsLocal(Current) /\ Current.target = 0 /\ Current.tier <= Len(tiers)
  /\ \/ disk' = [disk EXCEPT ![Source][Current.name] = Absent] /\ NoFault
     \/ UNCHANGED disk /\ Fault("unlink")
  /\ pc' = "forget"
  /\ UNCHANGED <<localSizes, remoteSizes, aged, tiers, inventory, planning, at, attempt,
                 errors, temp, runs>>

\* Eviction, second step: DeleteLocalSize, whose error is dropped, and the inventory.
Forget ==
  /\ pc = "forget"
  /\ \/ localSizes' = [localSizes EXCEPT ![Current.name] = Nowhere] /\ NoFault
     \/ UNCHANGED localSizes /\ Fault("db")
  /\ inventory' = [inventory EXCEPT ![Current.name] = Nowhere]
  /\ Advance
  /\ UNCHANGED <<disk, remoteSizes, aged, tiers, planning, attempt, errors, temp, runs>>

\* One attempt of downloadOnce creates the temp file and has written some of the body.
FetchWrite ==
  /\ Executing
  /\ ~ IsLocal(Current) /\ Current.target # 0
  /\ \E written \in 0..Size[Current.name] :
       disk' = [disk EXCEPT ![Dest][Part[Current.name]] = written]
  /\ pc' = "fetch"
  /\ UNCHANGED <<localSizes, remoteSizes, aged, tiers, inventory, planning, at, attempt,
                 errors, temp, runs, faultVars>>

BodyIgnored  == TRUE     \* mutant: the error of io.Copy is not looked at
BodyComplete == disk[Dest][Part[Current.name]] = Size[Current.name]

\* The body has ended; the temp file is renamed to the package path.  A body that breaks
\* off is an error of io.Copy, unless it has no length and the end of the connection counts
\* as its end: then nobody sees that it is short.
FetchCommit ==
  /\ pc = "fetch"
  /\ IF BodyComplete THEN NoFault ELSE Fault("short")
  /\ disk' = [disk EXCEPT ![Dest] = [@ EXCEPT ![Current.name] = disk[Dest][Part[Current.name]],
                                              ![Part[Current.name]] = Absent]]
  /\ pc' = "record" /\ attempt' = 0
  /\ UNCHANGED <<localSizes, remoteSizes, aged, tiers, inventory, planning, at, errors,
                 temp, runs>>

AttemptKept == attempt       \* mutant: the retry loop does not count
NextAttempt == attempt + 1

\* The attempt fails, before the temp file exists or after: Download removes the temp
\* file, with no look at the error, and tries again, and after Retry failures counts one
\* download error.
FetchFail ==
  /\ \/ Executing /\ ~ IsLocal(Current) /\ Current.target # 0
     \/ pc = "fetch"
  /\ \/ disk' = [disk EXCEPT ![Dest][Part[Current.name]] = Absent] /\ NoFault
     \/ disk[Dest][Part[Current.name]] # Absent /\ UNCHANGED disk /\ Fault("unlink")
  /\ IF NextAttempt < Retry
     THEN attempt' = NextAttempt /\ pc' = "execute" /\ UNCHANGED <<at, errors>>
     ELSE attempt' = 0 /\ errors' = errors + 1 /\ Advance
  /\ UNCHANGED <<localSizes, remoteSizes, aged, tiers, inventory, planning, temp, runs>>

\* After a download: the inventory, and SetLocalSize, whose error is dropped.
Record ==
  /\ pc = "record"
  /\ LET e == [size |-> Current.size, tier |-> Current.target] IN
     /\ inventory' = [inventory EXCEPT ![Current.name] = e]
     /\ \/ localSizes' = [localSizes EXCEPT ![Current.name] = e] /\ NoFault
        \/ UNCHANGED localSizes /\ Fault("db")
  /\ Advance
  /\ UNCHANGED <<disk, remoteSizes, aged, tiers, planning, attempt, errors, temp, runs>>

(***************************************************************************)
(* moveFile: os.Rename, or a copy to a fresh temp file in the destination  *)
(* directory, a rename of it, and the removal of the source.               *)
(***************************************************************************)
Moving ==
  /\ Executing
  /\ IsLocal(Current) /\ Current.target # 0
  /\ Current.tier # Current.target /\ Current.tier <= Len(tiers)

SourceBytes == disk[Source][Current.name]

MoveRename ==
  /\ Moving /\ SourceBytes # Absent
  /\ disk' = [disk EXCEPT ![Source][Current.name] = Absent,
                          ![Dest][Current.name] = SourceBytes]
  /\ pc' = "retier"
  /\ UNCHANGED <<localSizes, remoteSizes, aged, tiers, inventory, planning, at, attempt,
                 errors, temp, runs, faultVars>>

\* The rename fails (another file system) and the copy has written some of the bytes.
CopyWrite ==
  /\ Moving /\ SourceBytes # Absent
  /\ \E t \in Temps, written \in 0..SourceBytes :
       /\ disk[Dest][t] = Absent
       /\ disk' = [disk EXCEPT ![Dest][t] = written]
       /\ temp' = t
  /\ pc' = "copy"
  /\ UNCHANGED <<localSizes, remoteSizes, aged, tiers, inventory, planning, at, attempt,
                 errors, runs, faultVars>>

CopyRest ==
  /\ pc = "copy" /\ disk[Dest][temp] < SourceBytes
  /\ disk' = [disk EXCEPT ![Dest][temp] = SourceBytes]
  /\ UNCHANGED <<localSizes, remoteSizes, aged, pc, tiers, inventory, planning, at, attempt,
                 errors, temp, runs, faultVars>>

\* The copy is renamed; an error that only the dropped one of out.Close reports leaves it short.
CopyCommit ==
  /\ pc = "copy"
  /\ IF disk[Dest][temp] = SourceBytes THEN NoFault ELSE Fault("short")
  /\ disk' = [disk EXCEPT ![Dest] = [@ EXCEPT ![temp] = Absent,
                                              ![Current.name] = disk[Dest][temp]]]
  /\ pc' = "unlink" /\ temp' = AnyTemp
  /\ UNCHANGED <<localSizes, remoteSizes, aged, tiers, inventory, planning, at, attempt,
                 errors, runs>>

\* The copy fails and removes its temp file; if that fails too, or if what fails is the
\* rename of the finished copy, the temp file stays.  The file keeps its tier.
GoesOn     == pc' = "unlink" /\ UNCHANGED at     \* mutant: the copy error is not looked at
AfterError == Advance
CopyFail ==
  /\ pc = "copy"
  /\ \/ disk' = [disk EXCEPT ![Dest][temp] = Absent] /\ Fault("copy")
     \/ disk[Dest][temp] = SourceBytes /\ UNCHANGED disk /\ Fault("copy")
     \/ UNCHANGED disk /\ Inject({"copy", "unlink"})
  /\ AfterError /\ temp' = AnyTemp
  /\ UNCHANGED <<localSizes, remoteSizes, aged, tiers, inventory, planning, attempt,
                 errors, runs>>

\* The move fails before a temp file exists: always so when the source is not there.
MoveFail ==
  /\ Moving
  /\ IF SourceBytes = Absent THEN NoFault ELSE Fault("copy")
  /\ Advance
  /\ UNCHANGED <<durable, tiers, inventory, planning, attempt, errors, temp, runs>>

\* The source is removed after the copy; a failure leaves both and keeps the tier.
Unlink ==
  /\ pc = "unlink"
  /\ \/ /\ disk' = [disk EXCEPT ![Source][Current.name] = Absent]
        /\ pc' = "retier" /\ UNCHANGED at /\ NoFault
     \/ UNCHANGED disk /\ Advance /\ Fault("unlink")
  /\ UNCHANGED <<localSizes, remoteSizes, aged, tiers, inventory, planning, attempt,
                 errors, temp, runs>>

\* After a move: the inventory, and UpdateLocalSizeTier, which touches no row if there
\* is none and whose error is dropped.
TierRowKept == localSizes     \* mutant: UpdateLocalSizeTier is not called
TierRow == IF localSizes[Current.name] = Nowhere THEN localSizes
           ELSE [localSizes EXCEPT ![Current.name].tier = Current.target]
Retier ==
  /\ pc = "retier"
  /\ inventory' = [inventory EXCEPT ![Current.name] =
                     [size |-> Current.size, tier |-> Current.target]]
  /\ \/ localSizes' = TierRow /\ NoFault
     \/ UNCHANGED localSizes /\ Fault("db")
  /\ Advance
  /\ UNCHANGED <<disk, remoteSizes, aged, tiers, planning, attempt, errors, temp, runs>>

(***************************************************************************)
(* Phase E: NULL rows of remote_sizes that outlived the TTL are deleted,   *)
(* then the rows of local_sizes for paths the inventory does not have.  An *)
(* error of either is dropped and leaves rows behind.                      *)
(***************************************************************************)
Cleanup ==
  /\ pc = "cleanup"
  /\ LET expired == {f \in aged : remoteSizes[f] = Gone}
         stale   == {n \in Names : localSizes[n] # Nowhere /\ inventory[n] = Nowhere}
     IN \E cleaned \in {{}, expired}, deleted \in SUBSET stale :
          /\ Inject(IF cleaned = expired /\ deleted = stale THEN {} ELSE {"db"})
          /\ remoteSizes' = [f \in Files |-> IF f \in cleaned THEN Unknown ELSE remoteSizes[f]]
          /\ aged' = aged \ cleaned
          /\ localSizes' = [n \in Names |-> IF n \in deleted THEN Nowhere ELSE localSizes[n]]
  /\ pc' = "done"
  /\ UNCHANGED <<disk, tiers, inventory, planning, at, attempt, errors, temp, runs>>

(***************************************************************************)
(* The process dies (SIGKILL, after TimeoutStartSec of the service unit or *)
(* by hand) or Run returns an error before phase C.  What was in memory is *)
(* lost; the kernel keeps what was written, which it would not if the      *)
(* machine died: nothing here calls fsync.  The row of a file may name     *)
(* another tier than the one it is in after a move, and also after a       *)
(* download, when an earlier process died between an eviction and the      *)
(* deletion of the row.                                                    *)
(***************************************************************************)
Torn == \/ pc \in {"unlink", "retier"}
        \/ pc = "record" /\ localSizes[Current.name].tier \notin {0, Current.target}

Crash ==
  /\ pc \notin Resting
  /\ Fault(IF Torn THEN "torn" ELSE "crash")
  /\ pc' = "idle" /\ inventory' = EmptyInventory
  /\ pending' = {} /\ plan' = << >> /\ remaining' = << >>
  /\ at' = 1 /\ attempt' = 0 /\ errors' = 0 /\ temp' = AnyTemp
  /\ UNCHANGED <<durable, tiers, runs>>

Move     == MoveRename \/ CopyWrite \/ CopyRest \/ CopyCommit \/ CopyFail \/ MoveFail \/ Unlink \/ Retier
Fetch    == FetchWrite \/ FetchCommit \/ FetchFail \/ Record
Eviction == Evict \/ Forget
Step     == \/ WalkTier \/ Resolve \/ Assign \/ AssignDone \/ Skip \/ Panic
            \/ Eviction \/ Fetch \/ Move \/ ExecuteDone \/ Cleanup

Next == Start \/ Step \/ Crash

(***************************************************************************)
(* A started process keeps running: its loops wait for nothing but calls   *)
(* that return (a request without an answer ends by its header timeout).   *)
(***************************************************************************)
Spec == Init /\ [][Next]_vars
FairSpec == Spec /\ WF_vars(Step)
-----------------------------------------------------------------------------
(***************************************************************************)
(* Properties.                                                             *)
(***************************************************************************)
TypeOK ==
  /\ disk \in [Dirs -> [Names -> Nat \cup {Absent}]]
  /\ localSizes \in [Names -> Entry] /\ inventory \in [Names -> Entry]
  /\ remoteSizes \in [Files -> Nat \cup {Unknown, Gone}]
  /\ aged \subseteq Files
  /\ pc \in Phases /\ tiers \in Layouts
  /\ pending \subseteq Candidate /\ plan \in Seq(Candidate)
  /\ remaining \in [DOMAIN remaining -> Nat]
  /\ at \in Nat \ {0} /\ attempt \in Nat /\ errors \in Nat /\ temp \in Temps
  /\ runs \in Nat /\ faults \in Nat /\ hit \subseteq FaultKinds

(***************************************************************************)
(* To those who read the cache, all this is a PackageStore.                *)
(***************************************************************************)
Holders == [f \in Files |-> {d \in Dirs : disk[d][f] # Absent}]
Doomed  == {f \in Files : \E i \in DOMAIN plan : plan[i].name = f /\ plan[i].target = 0}
Store   == INSTANCE PackageStore WITH where <- Holders, doomed <- Doomed

\* Every step of the cache manager, with every failure and crash, is one the store may
\* take or is hidden from its readers: a file changes tier without being absent, and
\* the last copy goes only while the plan in memory has no room for the file.
ImplementsStore == Store!Spec

Cached(f) == \E d \in Dirs : disk[d][f] # Absent
Usage(d) == MapThenSumSet(LAMBDA n : IF disk[d][n] = Absent THEN 0 ELSE disk[d][n], Names)
FaultFree == pc = "done" /\ hit = {}

\* A package path never holds part of a package, whatever call fails and whenever the process
\* dies, as long as no file ended early without an error: downloadOnce and copyFile write
\* elsewhere and rename.
WholePackages ==
  "short" \notin hit => \A d \in Dirs, f \in Files : disk[d][f] \in {Absent, Size[f]}

\* A package that is cached stops being cached only when the assignment pass gave it no tier:
\* no move, failed move, failed download or cleanup ever takes away the last file at its paths.
OnlyEvictionLoses ==
  [][\A f \in Files : Cached(f) /\ ~ Cached(f)' =>
       pc = "execute" /\ at \in DOMAIN plan /\ Current.name = f /\ Current.target = 0]_vars

\* A file is given a hotter tier than one that outscores it only if it is the smaller:
\* the greedy assignment never prefers a worse file that would need the same room.
Hotter(t, u) == t # 0 /\ (u = 0 \/ t < u)
NoInversion ==
  \A i, j \in DOMAIN plan :
    Outscores(plan[i], plan[j]) /\ Hotter(plan[j].target, plan[i].target)
      => plan[j].size < plan[i].size

\* As long as HEAD answers have a length, a file is downloaded only within filesize_limit.
FetchedWithinLimit ==
  pc = "record" /\ "nolength" \notin hit => Size[Current.name] <= FilesizeLimit

\* At the end of a run, with no fault so far, the table local_sizes, the inventory and
\* the disk agree: one copy of each file, where the row says, with its size.
Reconciled ==
  FaultFree =>
    /\ localSizes = inventory
    /\ \A n \in Names, t \in 1..Len(tiers) :
         disk[tiers[t]][n] = IF inventory[n].tier = t THEN inventory[n].size ELSE Absent

\* However often the process died before, as long as it never left a file whose row names
\* another tier, a run that reaches its end has repaired what that left: for each package
\* the row, the inventory and the disk agree on at most one copy.
CrashHeals ==
  pc = "done" /\ hit \subseteq {"crash"} =>
    \A f \in Files :
      /\ localSizes[f] = inventory[f]
      /\ \A t \in 1..Len(tiers) :
           disk[tiers[t]][f] = IF inventory[f].tier = t THEN inventory[f].size ELSE Absent

\* At the end of a fault-free run that did not stop at the error threshold, each tier is within
\* its limit, though downloads, moves and evictions ran in score order and some failed.
CapacityKept ==
  FaultFree /\ errors < ErrorThreshold =>
    \A t \in 1..Len(tiers) : Usage(tiers[t]) <= Capacity[tiers[t]]

\* If besides no download failed, the disk is what the assignment pass planned.
PlanRealised ==
  FaultFree /\ errors = 0 =>
    \A i \in DOMAIN plan, t \in 1..Len(tiers) :
      disk[tiers[t]][plan[i].name] # Absent <=> plan[i].target = t

\* A run that started comes to rest.
Terminates == pc = "walk" ~> pc \in Resting

\* README.md, Phase A: the inventory records "the size and tier index of each local
\* file"; so what it says is in a tier is there.
InventoryTruthful ==
  pc = "resolve" => \A n \in Names : inventory[n] # Nowhere =>
    inventory[n].tier \in DOMAIN tiers /\ disk[tiers[inventory[n].tier]][n] # Absent

\* The comment of tierFilePath: it "returns the absolute path for a file in a given tier";
\* so a run never stops because there is no such tier.
TierHasPath == pc # "panicked"

\* config.example.yaml and README.md: the download phase stops after
\* download_error_threshold "consecutive" errors; so when it stops with downloads left, the
\* last downloads that were tried are that many and none of them is in the cache.
IsDownload(c) == c.tier = 0 /\ c.target # 0
Tried == SelectSeq(SubSeq(plan, 1, at - 1), IsDownload)
StopsOnConsecutiveErrors ==
  pc = "cleanup" /\ (\E i \in at..Len(plan) : IsDownload(plan[i])) =>
    \A i \in 1..ErrorThreshold :
      inventory[Tried[Len(Tried) + 1 - i].name] = Nowhere
=============================================================================
