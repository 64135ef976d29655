----------------------------- MODULE IndexSync -----------------------------
(***************************************************************************)
(* The index phase of the sync command: Syncer.SyncIndex and syncPackage   *)
(* in syncer/index.go, with the pages of syncer/simple_page.go, the JSON   *)
(* of syncer/json_api.go and the table serials of db/serials.go.           *)
(*                                                                         *)
(* The upstream index changes at any time, the goroutines of SyncIndex     *)
(* interleave, and the process may be cancelled or die at any step.  What  *)
(* a page says is abstracted to the upstream serial it was generated from. *)
(***************************************************************************)
EXTENDS Integers, FiniteSets

CONSTANTS
  Packages,       \* package names as upstream spells them
  Norms,          \* normalized names: the directories under simple/ and json/
  Norm,           \* [Packages -> Norms]: normalizeName
  Keys,           \* what the primary key of serials tells apart
  Key,            \* [Packages -> Keys]: its collation (MySQL's default ignores case)
  Artifacts,      \* number of files syncPackage writes, in order; the last is the JSON
  Concurrency,    \* sync.concurrent_downloads
  Faults,         \* the kinds of fault the environment may inject
  MaxFaults,      \* bound on how many of them
  MaxSerial       \* bound on upstream changes

(***************************************************************************)
(* "list": the XML-RPC answer lacks packages (a fault with status 200, a   *)
(* member that does not parse).  "fetch": no answer to a JSON request.     *)
(* "stale": the JSON is of another serial than the package has upstream    *)
(* (a cache in between).  "write": os.WriteFile stops part way.  "remove": *)
(* os.RemoveAll or os.Remove fails.  "db": a statement fails.  "crash":    *)
(* the process dies.  "cancel": SIGINT or SIGTERM.                         *)
(***************************************************************************)
FaultKinds == {"list", "fetch", "stale", "write", "remove", "db", "crash", "cancel"}

ASSUME IndexAssumption ==
  /\ Packages # {}
  /\ Norm \in [Packages -> Norms] /\ Key \in [Packages -> Keys]
  /\ Artifacts \in Nat \ {0} /\ Concurrency \in Nat \ {0}
  /\ Faults \subseteq FaultKinds /\ MaxFaults \in Nat /\ MaxSerial \in Nat

Files  == 1..Artifacts
Absent == 0      \* no file; no row; not upstream; serials start at 1
Torn   == -1     \* a file os.WriteFile truncated and did not finish

VARIABLES
  upstream,   \* [Packages -> serial of the package upstream, or Absent]
  last,       \* the last serial upstream gave out
  rows,       \* table serials: [Keys -> [name, serial]]
  pages,      \* [Norms -> [Files -> serial the file was generated from, Torn or Absent]]
  root,       \* the packages the root pages list
  pc,         \* where SyncIndex is
  remote,     \* its map of remote serials
  toProcess,  \* packages not yet given a goroutine
  removed,    \* packages not yet removed
  working,    \* [Packages -> the step the process is at with the package]
  fetched,    \* [Packages -> serial of the JSON the goroutine holds]
  ctx,        \* "live", or "done" after a cancellation
  errCount,
  faults

mirror  == <<rows, pages, root>>
remoteVars == <<upstream, last>>
vars == <<upstream, last, rows, pages, root, pc, remote, toProcess, removed, working,
          fetched, ctx, errCount, faults>>

\* Steps of the removal loop, of the loop that starts goroutines, and of a goroutine.
NoJSON   == -3     \* removal: the entries are removed, the serial is not
NoSimple == -2     \* removal: simple/ is removed, json/ is not
Admitted == -1     \* the loop saw a context that is not done, and waits for the semaphore
Off      == 0
Fetch    == 1      \* the goroutine waits for FetchPackageJSON; step 1 + i writes file i
Commit   == 2 + Artifacts
Steps    == NoJSON..Commit

Phases   == {"idle", "process", "remove", "root", "rootwrite", "done"}
NoRow    == [name |-> CHOOSE p \in Packages : TRUE, serial |-> Absent]

NoFault     == UNCHANGED faults
Fault(kind) == kind \in Faults /\ faults < MaxFaults /\ faults' = faults + 1

\* What GetAllSerials returns for a package.
Local(p) == IF rows[Key[p]].name = p THEN rows[Key[p]].serial ELSE Absent

\* The names of packages present upstream are unique up to normalization.
Registrable(p) == \A q \in Packages : q # p /\ Norm[q] = Norm[p] => upstream[q] = Absent

Init ==
  /\ upstream = [p \in Packages |-> Absent] /\ last = 0
  /\ rows = [k \in Keys |-> NoRow] /\ root = {}
  /\ pages = [n \in Norms |-> [i \in Files |-> Absent]]
  /\ pc = "idle" /\ remote = [p \in Packages |-> Absent]
  /\ toProcess = {} /\ removed = {}
  /\ working = [p \in Packages |-> Off] /\ fetched = [p \in Packages |-> Absent]
  /\ ctx = "live" /\ errCount = 0 /\ faults = 0

(***************************************************************************)
(* Upstream: a release, or the removal of a project.                       *)
(***************************************************************************)
Release(p) ==
  /\ last < MaxSerial /\ Registrable(p)
  /\ last' = last + 1 /\ upstream' = [upstream EXCEPT ![p] = last + 1]
  /\ UNCHANGED <<mirror, pc, remote, toProcess, removed, working, fetched, ctx,
                 errCount, faults>>

Delist(p) ==
  /\ last < MaxSerial /\ upstream[p] # Absent
  /\ last' = last + 1 /\ upstream' = [upstream EXCEPT ![p] = Absent]
  /\ UNCHANGED <<mirror, pc, remote, toProcess, removed, working, fetched, ctx,
                 errCount, faults>>

(***************************************************************************)
(* Steps 1 to 3 of SyncIndex.  An error of either call ends the run and    *)
(* changes nothing.  A package is processed if it has no local serial or a *)
(* smaller one, removed if it has one and is not in the remote map.        *)
(***************************************************************************)
OutdatedIfNew(p) == remote'[p] # Absent /\ Local(p) = Absent  \* mutant: a row is enough
Outdated(p) == remote'[p] # Absent /\ Local(p) < remote'[p]
Gone(p)     == remote'[p] = Absent /\ Local(p) # Absent

List ==
  /\ pc \in {"idle", "done"}
  /\ \E heard \in SUBSET {p \in Packages : upstream[p] # Absent} :
       /\ remote' = [p \in Packages |-> IF p \in heard THEN upstream[p] ELSE Absent]
       /\ IF \A p \in Packages : upstream[p] # Absent => p \in heard THEN NoFault
          ELSE Fault("list")
  /\ toProcess' = {p \in Packages : Outdated(p)}
  /\ removed'   = {p \in Packages : Gone(p)}
  /\ pc' = "process" /\ ctx' = "live" /\ errCount' = 0
  /\ UNCHANGED <<remoteVars, mirror, working, fetched>>

(***************************************************************************)
(* Step 4.  The loop stops at a done context; it checks before it waits    *)
(* for room in the semaphore, and only then starts the goroutine.          *)
(***************************************************************************)
Running == {p \in Packages : working[p] >= Fetch}
At(step) == {p \in Packages : working[p] = step}

Admit(p) ==
  /\ pc = "process" /\ p \in toProcess /\ ctx = "live" /\ At(Admitted) = {}
  /\ toProcess' = toProcess \ {p}
  /\ working' = [working EXCEPT ![p] = Admitted]
  /\ UNCHANGED <<remoteVars, mirror, pc, remote, removed, fetched, ctx, errCount, faults>>

Spawn(p) ==
  /\ working[p] = Admitted /\ Cardinality(Running) < Concurrency
  /\ working' = [working EXCEPT ![p] = Fetch]
  /\ UNCHANGED <<remoteVars, mirror, pc, remote, toProcess, removed, fetched, ctx,
                 errCount, faults>>

\* The goroutine of p ends, with an error or without.
Finish(p, errors) ==
  /\ working' = [working EXCEPT ![p] = Off]
  /\ fetched' = [fetched EXCEPT ![p] = Absent]
  /\ errCount' = errCount + errors

\* FetchPackageJSON answers with the package as it is upstream now.  It takes any answer of
\* status 200, also one that was kept somewhere on the way and is of another serial.
FetchJSON(p) ==
  /\ working[p] = Fetch
  /\ \E s \in 1..last : /\ fetched' = [fetched EXCEPT ![p] = s]
                       /\ IF s = upstream[p] THEN NoFault ELSE Fault("stale")
  /\ working' = [working EXCEPT ![p] = Fetch + 1]
  /\ UNCHANGED <<remoteVars, mirror, pc, remote, toProcess, removed, ctx, errCount>>

\* It fails: the package is gone, the context is done, or the request has no good answer.
FetchError(p) ==
  /\ working[p] = Fetch
  /\ IF upstream[p] = Absent \/ ctx = "done" THEN NoFault ELSE Fault("fetch")
  /\ Finish(p, 1)
  /\ UNCHANGED <<remoteVars, mirror, pc, remote, toProcess, removed, ctx>>

(***************************************************************************)
(* GenerateSimplePages and the JSON: each file is truncated, then written  *)
(* (two steps: a crash between them leaves it torn).                       *)
(***************************************************************************)
File(p) == working[p] - Fetch
Writing(p) == File(p) \in Files

Truncate(p) ==
  /\ Writing(p) /\ pages[Norm[p]][File(p)] # Torn
  /\ pages' = [pages EXCEPT ![Norm[p]][File(p)] = Torn]
  /\ UNCHANGED <<remoteVars, rows, root, pc, remote, toProcess, removed, working, fetched,
                 ctx, errCount, faults>>

Write(p) ==
  /\ Writing(p) /\ pages[Norm[p]][File(p)] = Torn
  /\ pages' = [pages EXCEPT ![Norm[p]][File(p)] = fetched[p]]
  /\ working' = [working EXCEPT ![p] = @ + 1]
  /\ UNCHANGED <<remoteVars, rows, root, pc, remote, toProcess, removed, fetched, ctx,
                 errCount, faults>>

WriteError(p) ==
  /\ Writing(p) /\ Fault("write")
  /\ Finish(p, 1)
  /\ UNCHANGED <<remoteVars, mirror, pc, remote, toProcess, removed, ctx>>

\* SetSerial: an upsert by primary key, which keeps the spelling of a row there is.  The
\* serial is the one that was listed, not that of the JSON.
Upsert(p) ==
  [rows EXCEPT ![Key[p]] = [name   |-> IF @.serial = Absent THEN p ELSE @.name,
                            serial |-> remote[p]]]

CommitsEarly(p) == Writing(p) \/ working[p] = Commit  \* mutant: SetSerial before the pages
Commits(p) == working[p] = Commit

SetSerial(p) ==
  /\ Commits(p)
  /\ \/ rows' = Upsert(p) /\ NoFault /\ Finish(p, 0)
     \/ UNCHANGED rows /\ Fault("db") /\ Finish(p, 1)
  /\ UNCHANGED <<remoteVars, pages, root, pc, remote, toProcess, removed, ctx>>

NoWait == TRUE   \* mutant: no wg.Wait
Waited == Running = {}

Wait ==
  /\ pc = "process" /\ (toProcess = {} \/ ctx = "done")
  /\ At(Admitted) = {} /\ Waited
  /\ pc' = "remove"
  /\ UNCHANGED <<remoteVars, mirror, remote, toProcess, removed, working, fetched, ctx,
                 errCount, faults>>

(***************************************************************************)
(* Step 5, for one package at a time: os.RemoveAll and os.Remove, whose    *)
(* errors are dropped, then DeleteSerial, whose error is only logged.      *)
(***************************************************************************)
Erase(p, which) ==
  \/ pages' = [pages EXCEPT ![Norm[p]] = [i \in Files |-> IF i \in which THEN Absent ELSE @[i]]]
     /\ NoFault
  \/ UNCHANGED pages /\ Fault("remove")

RemoveSimple(p) ==
  /\ pc = "remove" /\ p \in removed /\ \A q \in Packages : working[q] = Off
  /\ Erase(p, Files \ {Artifacts})
  /\ working' = [working EXCEPT ![p] = NoSimple]
  /\ UNCHANGED <<remoteVars, rows, root, pc, remote, toProcess, removed, fetched, ctx,
                 errCount>>

SimpleOnly(p) == {}     \* mutant: json/ is left as it is
JSONEntry(p)  == {Artifacts}

RemoveJSON(p) ==
  /\ working[p] = NoSimple
  /\ Erase(p, JSONEntry(p))
  /\ working' = [working EXCEPT ![p] = NoJSON]
  /\ UNCHANGED <<remoteVars, rows, root, pc, remote, toProcess, removed, fetched, ctx,
                 errCount>>

\* The row goes by its primary key, however the name is spelled.
RowKept(p) == rows   \* mutant: the serial stays
RowGone(p) == [rows EXCEPT ![Key[p]] = NoRow]

DeleteSerial(p) ==
  /\ working[p] = NoJSON
  /\ \/ rows' = RowGone(p) /\ NoFault
     \/ UNCHANGED rows /\ Fault("db")
  /\ removed' = removed \ {p} /\ working' = [working EXCEPT ![p] = Off]
  /\ UNCHANGED <<remoteVars, pages, root, pc, remote, toProcess, fetched, ctx, errCount>>

AllRemoved ==
  /\ pc = "remove" /\ removed = {}
  /\ pc' = "root"
  /\ UNCHANGED <<remoteVars, mirror, remote, toProcess, removed, working, fetched, ctx,
                 errCount, faults>>

(***************************************************************************)
(* Steps 6 and 7: the root pages, truncated and then written with every    *)
(* name that was listed, also with those whose goroutine failed.           *)
(***************************************************************************)
TruncateRoot ==
  /\ pc = "root"
  /\ root' = {} /\ pc' = "rootwrite"
  /\ UNCHANGED <<remoteVars, rows, pages, remote, toProcess, removed, working, fetched,
                 ctx, errCount, faults>>

WriteRoot ==
  /\ pc = "rootwrite" /\ pc' = "done"
  /\ \/ root' = {p \in Packages : remote[p] # Absent} /\ NoFault
     \/ UNCHANGED root /\ Fault("write")
  /\ UNCHANGED <<remoteVars, rows, pages, remote, toProcess, removed, working, fetched,
                 ctx, errCount>>

(***************************************************************************)
(* The environment of the process.                                         *)
(***************************************************************************)
Cancel ==
  /\ pc \notin {"idle", "done"} /\ ctx = "live" /\ Fault("cancel")
  /\ ctx' = "done"
  /\ UNCHANGED <<remoteVars, mirror, pc, remote, toProcess, removed, working, fetched, errCount>>

Crash ==
  /\ pc \notin {"idle", "done"} /\ Fault("crash")
  /\ pc' = "idle" /\ toProcess' = {} /\ removed' = {}
  /\ working' = [p \in Packages |-> Off] /\ fetched' = [p \in Packages |-> Absent]
  /\ UNCHANGED <<remoteVars, mirror, remote, ctx, errCount>>

Goroutine(p) ==
  \/ FetchJSON(p) \/ FetchError(p) \/ Truncate(p) \/ Write(p) \/ WriteError(p) \/ SetSerial(p)

Loop(p) == Admit(p) \/ Spawn(p) \/ RemoveSimple(p) \/ RemoveJSON(p) \/ DeleteSerial(p)

\* What the process does when nothing disturbs it, and what the timer starts.
Sync ==
  \/ List \/ Wait \/ AllRemoved \/ TruncateRoot \/ WriteRoot
  \/ \E p \in Packages : Loop(p) \/ Goroutine(p)

World == Cancel \/ Crash \/ \E p \in Packages : Release(p) \/ Delist(p)

Next == Sync \/ World

Spec == Init /\ [][Next]_vars

(***************************************************************************)
(* The timer starts a sync every so often, and a started process runs: its *)
(* requests end, because the unit of the service has a start timeout.      *)
(***************************************************************************)
FairSpec == Spec /\ WF_vars(Sync)

-----------------------------------------------------------------------------
Serials  == Absent..MaxSerial
Contents == Torn..MaxSerial

Phased ==
  \A p \in Packages :
    /\ working[p] > Off \/ working[p] = Admitted => pc = "process"
    /\ working[p] <= NoSimple => pc = "remove" /\ p \in removed

\* The variables keep their types; a step of the process with a package is of its phase.
TypeOK ==
  /\ upstream \in [Packages -> Serials] /\ last \in Serials
  /\ rows \in [Keys -> [name : Packages, serial : Serials]]
  /\ pages \in [Norms -> [Files -> Contents]]
  /\ root \subseteq Packages /\ pc \in Phases
  /\ remote \in [Packages -> Serials]
  /\ toProcess \subseteq Packages /\ removed \subseteq Packages
  /\ working \in [Packages -> Steps] /\ fetched \in [Packages -> Serials]
  /\ ctx \in {"live", "done"} /\ errCount \in Nat /\ faults \in 0..MaxFaults
  /\ Phased

\* The files of p are all there, complete, and none is older than serial s.
WholeSince(p, s) == \A i \in Files : pages[Norm[p]][i] >= s

(***************************************************************************)
(* A package whose row says serial s has all its files, of s or later, or  *)
(* upstream no longer has it at s, so that the next sync does not skip it: *)
(* no crash, failure or cancellation leaves files torn or missing behind a *)
(* serial that keeps SyncIndex from ever repairing them.                   *)
(***************************************************************************)
Repairable ==
  \A p \in Packages :
    Local(p) # Absent => WholeSince(p, Local(p)) \/ upstream[p] # Local(p)

(***************************************************************************)
(* After a sync that counted no error and was not cancelled, every package *)
(* that the root pages list has its files, of the listed serial or later.  *)
(***************************************************************************)
ListedHavePages ==
  pc = "done" /\ errCount = 0 /\ ctx = "live" =>
    \A p \in root : remote[p] # Absent /\ WholeSince(p, remote[p])

(***************************************************************************)
(* No file is left without a row that would lead a later removal to it: as *)
(* long as nothing fails, a package without a row and without a goroutine  *)
(* has no files, whatever upstream does meanwhile.                         *)
(***************************************************************************)
NoOrphans ==
  faults = 0 =>
    \A p \in Packages :
      working[p] = Off /\ Local(p) = Absent => \A i \in Files : pages[Norm[p]][i] = Absent

Mirrored ==
  /\ \A p \in Packages :
       IF upstream[p] = Absent
       THEN Local(p) = Absent
       ELSE Local(p) = upstream[p] /\ \A i \in Files : pages[Norm[p]][i] = upstream[p]
  /\ pc = "rootwrite" \/ root = {p \in Packages : upstream[p] # Absent}

(***************************************************************************)
(* When upstream stops changing and faults stop, the syncs bring serials,  *)
(* pages and the root to what upstream holds, and they stay so.  (Files of *)
(* a package that upstream dropped may stay for ever: if its first sync    *)
(* did not reach SetSerial, or a removal failed, no row tells of them.)    *)
(***************************************************************************)
Converges == <>[] Mirrored

(***************************************************************************)
(* README, "Removed packages": the entries of packages absent from the     *)
(* remote serial list are removed.  So those of a listed package stay.     *)
(***************************************************************************)
RemovesOnlyAbsent ==
  [][\A p \in Packages :
       remote'[p] # Absent /\ pc = "remove" => pages'[Norm[p]] = pages[Norm[p]]]_vars

=============================================================================
