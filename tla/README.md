# A TLA+ model of pypi-syncer

pypi-syncer mirrors the index of PyPI and caches the package files its clients
ask for.  It is one binary with two commands: `serve`, a long-lived HTTP server,
and `sync`, a oneshot process a timer starts every hour.  They never talk to
each other; what they share is a MySQL database and directories of files, and
either may die at any moment.  That is where the hard questions are, and these
modules are about them.

Paths below are relative to the repository's root; tier indexes in the models are
those of the code plus one, and 0 stands for the code's -1.

## Inventory

| component | code | state | operations | hard because | what makes it correct |
|---|---|---|---|---|---|
| cache manager | `syncer/cache.go`, `syncer/downloader.go`, `db/sizedb.go` | tier directories; tables `local_sizes`, `remote_sizes`; inventory, plan and counters of a run | phases A-E: inventory, sizes, scores, assignment and execution, cleanup; download, move, evict | every file operation and the statement that records it are separate; most errors are dropped; the list of tiers changes between runs | no partial package, no lost last copy, the assignment is greedy and within capacity, a run leaves disk and tables in agreement and heals what a crash left |
| index synchronisation | `syncer/index.go`, `simple_page.go`, `json_api.go`, `normalize.go`, `db/serials.go` | `simple/`, `json/`, root pages; table `serials`; lists and goroutines of a run | list, compare, process, remove, write the root | goroutines, signals, non-atomic writes, an upstream that changes meanwhile | an up-to-date serial never hides bad pages; the mirror converges; only absent packages are removed |
| vote recording | `server/handler_packages.go`, `server/server.go`, `db/votes.go` | channel of 1000 votes, one worker per CPU, table `votes` | send, take, `RecordVote`, `QueryPopular`, `DeleteOldVotes`, shutdown | check-then-insert by several workers and two clocks, next to the sync process | a prefix counts once per window, and accepted votes are recorded |
| package serving | `server/handler_packages.go`, `proxy.go`, `ipmatch.go` | none of its own: reads the tiers | look up, serve, proxy, redirect | files move and vanish between `os.Stat` and the open | a cached file is missed only for a move that explains it; whole answers are told from cut ones |
| index serving | `server/handler_simple.go`, `handler_json.go`, `handler_root.go`, `content_negotiate.go`, `normalize.go` | none: reads pages | negotiate, redirect to the normalized name, serve | pages are rewritten in place | a client never takes a torn page for a page |
| client address | `server/clientip.go`, `ipmatch.go` | none | walk of `X-Forwarded-For`, first matching rule | chains of proxies | a client is known by its own address whatever it writes in its line; its rules decide |
| access log | `logging/logger.go`, `reopen.go` | file, buffer, flush timer | write, flush, reopen, close | signals and failed reopens while requests write | the log is what was logged, in order, cut between lines, in the file at its path |
| lifecycle | `cmd/serve.go`, `server/server.go` | listener, context, grace periods | start, shut down | 10 s and 30 s timers race | requests end before the process does, and the process does end |
| sync command | `cmd/sync.go` | context | index phase, then cache phase | the first phase's error skips the second | |
| configuration | `config/*.go` | none | defaults, sizes, durations, effective tiers | overflow, durations that parse to 0 | |
| schema | `db/db.go` | tables | create, add column `tier` | | the primary keys |
| service units | `deploy/*` | | timer, oneshot unit with a 6 h start timeout | | no two syncs overlap |

They interact through data and, inside the server, through the vote channel and the logger.  The server writes `votes`; the cache manager reads it (`QueryPopular`) and
prunes it (`DeleteOldVotes`).  The cache manager writes the tiers that package
serving reads, and the index synchronisation the pages that index serving reads.
`runSync` runs the index phase and then, if it returned no error, the cache phase.

The hazards of the code, each at its line with the properties about it, are
listed in `PROJECT.json`.

## Modules

Each component has a module with its state and actions, `Init`, `Next`, `Spec`, `FairSpec` where
liveness is checked, and its properties; an MC module with the constants TLC uses;
and modules of proofs (`RequestProofs` has those about `ClientAddress` and `PackageName`).  No module uses a RECURSIVE operator.

    PackageStore      what the cache promises its readers
      CacheManager      implements it (CacheStoreProofs)
      PackageServing    reads it; extends ClientAddress
        IndexServing      all requests of the server; extends PackageName
    IndexSync         writes the pages IndexServing answers from
    VoteRecorder      the votes of package requests
    AccessLogger      the log
      ServeProcess      the process that writes it, its start to its end

An operator whose comment says "mutant" is a plausible mistake, used to see that
a property would notice it; it is not part of the specification.

### CacheManager

`Start` is `runSync` reaching the cache phase with the configuration of the day.
Then, in the order of `CacheManager.Run`:

| phase | actions | code |
|---|---|---|
| A | `WalkTier`, once for each tier | `inventoryLocal` |
| B, C | `Resolve`: vote counts, HEAD answers and candidates | `Run` 63-127, `resolveRemoteSize`, `HeadFile`, `scoreFile` |
| D, assignment | `Assign` for each candidate, `AssignDone` | `Run` 129-157 |
| D, execution | `Skip`; `Evict`, `Forget`; `FetchWrite`, `FetchCommit`, `FetchFail`, `Record`; `MoveRename`, `CopyWrite`, `CopyRest`, `CopyCommit`, `CopyFail`, `MoveFail`, `Unlink`, `Retier`; `Panic`; `ExecuteDone` | `Run` 162-214, `Download`, `moveFile`, `copyFile` |
| E | `Cleanup` | `Run` 216-230, `CleanRemoteSizes`, `CleanLocalSizes` |

In phase D a step is one file operation or one statement, so `Crash` falls between any
two.  `disk` maps directories (not tier indexes) to what they hold: package paths,
the `.tmp` paths of downloads and the `.tmp-*` names of copies, each with its
number of bytes.  Directories and indexes are kept apart because rows hold
indexes and the operator edits the list.  A walk takes any subset of a tier's files
when it fails, and any order of equal scores is allowed.  Vote counts are chosen
anew at each `Resolve`.  Scores are compared exactly; the code divides in float64, where two
different scores may round to the same quotient, and then its order is one that
the model does not have.  A phase's failures are those of `FaultKinds`; downloads
may fail at any attempt without limit, and where a failed download or copy unlinks its temp file, the
file may stay.  The fault `short` is a file that ends early though no call says so: a download
whose end is that of the connection (`downloader.go` 73), a copy whose error `Close` would have
reported (`cache.go` 347).  `Crash` is the end of the process: what it has written
stays written.

Abstracted: phases A and B and the cleanup are one step per tier or phase, not
one per file, so a crash in their middle is one at either end or, in the walk,
is the same as a failed walk followed by a crash.

### IndexSync

`Release` and `Delist` change upstream at any time.  `List` is steps 1 to 3 of
`SyncIndex`; `Admit` and `Spawn` are the loop (the check of the context, then the wait for the
semaphore); `FetchJSON`, `FetchError`, `Truncate`, `Write`, `WriteError`,
`SetSerial` are a goroutine in `syncPackage`; `Wait` is `wg.Wait`; `RemoveSimple`,
`RemoveJSON`, `DeleteSerial` are the removal loop; `TruncateRoot` and `WriteRoot`
the root pages; `Cancel` a signal, `Crash` a kill.  The JSON is that of the serial
upstream has, or with the fault `stale` an older one.  A page is the serial it was generated from, or
`Torn` between the truncation and the write of `os.WriteFile`.  The number of
files per package is a constant: the code writes four.  A page's name and a row's key
are constant functions of the package's spelling (`normalizeName`, the collation of the
primary key), so that spellings may collide.  The three root pages are one.

### VoteRecorder

`Serve` is the send of `ServePackages`; `Take`, `Stamp`, `Cutoff`, `Select`,
`Insert` are a worker in `Run` and `RecordVote`, one step for each clock reading and each
statement; `QueryPopular` and `DeleteOldVotes` are the sync process, at any time;
`Stop` and `Restart` the server process; `Tick` the clock, in seconds as in the table.
A crawler's requests (`isBot`) are left out: they record no vote and touch nothing else.
`MaxSkew` bounds how long a worker may be held up between its two clock readings.
The clock does not go back.

### PackageStore

The abstract specification of the cache: for each file the set of directories with a
copy of it, and the files the sync process has decided to evict.  Its steps are those a
reader can see: a whole copy appears, moves in one step, is dropped while there is
another, or is evicted.  `CacheManager` implements it with the refinement mapping
`where <- Holders` (the directories whose package path is not empty) and `doomed <-
Doomed` (the files of the plan without a tier); downloads, temp files, statements and
crashes are stuttering steps or change `doomed` alone.

### ClientAddress, PackageServing, PackageName, IndexServing

`ExtractClientIP` and `Mode` are operators of the code's shape; `PeerOf` and `LineOf` say what a
chain of trusted proxies makes of a request, whose client may have sent a line of its own.

`PackageServing` has one action for each look at the file system or exchange with
upstream in `ServePackages` and `ReverseProxy`:

| actions | code |
|---|---|
| `Arrive`, `Refuse`, `Search` | `ServePackages` 38-54 |
| `Found`, `NotHere`, `Open` | the loop over the tiers with `os.Stat`, then `http.ServeFile`, 74-80 |
| `Redirect`, `Proxy` | 82-101 |
| `NoUpstream`; `Header` of a package or an error page; `BodyEnds`, `BodyBreaks`, `ClientGone` | `ReverseProxy`, and the `http.Error` after it |
| `StoreStep` | the sync process: any step of `PackageStore` |

`answer` is what the client got: the status of the first `WriteHeader`, the status
`responseCapture` holds (the last), how many bytes of the package or of upstream's error page
came, how many of an error text after them, and whether the connection carried all that was sent.
`framing` is how upstream says where a body ends: by its length, by chunks, or by the end of the connection.
`Answered` is what the client makes of it: it compares what came with what it was promised, if it was
promised anything.  `seen` is a history variable: what happened to the file while it was searched for.

`IndexServing` adds the requests for the index to the same handlers: `Ask`, `RefuseRoot`,
`SendOn` (the 301 to the normalized name, which the client follows), `ServePage`.  `Publish` and `Withdraw` are
what `IndexSync` does to the files of a project.  `trail` is what a client has asked by, its own spelling first and the names of redirects after it.
`NormalizeName` is a fold over the characters of a name (`Joined` puts one in its place); alphabet and lower case are
constants; the run has seven characters, of which one, `?`, is not `Safe` in a URL.
The name goes into the Location of a redirect as it is: `Followed` says what name arrives then, which for URL-safe characters is the same name.  `NormalForm` says place by place what PEP 503 asks for,
and is what results are compared to.

### AccessLogger, ServeProcess

A line is two pieces, text and newline, since a full `bufio.Writer` is written out in the
middle of a line.  Each method of the logger holds its mutex, so each is a step: `WriteLine`,
`AutoFlush`, `Reopen`, `Close`.  `TakeSignal`, `Reopen`, `HandlerReturns` are the goroutine of
`SetupLogReopen`, whose channel holds one signal; `TickerEnds` is the end of `autoFlush`.
`Rotate`, `SendSignal` and `Reload` are logrotate and systemctl.  Files are numbered; `here` is the one at `log.path`.
A write that fails may have written a part, and `err` is the error that `bufio` keeps.

`ServeProcess` is `runServe` and `Server.Run`: `Accept`, `Answer`, `Log` are a request
(in between it is a handler of `IndexServing`); `Terminate` is the signal, `Drained` and `Expire`
the two ends of `Shutdown`, `ListenerFails` the other way out of `Run`, `CloseLog` and
`Exit` the deferred calls, `KillSelf` the `os.Exit` after 30 s.

## What is model-checked

All runs disable the deadlock check: the cache manager stops after `MaxRuns`
runs, the server process when it has exited, and the others when their bounds on changes of upstream,
requests or time are used up.

| run | instance | shows |
|---|---|---|
| `CacheClean` | 3 files of 1, 2, 3 bytes, tiers of 2 and 3, `filesize_limit` 2, 2 runs, 1 crash | `NoInversion` the assignment is greedy; `FetchedWithinLimit`; `Reconciled` a fault-free run leaves disk, inventory and table equal; `CrashHeals` so does a run after crashes, for packages; `CapacityKept` at its end each tier is within its limit; `PlanRealised` the disk is as planned |
| `CacheFaulty` | 2 files, 2 tiers that may be swapped or reduced to one, 2 attempts, 2 runs, one fault of any kind | `WholePackages` no partial file under a package path, unless a file ended early unnoticed; `OnlyEvictionLoses` a last copy goes only by a decided eviction; `ImplementsStore` every step is one of `PackageStore`; `Terminates` |
| `IndexFaulty` | 2 packages of 2 files, 2 goroutines, 3 upstream changes, 2 faults of any kind but `list` and `stale` | `Repairable` an up-to-date serial never hides a torn or missing page; `ListedHavePages` after a clean sync what is listed is there; `NoOrphans` as long as nothing fails, files have a row by which a removal finds them; `Converges` |
| `Votes` | 1 file, 3 clients (2 of one network, 1 without address), 2 workers, channel of 2, 4 requests, 6 instants, 1 fault | `BoundedOvercount` the workers' races add at most one row each per window; `EveryVoteCounts` |
| `Serving` | 1 handler, 1 file, 3 tiers, a store that changes freely, clients inside and outside a network with rules of its own behind up to two proxies, that send a line of their own or none; a package of 3 bytes, an error page and an error text of 2; 3 spellings of a project, one name with a `?`, and no name | `MissExplained` why a cached file can be missed; `RulesForClient` the sender's rules decide; `KnownIsWhole` who takes an answer for a package has just the package's bytes, with three exceptions; `LoggedAsSent`; `OneRedirect` redirects end at the project asked for, for names of URL-safe characters; `AllAnswered` |
| `Process` | 2 requests, a buffer of 3 pieces, 3 log files, one failing write or open | `Prefix` the files hold a beginning of what was logged; `WholeLines` rotation does not split a line; `RotationFollowed` no order of signals leaves the log in a moved file; `CleanExit` a drained process has answered and logged every request; `LinesReachDisk` without the buffer being full; `Stops` |

Each run also checks the type invariant of its module, but for `CacheFaulty`, whose module is that of `CacheClean`.
The run for the error threshold has four packages of one byte and a threshold of two: the least where
the phase ends after a failure, a success and a failure with a download left.

The bounds.  Three files in two tiers are the least where a file that fits neither tier, one that
is moved and one that is downloaded meet; two runs the least where a run starts
from what another left, and one crash is placed at every step of either.  One fault at a
time is what `CacheFaulty` allows, with crashes among them, since downloads may
fail in addition as often as they like.  Two packages and two goroutines give every
interleaving of two goroutines with each other and with the removals (a package removed while
another is processed); three changes of upstream are a release, a
removal and a return.  Two files per package separate `simple/` from `json/`: the
three pages in `simple/` are written and removed as one.  Two workers are enough for every pair of them to race, and
four votes against a channel of two fill it.  `BoundedOvercount` is
checked for two workers and proved for any number.

In `Serving` one handler is enough: handlers share the vote channel (VoteRecorder), the log
(ServeProcess) and an HTTP client, and none of their variables here, so what one does is what each
does; the theorems are for any number.  Three tiers are the least where a file can go
from a tier not yet looked at past the one being looked at.  A text of two bytes in a package of three is refused by
the promised length, fits it just, or falls short of it, by how much came before it; a page of two is the one that it never fits but alone.  Two proxies are the least where the
address before the server's peer is a proxy too.  In `Process` four pieces against a buffer of three make it
overflow in the middle of a line; three files are two rotations, one of which may meet the signal of the other; the one fault
falls on any write or open.

Fairness.  `CacheManager`: WF of the process's steps, not of `Start` or `Crash`; its calls
return because every request has a header timeout and, for a body that stalls,
the unit has a start timeout (then the step is a `Crash`).  `IndexSync`: WF of
`Sync`, which includes `List`, because the timer starts a sync every hour; it is
not fair to upstream, faults or cancellation, and `Converges` relies on faults and changes
of upstream being finitely many, which the bounds give.  It is WF of the process as a whole, not of each goroutine;
each goroutine has finitely many steps, so all of them end.  `VoteRecorder`: WF of each worker, which the Go
scheduler gives; none of `Tick`, `Restart`, `QueryPopular`.  `IndexServing`: WF of each handler: it waits
for nothing but the file system and, with a timeout, upstream (a client that
does not read is ended by `timeouts.write`); none of the store, of clients or of `IndexSync`.  `ServeProcess`:
WF of the flush timer and of the main goroutine once it stops (`Shutdown` has a timer, the
deferred calls do not wait for handlers); no handler need ever return, no signal need come.

### Where the code and its documents differ

Six runs check what a document or comment says, and TLC finds a behaviour of the
code that contradicts it:

| run | statement | behaviour |
|---|---|---|
| `CacheStaleTier` | README: the inventory records the tier of each local file | after a crash between a move and its record the row keeps the old tier until an eviction deletes it; so it does after a crash between an eviction and its record followed, in a later run, by one between a download to another tier and its record |
| `CacheTierRemoved` | `tierFilePath` gives the path "in a given tier" | a row names a tier that was taken out of the configuration: index out of range |
| `CacheErrorThreshold` | README: stop after "consecutive" download errors | the counter is never reset: failure, success, failure end the phase, and the download that is left is not tried |
| `IndexRename` | README: entries of packages absent from the remote list are removed | the entries of a listed package are, when it comes back under another spelling |
| `VoteDedup` | README: one prefix counts once per window, one background goroutine | there is a goroutine per CPU, and they race |
| `VoteUnique` | `config.example.yaml`: "unique" prefixes | rows are counted, of which a prefix has one per window |

The passing runs are stated around these: `CrashHeals` leaves out the crashes
"torn" (`Torn` in `CacheManager`) that leave a file with a row of another tier; `IndexFaulty` has distinct names; `BoundedOvercount`
is what remains of the window with several workers.

Further differences were met while modelling.  They have no run of their own; the properties are stated
so that they show where they bite.

- A file that the sync process moves between `os.Stat` and `http.ServeFile`
  (`handler_packages.go` 76, 77) is answered with a 404 though it is in another tier, and
  upstream is not asked; README.md:221-222 has the server serve the file if it exists locally and
  else proxy or redirect.  `MissExplained` names it `"left"`.
- A proxied body that breaks off, of a package or of an error page of upstream, gets the text `upstream error`
  appended if it has no length or the text still fits (`handler_packages.go` 93); the client keeps the first status, the
  log has 502; README.md:217 says the middleware captures the status.
  `LoggedAsSent` and `KnownIsWhole` except it.
- The name of a project goes into the Location of a redirect decoded and unescaped (`handler_simple.go` 52, and likewise
  in `handler_json.go`): one with `?`, `#` or `%` arrives as another name.  No project has such a name; `OneRedirect` is about those without.
- A download without a length whose connection ends early is committed as if it were whole (`downloader.go` 73), and so
  is a copy whose `Close` fails (`cache.go` 347).  `WholePackages` excepts both, as the fault `short`.
- Any JSON with status 200 is taken for that of the listed serial (`json_api.go` 24-46): pages made from a stale one keep an up-to-date serial.
- After one failed flush or open the log stays dead: `bufio` keeps its error, and `Reopen` returns before it
  reopens (`logger.go` 145), so the SIGUSR1 of README.md:321 does not bring it back.
- The grace period is the 10 s of `Shutdown` (`server.go` 122), not the 30 s of README.md:62: the process ends when `Run` returns.
- `Proxied` of a log entry is never set, so `proxied` is always `"0"`.
- Without `log.path` nothing handles SIGUSR1, which then ends the process; the
  unit's `ExecReload` sends it.
- `index.v1.json` in README.md:202 is `index.v1_json` in the code (as in the model), and `/simple/` is
  refused with a 403 where README.md has the root index.
- The JSON of projects named `simple`, `packages` or `web` has no route: the fixed
  prefixes go first.

Further restrictions of the passing runs are worth knowing.  `CacheClean` has no HEAD answer
without a length (the code reads 0 then: `FetchedWithinLimit` fails, and the file takes
no room in the assignment, though the README says larger files "are never downloaded").
`IndexFaulty` has no incomplete list (with a crash between the removal of a
package's files and of its serial, `Repairable` fails if upstream still has the
package), and no stale JSON (by which it fails at once).  `Converges` says nothing of pages of packages that upstream no longer has: pages without
a row stay for ever.  By `NoOrphans` it takes a crash or a failure to make such pages.

## What is proved

TLAPS checks the following for every value of the constants that satisfies the
modules' assumptions.  These say that the names of files, of temp files and of downloads are apart and finitely
many, that sizes, limits and bounds are numbers, that the workers are finitely many, that lowercasing a character
twice is lowercasing it once and never makes a separator, that spellings are made of characters, and that the normalized name of
a spelling in URL-safe characters arrives by a redirect as it is.  All invariants
and action properties of the passing runs are theorems.

- `CacheManagerProofs`.  `Invariance`: `IInv` is inductive.  It is `TypeOK` and `Placed`, which says
  what each value of `pc` implies: the current assignment exists, is a
  download or a move or an eviction as its phase requires, names an existing
  tier, and during a download or a copy the temp file, during a copy the source exist.  Without it `Current`,
  `Source` and `Dest` would be meaningless in the middle of an assignment.  From it:
  `TypeCorrect`; `Wholeness` (`WholePackages`), unless a file ended early unnoticed, since the only writes to a package path are renames of
  a temp file whose bytes are complete then; `Greedy` (`NoInversion`), from
  `GreedyInv`: what is pending scores no better than what is assigned, and the room
  left in a tier only shrinks, so where the better file did not fit, a worse one of that size
  did not either; `NothingLost` (`OnlyEvictionLoses`), from `Copied`: when a copied
  source is about to be removed, the destination holds the file.
- `CacheRunProofs`.  What a run has done when it ends.  The invariants are about runs whose
  faults so far (`hit`) are of certain kinds; since `hit` only grows, that is so before a step if it is so after it.
  `LimitKept` (`FetchedWithinLimit`), from `Priced`: as long as every HEAD answer had a length, the sizes in the table, the
  candidates and the plan are upstream's.  The other four ask besides that the operator leaves the list of tiers alone
  (`StableLayout`): runs `CacheTierRemoved` and `CacheFaulty`, whose lists do change, show what becomes of rows then, and nothing of
  the four can be said.  `PlanInv` says that a path is planned once, that what is still to execute agrees with the inventory, and that every file of
  the inventory is planned for.  `CrashesHealed` (`CrashHeals`), from `SiteInv`: outside a run a package is in one tier at most and no row
  names another; during the walk this is so of the tiers to come, and the inventory has what is in those passed; in phase D
  each package is where the inventory says, but for the one that a step is half through with.
  `AllReconciled` (`Reconciled`) adds that nothing but packages is on the disk (`NoRubbish`) or planned (`AllGenuine`);
  `PlanKept` (`PlanRealised`) that what the execution pass has passed is where it was assigned or failed to download
  (`Settled`); `CapacitiesKept` (`CapacityKept`) that what remains of a tier and what the plan gave it make up its limit (`Room`).  `Usage` is a sum over a
  finite set, a fold: its lemmas (what adding an element does, monotonicity) are proved by descent, from a least set
  or number for which they fail, so no induction theorem over an operator is needed.
- `IndexSyncProofs`.  `TypeCorrect` includes `Phased`: goroutines exist only before `wg.Wait` returns.
  `AlwaysRepairable` (`Repairable`) is proved with distinct names and keys and a `TrueUpstream` (without the faults `list` and `stale`),
  for any number of packages, files per package and goroutines, from `PackageInv`: a sync touches a
  package's files only while its serial is behind upstream's or upstream has lost it, and a
  goroutine has written all earlier files from a JSON at least as new as the listed serial.
  On top of it, and under the same assumption about upstream, `RunInv` gives `ListedAreWhole` (`ListedHavePages`), from `Kept`: until a listed package's
  goroutine has ended or failed it is still to process or being worked on, and a serial is never
  beyond upstream's, so a package that is skipped is whole; and `NothingOrphaned` (`NoOrphans`), from
  `Covered`: files without a row belong to a goroutine that has still to store one, and a row outlives the
  files it stands for.
- `VoteRecorderProofs`.  `TypeCorrect`, with the channel's capacity.  `SingleWorkerDedups`:
  with one worker, `Dedup` holds for any clients, windows and channel.  Run
  `VoteDedup` refutes it for two workers: the design the README describes had the property,
  and the workers took it away.  `OvercountIsBounded` (`BoundedOvercount`), for any finite number of workers, is what they left: by
  `Owned` the rows can be shared out so that each worker owns those it inserted, and two rows of one owner, file and
  prefix are a window apart, since a worker counts its own earlier rows before it inserts; so an interval as long as a window holds at most one of
  each.  `Punctual` is what the two clock readings of a worker have to do with each other.
- `CacheStoreProofs`.  `StoreImplemented` (`ImplementsStore`): the initial states map to initial states,
  and each action, under `IInv` and `Copied` of `CacheManagerProofs`, to a step of `PackageStore` or a
  stutter.  `Copied` is what makes the removal of a copied source a `Drop`.
- `RequestProofs`.  `ClientKnown`: behind any chain of trusted proxies `ExtractClientIP` is the client's own address,
  whatever the line it sent and `X-Real-IP`: the rightmost stranger of the line the
  first proxy built is the client, since all to its right are proxies.  `NamesAreNormalized`: for every name and
  alphabet the fold of `NormalizeName` yields the `NormalForm`; after k characters the places of the result are the ranks of the
  characters kept (`Placed`), which is carried from k to k + 1 by the least k for which it fails.  `NormalizeTwice`: the
  result is its own normal form, so a redirect that arrives as it was sent leads to a name that is served.
- `IndexServingProofs`.  `Inv` says for each handler what its place means for its `answer`, its `tier` and `seen`:
  the crucial part is that while a handler looks at tier n, either the file was absent or a copy turned up in a
  tier already passed, or no tier before n has it.  From it `MissesAreExplained`, `StatusIsLogged`,
  `WholeIsKnown` (which compares the bytes that came with the length of the package, for any lengths, points of breaking and framings), and with `ClientKnown`, for requests that come as proxies send them, `RulesAreForClient`; for any
  number of handlers, tiers and files.  `IndexInv` adds the index: a client has asked by a spelling, and after it at most by that spelling
  normalized (`Led`), by `NormalizeTwice`, if its characters are URL-safe.  From it `ServingTypes` (`TypeOK`) and, by `NamesAreNormalized`,
  `RedirectOnce` (`OneRedirect`).
- `ServeProcessProofs`.  `Invariance`: `Inv` joins the types, a ledger (what is on disk and in the buffer
  is, until a write fails, exactly what was handed to the logger, and a beginning of it afterwards; both
  consist of whole lines wherever the buffer is empty), the place of the log file and the course of the shutdown.
  From it `ProcessTypeCorrect`, `LogIsPrefix`, `RotationIsWhole`, `RotationIsFollowed`, `ExitIsClean`, for any requests, buffer,
  files and failures.

`IInv` of `CacheManager` and of `IndexSync`, the invariants of `CacheRunProofs`, and `Owned` and `Punctual` were checked as invariants by
TLC too (`Room`, with its sums, was not: TLC cannot evaluate the function that `Total` chooses).
The second way to a row of another tier, given with `CacheStaleTier` above, came to light in the proof of `CrashHeals`:
it takes two crashes, one more than `CacheClean` has.

Only model-checked: `Terminates`, `Converges`, `EveryVoteCounts`, `AllAnswered`, `LinesReachDisk`, `Stops`,
since liveness under fairness is out of the prover's reach.

## What is not modelled

- The content of pages and JSON, the text of the log, HTTP headers that are passed on, ranges
  and conditional requests, file times: no property here depends on them.
- A page that is read while it is rewritten in place, which the code does not prevent.
- The status page (`handler_root.go`) and the redirect of `/web/`: one step each, no state.
- Parsing of the configuration, sizes and durations (a duration that does not parse is 0, so a
  mistyped timeout is none): functions of text, applied once.
- The two phases of `sync` in sequence: an error of the index phase ends the run before the cache phase.
- The expiry of `remote_sizes`: sizes do not change upstream in the model.
- Two sync processes at once: the oneshot unit excludes them, a sync by hand beside the timer does not.
- A clock that goes back.
- A power loss: nothing is synced to disk, so a file that was renamed may be empty after it; `Crash` is the end of the process.
- Statuses of upstream other than 200 and 404 (206, 304, 5xx pages are passed on in the same way).

## Plan

Done: `CacheManager`, `IndexSync` and `VoteRecorder` with their proofs; `PackageStore` and the refinement; package and
index serving; the access log and the life of the server process with their proofs; theorems for every
invariant and action property of the passing runs.  Left, in order:

1. An abstract specification of one package of the index, which `IndexSync` implements and whose pages a
   reader sees torn or whole, with the proof of the refinement.
2. Sizes and durations of the configuration against reference definitions.
3. The expiry of `remote_sizes`, and both phases of `sync` in sequence.
