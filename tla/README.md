# A TLA+ verification of s3xplorer

s3xplorer is a web application that shows the contents of S3 buckets out of an
index in PostgreSQL. Scans keep the index up to date, uploads and deletions of
its users change S3 first and the index afterwards, and other clients change S3
behind its back. This directory holds TLA+ models of the parts of the program
that keep state, configurations with which TLC checks them, and proofs that
TLAPS checks. Paths below are relative to the repository.

`PROJECT.json` maps every definition to the lines of code it models, lists the
runs with the properties each checks, the changes of the models under which each
property fails (the operators called `X_Something` next to `X`), the hazards of
the code, and the disagreements between code and documentation that were found.

## The system

| Component | State | Operations | Correct when |
|---|---|---|---|
| Object index, table `s3_objects` (`db/queries/s3_objects.sql`) | a row per key: version (size, etag, date), `is_folder`, `marked_for_deletion` | upsert, mark all, unmark, count and delete marked, delete one | the rows agree with the bucket |
| Bucket scanner (`pkg/scanner`, `ScanBucket`) | per scan: phase, listing token, page in hand, scan error; a row in `scan_jobs` | create the job, mark every row, list pages, write folder rows and object rows, unmark, sweep, close the job | a sweep removes what is gone and nothing else; marks do not stay; the job tells how the scan ended |
| Upload and delete handlers (`pkg/app/upload-handler.go`, `delete-handler.go`, `pkg/dbsvc/sync.go`, `pkg/s3svc`) | a request's progress | one S3 call, then one query per key | the row follows the object |
| Bucket list, table `buckets`, and its synchronization (`DiscoverAndScanAllBuckets`) | per bucket: mark, access error, last access, creation | discover, mark all, validate with retries, record the result, delete the expired, scan | accessible buckets are shown and not deleted, vanished ones, and those denied for long, expire |
| Scheduler (`pkg/scheduler`) | a cron entry | start a scan per firing | a scan of the configured bucket |
| Directory pages (`IndexBucket`, `pkg/dbsvc/keyset_pagination.go`, `pkg/dto`, `pkg/app/pagination.go`) | one request's page number, counts, cursor | two counts, cursor, page, redirect when out of range | page *n* is the *n*-th slice of the directory; a request ends |
| Bucket selection (`handleBucketSwitch`, `SwitchBucket`) | the selected bucket and prefix, kept in the App and again in `s3svc` | switch; read by pages, uploads and deletions | both copies agree; changes hit the bucket the user sees |
| Folder paths (`ensureParentFolders`, `extractPrefix`, `BuildBreadcrumbs`) | prefixes and folder rows in `s3_objects` | put together from the parts of a key | a user can click through to an object, over pages and links, as far as both allow |
| Database health monitor (`pkg/health`) | status | check at the start and periodically, stop | the status follows the database; whoever reads it gets an answer |
| Process start and shutdown (`s3xplorer.go`, `pkg/dbinit`, `pkg/app/app.go`) | connection, services, server, goroutines | attempts with backoff, degraded mode, serving, shutdown | the start and the end come to an end; requests are drained; cron rests when stopped |
| Live listing, search, restore, views, configuration | none of its own | read, format | – |

How they interact. `main` starts the web server, and a goroutine that performs
the initial scan and then starts the scheduler. Cron runs each firing in a new
goroutine, the HTTP server each request in one of its own. They share the two
tables, S3, and (the requests) the selected bucket. No query is part of a
transaction that spans others, there is no lock on a bucket or a key, and the
only mutex is the health monitor's. So a step of the models is *one* query or
*one* S3 call, and everything else interleaves.

What is hard: scans that overlap, with each other and with requests; the page in
hand that is older than the table; marks that outlive a failed or killed scan;
errors that are logged and passed over in the middle of a mark-and-sweep; two
copies of the selection written without a lock; directory pages read with four
queries; a signal that may come before the server exists; a status read behind a
lock that is held while the database hangs; integer conversions on page numbers that come from a URL.

## Modules

| Module | Models | State |
|---|---|---|
| `IndexTable` | the rows one bucket has in `s3_objects`, and the queries as operators | – |
| `ObjectScan` | `ScanBucket`, uploads, deletions, other S3 clients, the process dying | `s3`, `index`, `jobs`, `scan`, `req`; auxiliary `hist` |
| `ObjectScanProofs` | theorems about `ObjectScan`: types, marks, the sweep, the job, the rows after a scan | – |
| `IndexMirror` | abstract specification: what the index promises its readers | `bucket`, `rows`, `atRest`, `held`, `flawed` |
| `ObjectScanMirror` | `ObjectScan` with a history variable, and the refinement mapping to `IndexMirror` | those of `ObjectScan`; auxiliary `held` |
| `ObjectScanMirrorProofs` | the proof of the refinement | – |
| `FolderPaths` | prefixes, folder keys and breadcrumbs as operators on paths | – |
| `FolderTree` | `ObjectScan` with real keys: the rows as directories one clicks through, page by page | those of `ObjectScan` |
| `FolderTreeProofs` | theorems about `FolderPaths` and `FolderTree` | – |
| `BucketTable` | the table `buckets` and its queries | – |
| `BucketSync` | the initial scan of every start of the process, and cron's scans, as far as the table `buckets` is concerned | `s3`, `table`, `now`, `proc`, `call`; auxiliary `hist` |
| `BucketSyncProofs` | theorems about `BucketSync` | – |
| `BucketOutages` | `BucketSync` with a clock of how long each bucket has been inaccessible | those of `BucketSync`; auxiliary `since` |
| `DirectoryQueries` | the queries and the count of the pages of one directory, as operators | – |
| `DirectoryQueriesProofs` | theorems about ranks, cuts and pages | – |
| `DirectoryPages` | a page request with its queries and the pagination arithmetic | `dir`, `req` |
| `DirectoryPagesProofs` | theorems about `DirectoryPages` | – |
| `BucketSelection` | the selected bucket, its readers and writers | `app`, `svc`, `s3`, `index`, `accessible`, `req`, `seen` |
| `BucketSelectionProofs` | theorems about `BucketSelection` | – |
| `HealthMonitor` | the monitor of the database and the health pages | `db`, `inUse`, `mon` |
| `AppLifecycle` | the process from its start to its end, composed with `HealthMonitor` | and `main`, `srv`, `bg`, `cron`, `req`; auxiliary `hist` |
| `AppLifecycleProofs` | theorems about `AppLifecycle` | – |
| `MCObjectScan`, `MCObjectScanMirror`, `MCFolderTree`, `MCBucketSync`, `MCBucketSelection` | values for the constants | – |

### ObjectScan

`scan[s].pc` is the place of scan `s` in `ScanBucket`, and the other fields are
its variables: `failed` is `scanErr != nil`, `token` and `more` belong to the
paginator, `page` is what is left of the page in hand, `todo` the folders that
`ensureParentFolders` has still to write. Each pair `X`, `XFails` is one call and
its error path. Keys are numbers in listing order; an object's contents are a
version; a key that ends in `/` is in `Folders`, so a marker object is a key in
both `Objects` and `Folders`.

Three things deserve a note, because the code does them and one would not guess
them. The cleanup runs when the listing failed as well. `processObject` writes
`is_folder = FALSE` whatever the key, so a marker object turns its folder's row
into a file until an object below it is processed; as that row has its own key as
prefix, and pages leave out a row whose key is their prefix, an empty folder made
with a marker object is not shown anywhere. A failing
`MarkAllObjectsForDeletion` returns before the `defer` that closes the job.

`Kill` stands for the end of the process at any point. On a signal the context
is cancelled instead, and each call still to come returns an error: those are
runs of `XFails` steps. A scan that has been killed never goes on; another
member of `Scans` is the scan of the next process.

`hist` is auxiliary: it records whether a scan had the bucket to itself
(`alone`), what failed (`struck`; not a lost unmarking, on which nothing depends), which objects S3 has held without interruption
since the marking (`stable`) and which keys nobody touched (`calm`). It says when
a property promises something, and no guard reads it.

Left out: counters of the job, whether an object was new or updated
(`GetS3Object` before the write), the wording of errors, upload size limits and
content types. The row for a bucket is `BucketSync`'s business.

### IndexMirror and ObjectScanMirror

`IndexMirror` says what a reader may rely on without knowing of scans, marks and
requests: `rows` may lag behind `bucket`, but a row is only ever written with a
version its object has had since the index was last at rest (`held`), a folder's
row only above such an object, and rows go only when their object - for a folder,
each object below it - was absent in that time, or when a scan is unreliable
(`flawed`). The row of a marker object is its folder's row as well and may go with
the object, whatever is below (`RemoveRow`). When nobody is at work, `held` shrinks to what is there now: work that
begins later never brings back anything older.

`ObjectScanMirror` maps `ObjectScan` to it. `bucket` is `s3` under the prefix, `rows` the
versions in `index` with marks and `is_folder` hidden, `atRest` that no scan is
between its first and last step and no request under way, `flawed` that a scan
at work is not alone, lost its listing or failed to write a row. The marks, the
counting, the job and the unmarking are stuttering steps of the abstract
specification; `held` is the one history variable. The property `IndexIsMirror`
is the abstract specification under this mapping. Its run breaks every call of a scan and
of a request, and kills the process.

### FolderPaths and FolderTree

A key is the sequence of its parts, `strings.Split(key, "/")`, which loses
nothing. The loops of `ensureParentFolders` and `BuildBreadcrumbs` skip empty parts:
`Squeeze` is the path without them, given by the places of the others, and
TLC compares it with skipping them one by one (`SqueezeAssumption` of `MCFolderTree`).
`FolderTree` gives the numbers of `ObjectScan` such names, computes the
prefix each row has, and follows the links from the root. `DirectoryOf` is a folder's
directory as the queries of `DirectoryQueries` take it, and `Shows` what stands on its pages, cursor
and LIMIT included, which the arrows lead to one after the other. `Clicks` is a sequence of
rows each of which is on a page of the one before, and a row is `Found` at the end of
one. A link carries the key unescaped, so that of a folder with `&`, `#`, `+`, `%` or `;` in its
name the handler reads some other path: `ReadAs`, an arbitrary function except on paths of
`Plain` parts. Arrows do escape it.

So a user does not get to every object, and `ObjectsAreFound` says to which: those in folders of
plain names whose own folder holds files only, or fits one page. In the folders on the way there
may be any number of pages, as the folders come first and the cursor loses none of them; what is
lost behind a page boundary are files in a folder that has subfolders too
(`FilesAreShown`, and the run `mixed_directory`).

Its constants are constrained by `NameAssumption` (different keys have different
names, none has an empty part, and `Ancestors` are what `ParentFolders` computes) and
`OrderAssumption` (a marker object comes before what is below it, since its key is a
prefix of theirs and S3 lists keys by their bytes), by `FiniteAssumption` (a key of S3 has at most
1024 bytes), `PrefixAssumption` (no prefix is configured: with one, the first page shown is not
the root's) and `LinkAssumption` (plain names survive the link). The database is taken to sort keys
as S3 lists them; no proof depends on how. Pages are as the database has them at
the end of the scan, small enough for the offsets to be `int32`. Keys with an empty part (`a//b`, `/b`)
are in no folder that a page links to: their prefix keeps the empty part, the
folder rows leave it out. `FoldersAreChains` states both directions: TLC checks it for all names
of up to four parts, and it is proved for names of any length.

### BucketSync

`proc` is the goroutine of `performInitialScan`, whose steps are the three phases
of `validateAndSyncBuckets` and then the scan of each bucket found; `call` are
the calls of `ScanBucket`, `Startup` being the one that goroutine makes, the
others cron's. The configuration may change between two starts, a bucket's
status in S3 at any time. A start may be one without an initial scan
(`EnableInitialScan`, which the shipped examples turn off): then nothing is found, and cron is all there
is. Hours are the unit of time and a start takes less than
one, so the clock stands while it is at work; thresholds of some hours and
thresholds of 1 show the same comparisons. A threshold may also be 0, which is what `int32(Hours())`
makes of `"30m"`: the cleanup then deletes whatever is still marked.

`MaxFaults` bounds the kinds of failure that strike between two starts, each as
often as it likes: with one, any query or S3 call may fail, all of a kind, and
the next start may see another kind.

`BucketOutages` adds one clock for each bucket, since when it has been
inaccessible, which is what documentation speaks of; the table's `last_accessible_at` is moved by
`UpdateBucketAccessError` as well.

### DirectoryQueries and DirectoryPages

A directory is a function from its children to `is_folder`. `Before` is the
ORDER BY clause and `After` the comparison of rows with the cursor, as SQL
defines it. `Wrap` and `SafeInt32` are Go's `int` and the conversion to `int32`,
with a smaller width: their halves are constants. Rows change between any two
queries of a request.

### BucketSelection

A Go string is an address and a length, and two goroutines that write and read
one without synchronization may see one word of each: a selection is a pair of
names, written in two steps, and `Garbage` when they differ. `hist` is
auxiliary and says which browsers' pages and requests no switch has got in the
way of, and whether two switches have been under way at once.

### HealthMonitor and AppLifecycle

`main.pc` is the place of `main` in `initInfrastructure`, `NewApp`, and `shutdown`;
`srv`, `bg` and the monitor are the goroutines it starts, `cron.jobs` those of cron, and
`req` one per request. The database answers, refuses or hangs, and changes as it
likes; `inUse` counts the connections of the pool that handlers hold. Those that
scans hold are left out: "a connection to spare" in a property includes theirs.

The monitor's lock is held from the beginning of a check to the end of its ping
(`Locked`), and readers wait for it. `Shutdown` acts on what `s.srv` points to at that
moment: before `startWebServer` has replaced it, on a placeholder that has no
connections (`"spawned"`); in between, on the server that will listen, which then
refuses to (`closing`). `hist.served` and `hist.rests` remember at the signal and at
`scheduler.Stop` what the properties depend on.

`Transfers` are the requests that use S3: downloads, restores, uploads and deletions. Each takes as
long as the client and S3 take, as neither the server nor the S3 client has a
deadline; uploads and deletions go on with a query. None of the four handlers asks the monitor or looks
whether there is a service. What a page writes is taken up by the network at once.

What the code does and one would not guess: a failed connection throws the S3
client away with the database, so that transfers panic in degraded mode
(`TransferEnds`), and nothing connects again; a client that stalls in a download
holds up the end of the process for as long as it likes; a port that is taken leaves a process without a server;
the scheduler may start after it was stopped; a signal during the migrations has
to wait for them, and a second signal is taken and ignored; a scan under way at
the end is abandoned, its job says running.

Left out: the failure count, the last error and the time of the last check, which
are only displayed; `UpdateDatabase`, which nobody calls; the branch of
`checkHealth` for a missing handle, which is not reached, since without a
database there is no monitor.

## Runs

`expect: pass` runs, exhaustive over the instance:

| Run | Question | Instance |
|---|---|---|
| `scan_and_writers` | Does one scan leave the right rows and spare live objects, against a request and another client and under failures and a crash, do all of them together implement `IndexMirror`, and does the job end? | one scan; the marker object `d/` and `d/x` below it, two versions, one object per page, one request on both, another client on `d/x`; every failure, and a crash; fairness |
| `two_scans` | Two scans, overlapping, in sequence, or one after the other's crash: what becomes of marks left over, does a user find the file in the end, and does the job tell the outcome? | the marker object `d/`, `d/e/x`, and `#/y`, the link to whose folder leads to the root; pages of one in listing and view; every failure of a scan, and a crash; another client on `d/e/x`; names of up to four parts; symmetric in the scans, as only safety is checked |
| `bucket_sync` | Two starts: does the list show what is accessible, are found buckets kept and vanished ones dropped, has the empty name no row, and does the initial scan end whatever fails? | two buckets, all statuses, starts with and without a configured bucket, with and without an initial scan, cron's scans, two hours, two attempts, all faults, one kind between two starts, fairness |
| `directory_pages` | Are pages slices, do the arrows lead somewhere, and does every request end in a page or an error, not in a loop of redirects? | up to four children of either kind, pages of two; absent, invalid, large and overflowing page numbers, failing queries, fairness |
| `bucket_selection` | Do both copies agree, does a locked bucket stay, and do rows and objects change in the bucket shown? | two buckets, two browsers at once, with and without a configured bucket |
| `process_lifecycle` | Do start and end come to an end, are requests drained, do scans keep out of each other's way, does the status follow the database, is every probe answered? | a pool of one connection, three retries, one page, one probe, one transfer, one scan of cron, a database that changes at will, a signal at any moment, fairness |

Why these bounds are enough. What a scan does to a key depends on that key, its
ancestors, and where page boundaries fall: two objects, one of them below a
folder, with one per page give every order of marking, listing, writing and
sweeping of a key relative to another's, and a marker object adds the only case
in which one row is written in two roles. With one child per page every folder of the root stands
on a page of its own, so that the way to `d/e/x` goes over an arrow. An object in the root is the same with no
folders to write; the safety of the scan is proved for it as well. A third scan would only repeat what
two do to each other: a mark is a bit, and a sweep takes what is marked. Two
versions tell a stale row from a current one. Two hours with thresholds of one
give times before, at and after each threshold. Two buckets are a bucket at hand
and another. Four children on pages of two make two pages, three a short last one.
Two browsers are one and somebody else. One connection is a pool that a
single page exhausts, and three retries are the code's number. Bounds in guards are
only `MaxHours` (`Tick`), `MaxStarts` (`Start`), `MaxFaults` (`Struck` of `BucketSync`) and
`MaxJobs` (`CronFires` of `AppLifecycle`).

Deadlock is not checked where the system comes to rest by itself: scans are
finite in number in `ObjectScan`, starts and hours in `BucketSync`, and the
process of `AppLifecycle` exits. It is
checked in `DirectoryPages` and `BucketSelection`.

Most properties promise something only while nothing of a named kind gets in the
way: another scan, a failed listing, a second switch. These conditions are as
weak as the code allows - drop one and TLC shows a counterexample - and they are
what an operator of the program should know. A condition that names a hazard does not catch it:
the property then says that *nothing else* does the damage, and the hazard's note in
`PROJECT.json` says so. Where a document promises otherwise there is a disagreement below; the
others are:

* an upload and a deletion of one key may reach S3 in one order and the database
  in the other, and the index is wrong until the next scan;
* after a crash, or a cleanup that failed, marks stay until the next scan and the job says
  running for ever;
* a bucket whose row cannot be read or updated in the validation keeps its mark, and is deleted if it is past the
  threshold; with a threshold of no hour (`"30m"`) so is one whose check fails;
* after a start without an initial scan the list is what the process before has left, and
  cron's scans;
* with validation skipped and no bucket configured, cron scans the bucket `""`;
* a cursor that finds no row makes the first page appear under a later number,
  when rows vanish between the counts and the cursor;
* an offset that overflows makes the page a database error;
* a file in a folder that has subfolders as well may be on no page (`mixed_directory`), and what is
  in a folder with `&`, `#`, `+`, `%` or `;` in its name is not reached by links;
* a transfer under way holds up the end of the process for as long as it takes;
* a signal before the server listens cuts off whoever arrives in between; a goroutine of the initial scan that ends
  after `scheduler.Stop` starts the scheduler; requests drained after the monitor has stopped may get the page of
  the unavailable database;
* two switches at once can leave two different buckets selected, or a name put
  together from two, until somebody switches again; a switch between the S3 call
  and the query of a request sends the row to another bucket, and a switch after a page makes
  its forms act on another bucket.

### Disagreements

`expect: violation` runs each show one sentence of the repository that the code
does not live up to. Findings in `PROJECT.json` quote it.

| Run | What happens |
|---|---|
| `cleanup_after_failed_listing` | a listing that fails is followed by the cleanup, which deletes the rows of objects not listed yet |
| `scan_restores_row` | a deletion between a scan's page and its write: the row comes back |
| `other_bucket_deleted` | a start with a configured bucket marks all the others, validates none and deletes the expired |
| `denied_bucket_kept` | a bucket denied for longer than the threshold is not deleted, as each start that records the error moves `last_accessible_at` |
| `mixed_directory` | a page boundary after a folder loses the files, one after a file repeats the folders |
| `health_page` | `/health` compares a `health.Status` with a string and answers 503 for a healthy database, too |

`CleanupDeletesOnlyGoneObjects` has two more counterexamples, which `OrderlySweepsDeleteOnlyGone`
excludes as well: overlapping scans, where the marks of a scan that begins are swept, live
objects and all, by one that ends (the instance of `cleanup_after_failed_listing` with two scans and no
failure shows it), and a row whose write failed. And `RequestsKeepIndexInSync` is violated by
two requests on one key, too.

Others were met on the way and are not runs of their own:

* the page shown without a database says that S3 operations are still available and that the
  application reconnects by itself (`pkg/views/database-health.templ:39`, `:47`); in degraded
  mode neither is so, and uploads, deletions, downloads and restores panic (`TransferEnds`);
* the default schedule (`pkg/config/config.go:109`) has six fields, which `cron.New()`
  (`scheduler.go:26`) does not take, so that by default no scheduled scan runs (`CronParses`);
* `sync_threshold`, "for marking buckets as inaccessible" (`conf-examples/config-minio.yaml:56`,
  `config.go:133`), is read by no code: a bucket found inaccessible is hidden at once, as the
  comments at `ListAccessibleBuckets` and `performBucketValidation` have it;
* a bucket without rows is redirected to the bucket list (`app-handlers.go:107`), so that nobody
  gets to the form for a first upload;
* the links to folders and of the breadcrumbs are not escaped (`bucket-listing.templ:36`, `:153`), those
  of the arrows are.

## Fairness

The liveness properties are checked under weak fairness of single activities,
with one exception.

* `JobsSettle`: a scan that has begun, and the rest of a request, run on; each is a
  sequence of calls in one goroutine. That every call returns with a result or an
  error is an assumption about network and servers: the context of a scan has no deadline, and
  neither the driver nor the S3 client sets a timeout. Nothing is
  fair about cron, the beginning of requests, other clients or a crash.
* `InitialScanEnds`: the goroutine of the initial scan runs on; the retry loop
  sleeps a bounded time. Here, too, calls are assumed to return.
* `RequestsEnd`: a handler runs on and the browser follows its redirect, without
  fairness towards writers, who may change the directory between any two steps
  for ever.
* `StartupEnds`, `SignalEndsProcess`, `ProbesAreAnswered`, `HealthFollowsDatabase`: main,
  the goroutine of the server, the monitor and the handlers run on when they
  can. Readers of the status get strong fairness, as the lock is free only
  between two checks: a `sync.RWMutex` lets the readers that wait in before the
  next writer. That the ping of a check returns at its timeout is an assumption about the
  driver (`lib/pq` watches the context of a connection in use, but not each step of making
  one). Scans may run for ever, nobody has to send a signal, and the
  database does what it likes; where a property needs it to stop hanging, the
  property says so. Nor is anything fair about a transfer's end: there is no
  `WriteTimeout`, and `Shutdown` has no deadline. `SignalEndsProcess` is the
  statement that an end that does not come waits for a transfer, or for the database.

## Proofs

Eight modules hold theorems. They are proved for all values of the constants
that the named assumptions allow: `ConstantsAssumption` of each component (the types
of the constants; keys, buckets, browsers and scans may be infinitely many,
except those of `DirectoryPages` and `FolderTree`, which are counted), `ChildrenPerPageAssumption` (a
page holds something), `PoolAssumption` of `HealthMonitor` (the pool
has a connection), and `MarkerAssumption` of `ObjectScan`: a marker object is among its own
folders, which is how `ensureParentFolders` takes its key apart. Those of `FolderTree` are
explained above; `BoundsAssumption` only gives the types of the bounds of `FoldersAreChains`,
which may be of any size. TLC evaluates each of them in the runs.

Hardly any of the properties is inductive by itself. What follows says which invariant
carries each and why it is needed.

| Theorem | States | Carried by |
|---|---|---|
| `ObjectScanProofs!TypeCorrect` | `[]TypeOK` | `TypeInv` |
| `ObjectScanProofs!MarksSwept` | `[]MarksAreSwept` | `MarksInv` |
| `ObjectScanProofs!SweepSparesLiveObjects` | `CleanupSparesLiveObjects` | `SweepInv` |
| `ObjectScanProofs!OrderlySweepsDeleteOnlyGone` | `CleanupDeletesOnlyGoneObjects`, in behaviours where no two scans overlap and no listing or write of a row has failed | `SweepInv`, `AloneInv` |
| `ObjectScanProofs!JobsTell` | `[]JobTellsOutcome` | `JobInv` |
| `ObjectScanProofs!IndexMatches` | `[]SweptIndexMatchesBucket` | `CalmInv`, `IndexInv` |
| `ObjectScanMirrorProofs!ImplementsMirror` | `IndexIsMirror` | `ScanInv`, `HeldInv` |
| `FolderTreeProofs!ObjectsFound` | `[]ObjectsAreFound` | `TreeInv`, with `SweepInv`, `CalmInv` and `IndexInv` |
| `FolderTreeProofs!FoldersChain` | `[]FoldersAreChains` | `FileRows`, and the lemma `PathChains` |
| `BucketSyncProofs!TypeCorrect` | `[]TypeOK` | itself |
| `BucketSyncProofs!NamelessHasNoRow` | `[]NamelessBucketHasNoRow` | `CallInv` |
| `BucketSyncProofs!FoundSurvive` | `FoundBucketsSurvive` | `Visited`, `Unmarked` |
| `BucketSyncProofs!VanishedExpire` | `[]VanishedBucketsExpire` | `LostInv` |
| `BucketSyncProofs!ListShows` | `[]ListShowsAccessibleBuckets` | `LostInv`, `DeniedInv`, `ScansInv` |
| `BucketSyncProofs!DiscoverySpares` | `OnlyInaccessibleBucketsAreDeleted`, where `Configs` has `NoName` only and `Faults` neither `"get"` nor `"update"` (nor `"head"`, if the threshold is 0) | `FindsInv`, `Visited`, `Unmarked` |
| `DirectoryPagesProofs!TypeCorrect`, `ArrowsLead` | `[]TypeOK`, `[]ArrowsLeadSomewhere` | `PageInv` |
| `DirectoryPagesProofs!PagesSlice` | `PagesAreSlices`, whenever the directory has at most `Int32Half` children | `PageInv` and the lemmas on ranks of `DirectoryQueriesProofs` |
| `BucketSelectionProofs!TypeCorrect` | `[]TypeOK` | itself |
| `BucketSelectionProofs!CopiesAgree`, `LockHolds` | `[]SelectionsAgree`, `LockedBucketStays` | `SelectionInv` |
| `BucketSelectionProofs!SyncsHitTheBucket`, `ChangesAreShown` | `RowsFollowTheObjects`, `ChangesHitTheBucketShown` | `ReadersInv` |
| `AppLifecycleProofs!TypeCorrect` | `[]TypeOK` | `IsFiniteSet(Querying)` |
| `AppLifecycleProofs!Drained`, `StatusIsKnown` | `[]RequestsAreDrained`, `[]StatusKnownWhenServing` | `SignalInv`, `StartInv`, `MonitorInv` |
| `AppLifecycleProofs!InitialScanAlone`, `SchedulerRests` | `[]InitialScanRunsAlone`, `StoppedSchedulerRests` | `CronInv` |
| `AppLifecycleProofs!PagesOutlive` | `[]PagesOutliveTheDatabase` | `RequestInv` |

### The scan

`TypeInv` adds to `TypeOK` that the scan that writes an object has one in hand
(`ObjectInHand`). `MarksInv` says which scan keeps the marks (`Keeper`). `SweepInv` is the
argument for the sweep: for a scan that can still be trusted (`Trusted`: alone, no
list or row failure) the stable keys fall into three parts, those behind the
listing, whose rows and whose folders' rows are unmarked (`KeptCovered`), those in
the page in hand, of which the current one may be half done (`CurrentCovered`), and
those after the token, which later pages must contain since S3 still holds them
(`ListingState`). It takes `alone` to know that nobody marks again, and it is
preserved by requests and other clients because a write unmarks, a deletion of a
row follows the deletion of the object, which ends the object's stability, and a
failed row write or listing ends the trust. `UpsertRow` and `MarksOnlyFromMarkAll`
say what the queries of `IndexTable` do to the rows.

`IndexInv` is the other half, that the rows are *right*. For an undisturbed scan it
says of the keys that nobody touched: those behind the listing have their row,
with the version S3 holds, and the rows of their folders (`PresentWritten`), and
rows of keys without object stay marked to the sweep (`AbsentMarked`), so that it
takes them. Both need `CalmInv`, what calm means while the scan is at work: no
request has such a key in hand, and the page in hand shows of it what S3 holds
now. A folder is right only if nobody touched anything below it, since its row comes
from any of its objects and goes when the last one is gone.

`JobInv` follows the job: `scanErr` is set if and only if a listing failed, the sweep
is reached only when the listing failed or had no more pages, and only a failed
marking or query of the job leaves the job running.

`OrderlySweepsDeleteOnlyGone` says under which conditions the cleanup is right.
`CleanupDeletesOnlyGoneObjects` is false in general; it is true of every behaviour that is `Orderly`
all the time: any number of scans, but never two at work at once, and no listing broken off nor write of a
row failed. Then each scan at work is alone (`AloneInv`), and its sweep can be trusted whatever it found in the table. A
crash does not spoil it, nor do marks an earlier scan left behind, nor a
lost unmarking, as the write of a row takes the mark away by itself.

### The folders

Half of `FolderTreeProofs` is about paths. The path of an ordinary key loses nothing when it is
squeezed (`SqueezedFull`), so that the rows of its folders are its beginnings, each with the one
before as prefix (`FolderRows`, `FolderBefore`). With an empty part it is one of the lengths that
give it away: the folder above has lost a part that the prefix still has (`NoFolderAbove`).
`PathChains` puts both together. No induction is needed, because a squeezed path is given by the
places of its parts and a click path is a sequence: the path to an object is the sequence of the
folders above it (`AncestorPath`), and it has to be shown that each of them is in the
table *as a folder* and on some page of the one before (`Reached`, `OnThePages`). A link is read
as what it was made from, as the beginnings of a plain path are plain (`PlainLinks`).

The pages are the business of `DirectoryQueriesProofs`. A folder is on some page of its directory
whatever else is in there: its rank counts folders only, and the page with that rank begins after a
cursor that is a folder or no cursor at all (`OnSomePage`, `ShownAfterCursor`). Of a file that
is true only if the cursors are of its kind or there is one page, which is the condition
`FilesAreShown`; and the first page of a directory that has children is not empty
(`FirstPageShows`), so the breadcrumbs lead to something.

That the rows are folders is what `TreeInv` says. `IndexInv` has the rows, but not their kind: `processObject` writes the
row of a marker object `d/` as a file, over the row of the folder. `Shown` says that the folders
above an object are folders once the scan is done with it; what must not happen is that a
marker object is written after the objects below it. `Ordered` excludes it: what a scan is
done with comes before what is left in its page, and a marker object comes before what it
contains (`OrderAssumption`, `NotLeading`). `Leading` leaves marker objects aside that somebody
has touched, as an upload or a deletion of the marker changes the same row. Uploads below the
folder and deletions of other keys do not (`RequestLeavesFolders`), and of a second scan
`Undisturbed` says that it was not at work.

### The refinement

`ImplementsMirror` maps the steps one by one (`MirrorStep`): the writes of a row
to `WriteRow` (`WritesRow`), those of a folder to `WriteFolder` (`WritesFolder`), the sweep to
`RemoveRows` (`Sweeps`), the sync of a deletion to `RemoveRow`, uploads, deletions
and other clients to `ObjectsChange`, and everything else to a step that changes
`held` at most. `HeldInv` says that what somebody is about to write is allowed: the
versions in a page in hand and in an upload's hand have been held, and of each object
that is not stable, or is being deleted, the absence. The sweep is the hard step. It needs
`SweepInv`: whatever is marked when a trusted scan sweeps is not stable, therefore
was absent.

The attempt to prove it showed that the abstract specification was too strong.
The row of a marker object `d/` is the row of the folder `d/` as well; a deletion of
that object (the handler takes any key, though the page has no checkbox for
folders) removes the row while there are objects below, and the folder is not
shown until a scan writes it again. `RemoveRow` says so, and `scan_and_writers` now has
a marker object among its keys.

### Buckets

`BucketSyncProofs` follows the table through a start. `Visited`: from the marking to
the cleanup, the last access of a found bucket is the present hour unless its turn
is still to come, because recording an error moves it as
well; it is not past a threshold of an hour or more, and the cleanup spares it. With a threshold of no
hour only being unmarked helps, which `Unmarked` says of the buckets that were accessible all along, as long as
no check failed. That the same thing keeps *denied* buckets for ever is the disagreement
`denied_bucket_kept`. `LostInv`: what
was not found stays marked, as only a visit or a scan takes a mark away, and both
are of found buckets (`CallInv`), so that the cleanup deletes it by age and the list never
shows it. `DeniedInv` and `ScansInv` say the same of found buckets the program has no
access to and of those it has. `Welcome` and `Unwelcome` are the difficulty here:
S3 is asked twice, in the validation and in each scan, and the two answers count only if the
status has been the same since the start.

`DiscoverySpares` is the positive side of the run `other_bucket_deleted`: a start without a
configured bucket lists the account, so that it has found every bucket the program has had access
to since (`FindsInv`), and what is found is spared. Where no start is configured otherwise, and the
queries on rows work, the cleanup deletes inaccessible buckets only, as the comment says.

### Pages

`DirectoryPagesProofs` rests on lemmas about `Rank`, which are in `DirectoryQueriesProofs`. `Before` is a strict total order
(`BeforeIsOrder`), so ranks differ (`RanksDiffer`) and number the children without a gap
(`RanksNumber`, by a bijection with an interval); a cut at ranks *m* to *n* has
*n - m* children (`CutCounts`), `TotalPages` is the number of pages that takes (`PagesNeeded`), and in a
directory of one kind the children after the cursor are those of higher rank
(`CursorCuts`). `PageInv` says that what a request has read of a directory
nobody has changed is still so. The remaining step is arithmetic of fixed width: `Wrap` and
`SafeInt32` leave the offset alone (`OffsetFits`). That holds up to `Int32Half` children, and
not beyond: with `Int32Half` = 2, pages of one and five children TLC shows page 5 with the contents of
page 3, as `safeInt32` clamps the offset. `PagesSlice` says where it stops, and no table gets there: the `id`
of `s3_objects` is a `SERIAL`, an `int32` from 1 (`20250629000001_create_s3_objects.sql:12`).

### The selection

A switch writes two strings of two words each, and readers read one. `SelectionInv`
speaks of histories in which no two switches have crossed since one was alone: there is at most
one switch under way, what it has written already names its bucket (`SwitchInv`), and
when there is none (`Still`) the four words agree. `ReadersInv` adds that what a
quiet request and a fresh page have read is what is selected: the beginning of a
switch is the only step that ends `Still`, and it takes everybody out of both sets.

### The process

The invariants of `AppLifecycleProofs` are about the order of `main`. Nothing runs before it is
spawned, and the S3 client stands and falls with the connection
(`StartInv`); the first check is over before there is a server (`MonitorInv`); cron is not
running before the initial scan has returned, nor after a `Stop` that found the scheduler started
(`CronInv`); a server that listened at the signal is closed before its requests are
waited for, and whoever is closed takes no new ones (`SignalInv`). Type correctness is more than it seems, because the
pool's counter must be the number of requests that hold a connection, which
takes their finiteness along as an invariant.

### Only model-checked

* Liveness: `JobsSettle`, `InitialScanEnds`, `RequestsEnd`, `StartupEnds`, `SignalEndsProcess`,
  `ProbesAreAnswered`, `HealthFollowsDatabase`. Fairness is stated with `ENABLED`, which the prover does not
  handle.
* That `Squeeze` is what a loop over the parts computes (`SqueezeAssumption`): it compares with
  a recursive definition, and a proof would be by induction over the parts.
* The `violation` runs, which are counterexamples.

Every safety invariant, action property and refinement that a passing run checks is proved as well.

## Not modelled

Live listings, search, restore requests to Glacier, views and
configuration parsing keep no state: what they do is a function of what they
read. PostgreSQL and S3 are assumed to do each call atomically, S3 to list
consistently with what it holds, and a continuation token to mean "after this
key".

## Plan

1. Done: `IndexTable`, `ObjectScan` and its proofs; `BucketSync` and `BucketOutages`;
   `DirectoryQueries` and `DirectoryPages`; `BucketSelection`; `HealthMonitor` and `AppLifecycle`; `IndexMirror`
   and the refinement; `FolderPaths` and `FolderTree`.
2. Done: the proofs above.
3. Done: the theorems about the folders and the way over their pages, and those that say when the disagreements about
   the two cleanups do not bite.
4. Left: liveness beyond TLC's instances, which waits for a prover that handles `ENABLED`.
