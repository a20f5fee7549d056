# Verification of the LucidLink workspace manager

TLA+ models of the engine behind the LucidLink workspace manager
(`src/docker`): the indexer that keeps a searchable index of LucidLink
filespaces and local folders, the file service beside it, and the update
monitor. Modules are checked
with TLC on small instances; what matters most is proved with TLAPS for every
value of the constants.

## The system

The engine is one or two Python processes (FastAPI, threads, SQLite) on the
owner's machine. Other people and programs change the filespaces at any time;
the engine only sees listings, `get_entry`, file contents and advisory hints.

| Component | State it keeps | Operations | What makes it hard |
|---|---|---|---|
| File ledger, `indexer/scanner.py` over `store.py` | rows of `files`, `chunks`, `filespaces.id_scheme` | `scan`, `hint`, `index_pending`, `_tombstone`, re-keying | files move while listed; ids missing or renamed by an upgrade; two commits per change; late hints; touches recognised by hash |
| Job scheduler, `indexer/worker.py` | `Runtime` per source, thread pool, `control` row | `request_sync`, `add_hint`, `_dispatch`, `run_job`, pause, priority | requests at any moment of a job; writes without the lock; shared sessions; time slices |
| Index store, `indexer/store.py` | SQLite, generation counter, embedding cache, keyword index | transactions, `read_view`, `bump`, rekey, purge | snapshots against writers, ids never reused, the queue for the mirror |
| Search indexes, `indexer/vectors.py` (`LocalIndex`, `FileIndex`) | matrices loaded at a generation | `_load`, `search`, `refresh` | load concurrent with writes |
| Ruvector mirror, `indexer/vectors.py` | remote collection, `mirror_points` | `sync`, `_rehydrate`, `_rebuild`, fallback | lost answers, a collection that comes back empty |
| File vectors, `service.py`, `related.py` | `file_vectors` | background builder, `related` | builder against jobs |
| SDK sources, `indexer/source.py` | LRU of sessions and links, leases | `lease` | two levels of locks, eviction while in use |
| Block folders, `block.py`, `folders.py`, `service.py` | `block_folders`, `drives_seen`, `block_removed` | connect, options, missing, reconnect, remove | folders come and go under running jobs |
| Discovery, `discover.py`, `service.py` | `discover_groups`, `discover_scopes` | request, run, reconcile, name, merge | minutes-long runs against owner's actions |
| Gateway registry, `ll_core.py` | clients, links, listing cache | `_get_session`, `link`, `_list_filespaces_cached` | names change, caches go stale |
| Vault, `vault.py` | one encrypted record | save, merge, retire | concurrent saves, masked secrets |
| Owner sign-in, `owner_auth.py` | cache of verified sessions | `verify_owner` | outages, stale answers |
| Update monitor, `updates/` | `alerts`, `releases`, `components` | `check`, `_deliver`, schedule | crash between send and record, two checks at once, thread that outlives its stop |
| Search, ask, extraction, routes, scripts, browser client | none shared | read-only queries, conversions, calls | heuristics and I/O, not state |

Interactions: HTTP handlers and file routes call `Scheduler.request_sync` and
`add_hint`; the scheduler's thread starts jobs; a job leases a source and runs
the ledger's operations; the ledger's writes bump the store's generation, which
the search indexes, the mirror and the file-vector builder follow, and drop the
file's vector, whose counter `_discover_due` compares. The file service asks the
vault for a token, and the indexer asks it for tokens and targets; a write
through the file service becomes a hint of the workspace that wrote.

What makes each correct, in a sentence: the ledger ends up naming exactly the
files that exist and never forgets one that stayed; chunks never outlive their
row nor mix two readings; a source has one job at a time, within the slots and
sessions, and no request is lost; an index serves a generation that existed; the
mirror converges to the store; a folder that is gone leaves nothing behind; an
owner's decision survives a discovery run; a filespace in use is never unlinked
and its client has one user; a request works with the token and on the filespace
it was meant for; no save undoes another; a release is announced once.

## Modules

| Module | Models |
|---|---|
| `IndexLedger` | `scanner.py`: the ledger of one filespace against a changing tree |
| `Scheduler` | `worker.py` and the controls in `service.py` |
| `VectorSearch` | `vectors.py`: `LocalIndex`, `RuvectorMirror`, `VectorService` over the store's generation |
| `FileVectors` | `store.py` and `service.py`: file vectors, their builder, `FileIndex` |
| `Communities` | `discover.py`: from files to groups, as pure operators |
| `Discovery` | `service.py`, `discover.py`: runs, naming and the owner's actions; extends `FileVectors` and `Communities` |
| `Folders` | `service.py`, `folders.py`, `block.py`, `worker.py`: connected folders, drives, and the jobs of a folder |
| `ClientPool` | abstract: what a registry of LucidLink clients promises |
| `Leases` | `source.py`: the indexer's registry; refines `ClientPool` |
| `Vault` | `vault.py`: the settings record |
| `FileService` | `owner_auth.py`, `ll_core.py`, `lucidlink_api.py`: a request from bearer to hint; extends `Vault`, refines `ClientPool` |
| `UpdateMonitor` | `updates/`: checks of releases and advisories, and their announcement |
| `MC...` | the instances of `IndexLedger`, `Scheduler`, `VectorSearch`, `Discovery`, `Folders`, `Leases`, `FileService`, `UpdateMonitor` |
| `...Proofs` | the theorems about `IndexLedger`, `Scheduler`, `VectorSearch`, `Discovery` (with `FileVectors` and `Communities`), `Folders`, `Leases`, `FileService` (with `Vault`), `UpdateMonitor` |

An operator introduced with "as a plausible bug would have it" is the mutated
form of its neighbour; no specification uses it.

### IndexLedger

`tree` is the filespace itself, changed by `SaveFile`, `MoveFile` and
`RemoveFile` between any two steps. `ledger[i]` is the row of `files` with
`file_id` i (status `"none"`: no row); `chunks[i]` is the content whose chunks
are stored for it. Text, chunk boundaries, vectors and change-feed columns
(`change_kind`, `prev_path`) are left out: a content is its hash and its chunks.

`job` is the operation in progress, cut where the code reads the source or
commits: `StartScan`, `ListDir` (one `read_dir`), `ListedFile` (one entry:
`_listed_file`, fast path, re-keying, `get_entry`, `observe`), `FinishWalk` and
`Tombstone` (`_prune`), `EndOperation`; `HintPresent`, `HintAbsent`,
`HintSource` (`hint`); `StartIndexing`, `IndexFile`, `EndIndexing`
(`index_pending`, `_index_file`). `writing` is the row of a change whose chunks
are already committed; `CommitRow` writes it. `Crash` keeps what is committed.

Abstractions: a scan's id is the set `job.seen` of the rows it stamped; the age of
a failure (`_retry_due`) is a choice; a package is a file, since its walk stands
for its `stat`; the index queue is a set, so its order (newest first) and slice
are choices; reading a file and writing its chunks is one step, the row another; a
hint's `stat` and the row it observes are one step. Every save has its own
modification time: two saves of equal size within one timestamp cannot be told
apart by any scanner and are excluded. Job order is left free (any sequence of
scans, hints and indexing), which contains what `run_job` does.

`settled` and `unmoved` are history: whether a complete root scan ended with no
change since it began, and the files that kept their place since the operation
began.

### Scheduler

`rt[k]` is the `Runtime` of a source, with hints as a number; `due` is
`time.time() >= next_scan_at`. A dispatch pass is cut where it reads shared
state: `Wake` reads `paused`, `Sort` takes `_cv`, reads the priorities (read
just before it in the code) and counts the running jobs, `Offer(k)` handles one
source, `EndPass` releases `_cv`. A job is `Take` (under `_cv`), `Finish` (the
lock-free writes of `run_job`'s `finally`, work done or failed), `Return`
(`_job_safe`'s `finally`, under `_cv`). While a pass holds `_cv`, the actions
that need it are disabled and those that do not are not: `ScanComesDue`,
`Finish`, and `PutReads`/`PutWrites` of `set_control`. `Restart` is the end of
the process; in-memory state is lost and every source is due.

Abstractions: the targets are fixed; `recency` keeps the order of
`last_run_end` as ranks; an enabled check and the start it guards are one step
per source; `MaxChanges` bounds PUTs, toggles and restarts, and `Periodic` names
the sources that come due again in a run. `owed` and `unheard` are history: the
requests no scan has taken up, and the queued hints no job has taken.

### VectorSearch

The store is `chunks[f]` (point ids, never reused), `place[f]` (`files.path`),
`recorded` (`mirror_points`) and `generation`. A job's write is cut between the
commit and the bump (`writing[f]`): `ReplaceChunks` (`delete_file_chunks` is the
case that keeps nothing), `Rekey`, `Rename`, then `Bump`, and for a rename
`WritePath` after it, in the order of `observe`. `StartLoad` and `LoadRows` are
the two reads of `LocalIndex._load`. `op` is the operation holding the mirror's
lock, cut at each request and each use of the store: `Ensure`, `Verify`,
`Decide` (generation, clean shortcut, counts), `Delete`, `Clear`, `Create`,
`ReadMissing`, `Put`, `Add`, `Mark`, `Ask`, `Missing` (the one healing of `_run`)
and `Fails` (a request refused, or applied with its answer lost).
`SearchUnlocked` and `SearchFails` are searches that take no lock. `exists` and
`held` are the server; `ServerRestarts`, `ServerEmptied` and `Crash` its and the
engine's faults.

Abstractions: a chunk is embedded when it is written (`_index_file` embeds
first); a rename's two consecutive bumps are one; the age of the clean stamp and
the cooldown are choices; scores, ranking, the streamed search of very large
indexes and the cached counts behind the over-fetch are left out. `lost` is
history: the server came back empty since the record was last cleared.

### FileVectors

`text[f]` is what the chunks of an indexed file say (None: no chunks),
`embedded` the texts whose embeddings are cached, `vec` and `stamp` the table
`file_vectors` (a row with a number and no vector is a dropped one), `fvSeq` the
counter. `Replace`, `Rekey`, `Forget` are the writes of the ledger with the
`_fv_drop` their transaction makes. The builder is cut at each use of the store:
`List` (the files without a vector, less those that failed, within a limit grown
by their number), `Mean` (one snapshot), `Put`, `EndPass`; between `Mean` and
`Put` anything may be written. `Refresh` is `FileIndex.refresh`.

Abstractions: a vector is the text it is the mean of; all chunks of a text are
embedded at once, so partial means do not occur; `List` may return any subset of
the right size, since the query has no order.

### Communities and Discovery

`Communities` is the pure part of a run: `Nodes` and `Members` (`fold_nodes`),
`Strength` and `Kept` (`Graph.link`), `Partition` (`louvain`: twenty levels of
`NextLevel`, of which those after the last that moves a node change nothing),
`Split` (one level of the recursion in `communities`; the pieces of a level are
split at the next one, and what is cut or small enough stays), `Cut`, `GroupsOf`.
Strengths are integers (per cents) so that comparisons are exact. The levels are
recursive functions of a number, not of sets of nodes, which is what makes them
provable. What counts as evidence for two files - shared
names, references, closeness, neighbourhood - is given by constants.

`Discovery` is one location. `scope` is its row of `discover_scopes`, `groups`
the table. `run` is the single thread: `Look` (`discover_pass`), `Start`,
`ReadTexts`, `Compare`, `Reconcile`, `Save`, `Mark`, then `ListNames`,
`AskName`, `Answer`, `WriteName`; each reads or writes the store once. The owner
acts between any two: `Ask`, `Disable`, `Name`, `Decide`, and `Merge` /
`MergeSave` / `MergeMark`, which is no transaction either. `Fail`, `Restart`
(which asks for an interrupted run again) and `Crash` (which does not) are the
ends of a run, `Purge` the removal of its source.

`Matches` is the loop of `reconcile`: an order of the new groups, in which each
takes the closest of the `Recognised` groups that none before it took.

Abstractions: scores are left out, so matches are made in any order of groups;
`by` stands for a name and who gave it; ids are reused once nothing refers to
them, and a run waits for free ones, so `Ids` bounds the groups at one time; the
age of the last run is `old`. `acted` is history: groups acted on
since the thread last read them; `basis` the vectors of the last good run.

### Folders

The store is `apps`, `removed`, `seen`, `marked`; memory is `specs` (`_specs`)
and `targets`. Requests, the scheduler's refresh and jobs are threads, each at a
place; whoever reads `_block_specs` may find it empty, load the store (`Load`),
keep what it read (`Assign`, however old) or find it emptied again (`Bare`, a
failed request). `Check` and `Insert`/`Erase`/`SetDownload` are apart, so that
two requests overlap. A job is `Open` (the lease), `Flag`, `WalkTop`, `WalkSub`,
`Prune`, `Index`, `End`; `Mount` and `Edit` happen between any two. Prompts are
`Look` (which passes over a root with nothing in it, `Available`), `Browse`,
`Recall`, `First`, `More`, `Offer`, `Missing`, `Dismiss`. What a root holds is the
drives `plugged` and, as one Boolean, `others`: files, links and hidden folders,
which make the root available and are no drives. Both may change between any two
of these steps (`Plug`, `Litter`).

Abstractions: two levels of a folder; a file's content is the folder it is in,
since what the properties compare is whose file a row describes; the two queries
of `_load_specs` are one; reading a file and both its writes are one step (apart
in `IndexLedger`). `misread` is history: the rows whose content a job read from
another folder than the one they were observed in. Browsing is left out, and so
is what `mark_missing` keeps, which is only displayed. A folder that disappears
between the `scandir` and the `stat`s of one listing is one atomic `Listable`
here; see "Divergences".

### ClientPool and Leases

`ClientPool` has a set of linked filespaces and a set of uses; uses of one
client exclude each other, and what is in use stays linked. `Leases` is
`SdkSourceProvider`: `Ask` (the token is read before the provider's lock), `Pin`
(`_session`, with the eviction of idle sessions and the count), `Take` (the
session's lock), `Resolve`, `Link` (with the eviction of links), `Finish`,
`Unpin`. Tokens are rotated, names change, logins, listings, links and unlinks
fail, the indexer restarts. A name list may be too old whenever it is read, which
stands for its age. What a failed unlink leaves linked is in `leaked`.

### Vault and FileService

`Vault` is one encrypted row. A save is `Put`, `Begin` (`BEGIN IMMEDIATE` and
the read), `Commit` or `Rollback`; `Busy` is the write lock not got in time.
`MergedToken` is the contract of a masked, blanked, cleared, new or omitted
token, `Picked` is `_pick_workspace`. `meant` is history: the same bodies merged
one after the other, in the order they were committed, into a record nobody
reads early. Encryption, validation and the shape of lists are left out.

`FileService` extends it with the request: `Verify`, `AskSupabase`, `TakeAnswer`
(`verify_owner`), `Resolve` (`_vault_resolve`), `Lookup`, `List`, `Listed`
(`_list_filespaces_cached`), `Acquire` (the registry lock, `_get_session`,
`link`), `Finish`, and `SendHint`. A bearer that is a token skips the first four.
Time is a bounded clock; `Tick` may pass at any moment, except that a call ends
within `Patience`. `leftAt` and `goneAt` are history: when Supabase, or
LucidLink, stopped saying something.

Abstractions: the file operations are one operation that succeeds or fails under
the lock; answers of Supabase are owner, other or outage; which of several
entries is evicted is a choice.

### UpdateMonitor

The tables of `updates.db` are `latest` (`components`), `rows` (`releases`: no
row, a row, or the context its summary was written from), `alerts` and
`lastCheck` (`meta`). `at[k]` is where a caller is in `check`: the schedule's
thread or a request. It is cut at every call to a registry (`Fetch`, `Advise`),
the database (`Begin`, `Record`, `RecordFailure`, `UpsertRelease`, `HasAlert`,
`ReadSummary`, `SetSummary`, `Deliver`, `Finish`), the LLM (`AskLLM`) and a
notifier (`Send`), and each of these may fail where the code lets it: a
registry's failure is recorded and the next component taken, a database error
within a component skips the rest of it, one in the check's own records ends the
check. `lock` is `UpdateMonitor._lock`; `phase`, `Stop`, `Exit`, `Crash`,
`Start` are the life of the process and its daemon thread. A version is its sort
key, so `Newest` and `IsUpdate` are the code's own comparisons.

Abstractions: `MaxNotes` editions of the audit notes stand for their text; the
interval between manual checks is a choice (`IntervalPasses`); titles, bodies,
priorities, tags and the breaking and automerge labels are left out; parsing
versions and pin files is external (`NoVersion` is what does not parse);
requests other than the two a `Release` is decided by (per-version notes,
changelogs, digests) only feed the text. `reached` is history: the alerts some
notifier accepted, whether or not its answer came back.

## Runs

Every property of a passing run has a mutant of the code that TLC finds to break
it under the same configuration, so the bounds reach the hazard it is about.
Runs of large models give their bounds as *loads*: each initial state has one,
and it says how often each kind of event may still happen. A load is a scenario
in which the events that matter to one another occur together; the run covers
all interleavings within each.

| Run | Checks | Instance |
|---|---|---|
| `LedgerFiles` | `ChunksHaveLiveRows`, `SettledLedgerIsTrue`, `NeverDropsAPresentFile` | two files, two folders, two changes (enough to swap or replace), one failed listing or crash, hints at every path |
| `LedgerReadings` | `ChunksMatchHash` | one file, four contents (text, other text, blank, over the limit), an unsupported name, three changes, two faults of four kinds |
| `LedgerSettles` | `QueueDrains`, `GhostsForgotten`, `RekeyKeepsChunks` | two files, new ledgers and one with a legacy id, listings with and without ids, one change, one fault of four kinds |
| `SchedulerSafety` | `OneJobPerKey`, `SessionExclusive`, `NoRequestLost` | three sources, two of which share a workspace, two slots, three pool threads, a queue of one hint, one PUT, toggle or restart |
| `SchedulerTurns` | `AtMostConcurrency`, `FairTurns` | three sources, one slot, two pool threads, endless backlogs and hints |
| `VectorMirror` | `LocalIsCurrent`, `CleanMeansMirrored`, `MirrorCatchesUp` | one file, two points, two writes, two faults of four kinds, batches of two points sent whole or in parts |
| `Discovery` | `IndexFollowsTheStore`, `NewMeansNew`, `OwnersWordStands`, `EveryFileGetsAVector`, `RequestsAreAnswered`, `GroupsCatchUp` | five files of four documents in two projects, two files that change among three texts, batches of one; eight loads: an action, a merge, a failure and a restart, a crash, re-keying, a purge, or a stop and a pause around one or two runs |
| `FoldersConnected` | `BaselineIsTheFirstLook`, `RowsFollowTheFolder`, `KeptThroughUnmounts`, `TargetsFollowTheChoices` | one name that the engine and the app may give to either of two folders, one of them in the cloud, two files at two levels, two drives, two requests at once; nine loads: looks under plugging at a root that is empty at first and at one that is not, overlapping requests, a folder replaced under two jobs, options against jobs and edits, a folder that comes and goes, a drive that is connected, one dismissed before a restart |
| `FolderRemoved` | `RemovedIsForgotten` (violated) | one job and one removal |
| `Leases` | `RegistryIsBounded`, `KeepsPool`, `EveryLeaseEnds` | three jobs, two workspaces, three tokens, two filespaces, one session and one link at most, three leases, one rotation, rename, failure or restart |
| `FileService` | `TypeOK`, `VaultIsAsSaved`, `AnswersAreRecent`, `RightFilespace`, `HintsNameTheirWorkspace`, `KeepsPool`, `EveryRequestIsAnswered` | an owner's session and a token, two requests, two editors, registries and cache of one; five loads: overlapping saves from an empty and from an old record, a save during a request, two requests with a fault, two while identities and names change |
| `UpdateChecks` | `NeverSentAgain`, `AnnouncedWasHeard`, `NeverPaysTwice`, `EveryUpdateIsAnnounced`, `LatestCatchesUp` | an image whose registry may stay down, then a package; two notifiers; a final, a candidate and the next final; one advisory, one change, two faults of five kinds (both notifiers failing in one fan-out, a crash after a send and a lost answer) |

Why the bounds are enough: a pool thread more than the slots lets a scheduler
that counts wrongly start one job too many, and a third source lets one be passed
over while two run. A registry of one evicts at every second token, and three
jobs let one hold, one wait and one evict. Two folders under one name are all it
takes to mix their rows, and one request more than the one that removes it to
race with that. Two projects and a text about both let a group grow, split and
be found again. The clock of `FileService` is long enough for an answer to arrive
late, be remembered and expire.

Deadlock is checked except where the bounds let the system stop: `VectorMirror`,
`UpdateChecks`, `Leases` and `FileService` may use up their writes, leases or
requests.

`ChunksMatchHash` is checked without crashes, since a crash between the commit
of the chunks and that of the row does break it: the file reverted to its old
bytes is then touched over the wrong chunks. `SettledLedgerIsTrue` and
`NeverDropsAPresentFile` are checked with listed ids, as the current SDK gives
them. Without ids the first does not hold: when a file is replaced between the
listing and `get_entry`, the row of the new file gets the listing values of the
old one, and a later id-less listing may recognise it in the other's place.
`LedgerSettles` mixes both kinds of listing.

### Divergences

`FolderRemoved` shows the code doing something else than `docs/INDEXER.md:507-509`
says: removing a source deletes its rows and purges while a job of it goes on,
and what that job writes afterwards stays as long as the name is not connected.
`RowsFollowTheFolder` says what does hold: the next complete scan of the name
mends it, but for the text of a row that is `misread`: queued for one folder, not
listed by the incomplete scan of the next one, and read there all the same. Such
a row looks unchanged when the first folder returns, and the fast path
(`scanner.py:352`) leaves it alone.

These are visible in the models and have no run:

- The first drive of an empty root is never offered. `docs/INDEXER.md:538-541`
  has a drive offered that "appeared after the indexer first looked"; while the
  root holds nothing but placeholders it is unavailable and no look is recorded
  (`service.py:589`), so the first look is the one that finds the drive, and takes
  it for known. With any other entry in the root (a link, a file) the drive is
  offered.
- A deleted file that returns with the same bytes is `indexed` with no chunks: the
  tombstone keeps its hash (`scanner.py:574`). A read failure, then a save of the
  same bytes: `skipped`, with "read failed" as the reason (`scanner.py:576`).
- Two overlapping PUTs of `/index/control`: one undoes the other's field
  (`service.py:774`). `Wake` reads `paused` before `Sort` takes `_cv`, so a pause
  in between does not keep jobs from starting.
- Two files that have the same size and modification time cannot be told apart
  when ids change: one may take the row, and the chunks, of the other
  (`scanner.py:352`, `FilesDiffer` below).
- A rename bumps the generation before it writes the path: a matrix loaded in
  between keeps the old one (`scanner.py:249`). A collection that comes back empty
  in the middle of a push is never refilled (`vectors.py:453`).
- A run of discovery reads the groups, matches for a while and saves: an owner's
  decision in between is overwritten, and so is a name given between
  `name_group`'s second read and its write. `OwnersWordStands` excepts exactly
  what is `acted`.
- A proposal made by merging is dropped by the next run if nothing found matches
  it. A run whose source is purged meanwhile saves groups for it. A run that is
  killed is forgotten: its request was cleared when it began.
- A file's vector may be the mean of chunks replaced between `Mean` and `Put`, and
  stays so until the file changes again.
- A slow request may put older choices into `_specs` after another one emptied
  it, until the next forced refresh (`overtaken` in `TargetsFollowTheChoices`), and
  a request fails if `_specs` is emptied while it reads. Two overlapping additions
  both pass the check that folders do not overlap.
- A mount lost between `scandir` and the `stat`s of a listing makes it a complete,
  empty one, and the scan prunes. `KeptThroughUnmounts` holds with whole listings.
- A crash between the removal of a folder and its purge leaves its rows.

### Fairness

`IndexLedger!FairSpec`: a started operation goes on (`WF` of `JobStep`: nothing
blocks a job but the source, whose calls return or fail), and scans and indexing
start again and again even if hints keep coming (`SF`): each job takes the hints
queued when it begins, then scans if the interval is over, then indexes. Faults
and changes are bounded and never assumed to happen. `Scheduler!FairSpec`: the
control thread never dies (`_loop` catches everything), and each job ends and
gets `_cv` (`SF` of `JobStep`: the loop leaves `_cv` for `tick_sec` between two
passes). `FairTurns` is checked without priorities, since by design a
prioritised source with an endless backlog is always offered a slot first.
`VectorSearch!FairSpec`: a sync follows every job and jobs recur (`SF`, since
searches compete for the mirror's lock); an operation goes on, as every request
has a timeout; a cooldown ends; a job finishes what it began to write. The
expiry of the clean stamp is not assumed, so that it cannot hide a stamp that
says too much.
`UpdateMonitor!FairSpec`: the schedule's thread comes back after every interval
(`_loop` catches everything), every call of a check returns (each has a timeout)
and docker restarts the container (`restart: unless-stopped`). Faults and changes
are bounded, but the registry of an `Unreliable` component may fail for ever:
`EveryUpdateIsAnnounced` and `LatestCatchesUp` say of the others what holds from
some point on.
`Discovery!FairSpec`: the two background threads run (each loop catches
everything) and days pass; that embeddings come is not assumed, nor that the
owner does anything. `Folders!FairSpec`: threads run, and the scheduler refreshes
its targets over and over; no owner is assumed to act, no job to start.
`Leases!FairSpec`: jobs end, calls of the SDK return, and a session's lock that
stays free is taken by who waits for it (weak fairness suffices with the bounded
number of leases). `FileService!FairSpec`: the server's threads are scheduled,
calls return or fail within their timeouts, and the registry lock, once free for
good, goes to who waits. New requests are bounded, so neither model claims that a
waiter overtakes an endless stream: Python's locks are not fair.

## Proofs

Every theorem holds for any sources, files, paths, contents and bounds that
satisfy the modules' `ASSUME`s.

`IndexLedgerProofs`: `InvariantHolds` proves `LedgerInv` inductive. `TypeOK` and
`ChunksHaveLiveRows` are not inductive by themselves: a row half written may be a
tombstone, and the queue a job drains was read earlier. `LedgerInv` adds that
the queue holds pending rows (`QueueIsPending`) and that a half-written row that
is not live has already lost its chunks (`WriteIsSafe`). From it `TypeCorrect`
and `ChunksAlwaysHaveLiveRows`. On it rest three more invariants, each for the
property that needs it:

- `HashesNameChunks` says that a row's hash names the chunks stored for it, and of
  a row whose chunks are committed and which is not, that it is still pending: the
  state a crash would freeze. `ChunksAlwaysMatchHash` assumes no crash
  (`"crash" \notin FaultKinds`); with one it is false.
- `TruthInv`: what a walk has stamped or is yet to list covers every file that kept
  its place (`WalkInv`), what it stamped was so at a moment of the walk
  (`SeenAreTrue`), and while nothing changed since it began the rows it stamped are
  those of the tree (`SettledInv`). From it `SettledLedgerIsAlwaysTrue`, which
  assumes that listings have ids (`FALSE \notin ListedIds`), as those of the
  current SDK; without them it is false.
- `StatsTellFiles`: no two files ever have the same size and time, which holds for
  ever if the first tree has no two files of one size (`FilesDiffer`; all its files
  have the same time in the model, and every save has its own). With it
  `NeverDropsPresentFiles`, again for listed ids, and, from `LegacyTold` (a row
  with an id from before the upgrade is of the file that has its new one),
  `RekeyingKeepsChunks`, with ids listed or not. Without `FilesDiffer` both are
  false, as under "Divergences".

`SchedulerProofs`: `InvariantHolds` proves `SchedulerInv` inductive. Its heart is
that a source is marked running exactly while a thread has its job and no two
threads have the same source's; that the count a pass keeps is the number of
marks (`CountIsRight`), which share no session (`SessionsFree`); and, for
requests, that what came in since a job set out to scan is on record
(`ScanCovers`), without which clearing `due` at its end would lose it. From it
`OneJobAtATime`, `SlotsAreBounded` (threads inject into marks: the pigeonhole
principle), `SessionsAreExclusive`, `RequestsAreKept`, `TypeCorrect`.

`VectorSearchProofs`: `InvariantHolds` proves `VectorInv` inductive. Stamps are
never newer than the generation (`StampsAreOld`), so a bump outdates them all;
a write is unannounced until its bump; and a push that is about to be stamped
has left nothing if nothing was announced since its stamp was read
(`PushIsRecorded`). From it `LocalSearchIsCurrent`, `ShortcutIsSafe`,
`RecordIsTrue`, `TypeCorrect`. The run has one writer; the theorems hold for any
number of them.

`UpdateMonitorProofs`: `MonitorInvariantHolds` proves `MonitorInv` inductive.
Nothing in the database protects a check from another one, so what a step relies
on is only still true because whoever is in a check holds the lock (`LockIsHeld`);
`Located`, `Summarised` and `Announcing` say what each place in a check has
established. A crash frees the lock together with the place. From it
`NeverAnnouncedAgain`, `AnnouncedMeansHeard`, `NoSummaryTwice`,
`MonitorTypeCorrect`, for any number of components, notifiers, versions,
advisories and faults.

`DiscoveryProofs` has four parts.

- File vectors: `VectorsInvHolds` proves `VectorsInv` inductive: every row's
  number is at most the counter, and what the index holds of a row at or below its
  own number is that row. Numbers only grow, so `IndexNeverMissesAWrite`, for any
  files, texts and batches. Every step of `Discovery` is one of `FileVectors` or
  leaves the vectors alone (`DiscoveryStepsVectors`), so the same holds of the
  composition (`DiscoveryReadsTheStore`).
- Communities: `CommunitiesApart`, for any graph, and `GroupsApart`, for any
  evidence: no file is in two groups of one run. That is an induction over the
  levels of `louvain` and of the splits; it is done with the least level at which
  the claim fails (`LeastNumber`), which needs no induction rule. Files share a
  group through the one node of their bytes, and a node is the first of its copies
  by path, so paths must differ (`CommunitiesAssumption`).
- Matching: whatever the order, no stored group is taken twice and none that is
  alike is passed over unless another took it (`MatchFacts`); the other one has no
  file in common with this, so it has at most half of the stored one's
  (`SharedOnce`); those that are new fit into the free ids (`Fits`).
- Runs: `DiscoveryInvHolds` proves `DiscoveryInv` inductive. `NewMeansNew` speaks
  of a run about to save, so the invariant must know that what it found is apart
  (`FoundApart`). `OwnersWordStands` speaks of steps: at `Save` the rows are still
  as the run read them wherever nobody acted since (`PriorStands`), and what it
  writes is where nothing was or a proposal again (`RowsAreProposed`); at
  `WriteName` the row was acted on or has a made-up name (`NamedStands`). From it
  `NewAlwaysMeansNew`, `OwnersWordAlwaysStands`, `DiscoveryTypeCorrect`.

`FoldersProofs`: `FoldersInv` has three parts. `LookInv`: until the first look is
recorded nothing is seen and no look has gone on to offer (`MarkIsTheLook`), a
look that did not find the mark listed the drives before it (`LooksAreEarly`), and a drive is
on record as what the owner was told (`DrivesAreTold`). `ScanInv`: what stayed in
place since a walk began is still there, and is found by the time it prunes
(`StayedIsThere`, `StayedIsFound`). `RowInv`: what a walk finds is of its root,
what a job queues is as its rows were read, text belongs to the place the row was
observed in unless it is `misread` (`FoundIsOfTheRoot`, `QueueIsAsRead`,
`TextIsHashed`, `TextIsOfTheRow`, `SettledIsOfTheFolder`). From it
`BaselineIsAlwaysTheFirstLook`, `AlwaysKeptThroughUnmounts`,
`RowsAlwaysFollowTheFolder` and `FoldersTypeCorrect`, for any number of places,
names, jobs, requests and drives.

`LeasesProofs`: `LeasesInvHolds` proves `LeasesInv` inductive. A session is
pinned exactly by the leases between `Pin` and `Unpin`, which are counted
(`pins`), so a count of zero means nobody is inside; a session's lock has one
owner, and only its owner is past `Take`. From it `RegistryStaysBounded` (the
sessions beyond the bound inject into jobs) and `ProviderIsAPool`: every step of
`Leases` is a step of `ClientPool` or leaves its state alone.

`FileServiceProofs` begins with the vault by itself: `VaultInvHolds` proves
`VaultInv` inductive. Only one editor is inside a transaction (`WriterIsInside`)
and what it read is still the row (`ReadIsCurrent`), so `Commit` writes what the
committed bodies amount to: `SavesAreKept`. The rest is layered. `Sound` (types,
and what a request knows at each place) is inductive by itself (`SoundAlways`),
and on it rest, each with its own invariant: `HintsNameWhoWrote` (the token in a
request's hands was in the vault), `RegistryIsAPool` (who uses a client holds the
lock; evictions spare what is linked now), `FilespaceIsTheOneNamed`
(`ListingsRecent`: a listing, kept or in flight, was true at a moment after it was
asked for), `OwnerIsRecentlyTheOwner` (`AnswersInv`: every cached verdict was
Supabase's within its time to live and the wait for it, whichever of two
verifications writes last) and `RegistriesStayBounded`. `ServiceKeepsTheVault`
shows `Spec => VaultSpec`, so that `ServiceKeepsTheSaves` follows from the vault's
own theorem.

Only model-checked: the liveness properties (`QueueDrains`, `GhostsForgotten`,
`FairTurns`, `MirrorCatchesUp`, `EveryUpdateIsAnnounced`, `LatestCatchesUp`,
`EveryFileGetsAVector`, `RequestsAreAnswered`, `GroupsCatchUp`,
`TargetsFollowTheChoices`, `EveryLeaseEnds`, `EveryRequestIsAnswered`), which need
fairness, and which communities `Communities` finds, beyond that they are apart
and made of the graph's nodes. Every invariant and every safety action property
that a passing run checks is stated by a theorem. A theorem that needs more than
the modules' `ASSUME`s says so in its statement; the runs check those properties
under the same conditions.

## Plan

Done: the ledger, scheduler, vector search, update monitor, file vectors,
discovery, folders, leases, vault, sign-in and file service, each with its proofs.
Next, in this order:

1. Composition of `Scheduler` and `IndexLedger`: a request is eventually followed
   by a scan that sees the change it is about.
2. `redeploy.sh` against crashes, a stale lock and a failed start.
3. `chunk_text` and the fusion of rankings as functions against a reference.
4. The modularity that `Partition` is meant to raise: no move lowers it.

## Not modelled

Ranking, answers, surveys, the assistant and related files are read-only
queries, heuristics and calls of language models. Text extraction and chunking
convert one file at a time; the embedder is an HTTP client over a
content-addressed cache, which `FileVectors` and `VectorSearch` use. The routes of
the indexer parse requests; the state they change is in the modules above. What a
file operation does inside a filespace is the SDK's. The deployment scripts are
shell around docker compose, one at a time under `flock`. The browser client keeps
no state shared with another actor.
