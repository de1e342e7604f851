# Verification of The Redirector

TLA+ modules that model the parts of The Redirector in which order, concurrency
and failure matter, or in which two pieces of code must agree; TLC
configurations that check them; and TLAPS proofs, for every value of the
constants, of every safety property the runs check. Everything is translated from the Go source; the documents are
quoted only where a run shows that the program does something else.

## Contents

1. [The system](#the-system)
2. [Modules](#modules)
3. [Runs, bounds and what they show](#runs-bounds-and-what-they-show)
4. [Where the code and its documents disagree](#where-the-code-and-its-documents-disagree)
5. [Proofs](#proofs)
6. [Only model-checked, not modelled](#only-model-checked-not-modelled)
7. [Plan](#plan)
8. [How to run](#how-to-run)

## The system

| Component | State | Operations | Works with |
|---|---|---|---|
| Version store, `internal/versioning/version.go` | ring of the last 10 versions, `current`, `count`, `nextVersion`; one mutex | `Add`, `Rollback`, `Get`, `Current`, `List`, `Previous` | called by the server |
| Audit log, `internal/versioning/audit.go` | the same ring, of 1000 events; its own mutex | `Log`, `LogConfigChange`, `Recent`, `Query` | called by the server |
| Redirect server, `internal/server/server.go` | `cfg` and `router` under an RWMutex, the two stores above, metrics | requests, `ReloadConfig`, rollback, management endpoints | reloads come from SIGHUP, the watcher and the API at once |
| Router, `internal/router/router.go` | immutable: map of exact rules, list of prefixes, list of patterns, host list | `New`, `IsAllowedHost`, `Match` | rebuilt by every reload |
| Watcher, `internal/watcher/watcher.go` | debounce timer, `lastReload`, pending path; one mutex | event loop, timer callback, `Stop` | calls the server's reload from timer goroutines |
| Sync command, `cmd/redirector-sync/main.go` | sources in priority order, health of the targets, counters | `SyncOnce` from the ticker and from webhooks; `-lint` | writes the file a redirector loads, tells redirectors to reload |
| Merging syncer, `internal/syncer/syncer.go` | sources, targets, `currentConfig`, last merge report | fetch in parallel, merge, watch, push | a library; no command uses it |
| Providers, `internal/providers` | ETag, generation, index, version or modification time last seen | `Fetch`, `Watch`, webhooks | used by both syncers |
| Rate limiter, `internal/ratelimit` | global, path and client token buckets, the map of clients | `Allow`, clean-up goroutine | in front of the handlers |
| Statistics, `internal/stats` | atomic counters, maps, histogram, ring of requests | `Record`, `GetRecentRequests`, `Reset` | called per request |
| Configuration, `internal/config` | none | load a file or directory, defaults, `Validate` | called by server and syncers |
| Linter, `internal/lint` | none | overlaps, redirect loops, conflicts between sources | gates the sync command |
| Authentication, `internal/auth` | none | authenticators tried in turn, permissions | wraps the management API |
| Metrics, logging, tracing, terminal UI | counters | observation | - |

What is hard to get right in it, component by component:

* **Version store.** Index arithmetic that shows its errors only after the ring
  has wrapped; a rollback that copies out of the slot it may overwrite. It is
  correct when the last versions, and only they, can be looked up, under numbers
  never reused and with contents never rewritten, each diff explaining the step
  from the version before.
* **Server.** No lock spans a reload or a rollback: swapping, recording, logging
  and counting are separate critical sections of different mutexes, and three
  triggers run them concurrently. It is correct when no version or audit event is
  lost or attributed to the wrong operation or person, when a burst of operations
  leaves one of its own configurations serving, and when a request overlapping it
  gets an answer some configuration explains.
* **Router.** Three stages with a sort between them whose comparison is not a
  weak order. It is correct when it finds a rule exactly if one covers the
  request, picks the best of a kind, and is undisturbed by unrelated rules.
* **Watcher.** A timer that may have fired when it is stopped, callbacks that
  drop out when too early, reloads outside the lock, half-written files. It is
  correct when no change goes unnoticed and what is served settles on what is on
  disk.
* **Sync command.** Two schedulers of one unsynchronised function, a temporary
  file they share, sources that come and go, targets that fail, a process that
  dies at any point. It is correct when what it publishes is whole and has been
  vetted, when it reports success only if all have it, and when it returns to
  the first source after an outage.
* **Merging syncer.** Concurrent syncs over one `Syncer`; rules of several teams
  that compete for a path, merged by a loop that keeps a list, two maps and a
  report in step; sources that fail and come back. It is correct when every rule
  of a source that answered is published or accounted for, when the priority
  decides, and when the newest merge is what stays.
* **Linter and configuration loading.** Predictions about what another package
  will do with the same rules: the router, and the merge. They are correct when
  what a client meets was foretold.
* **Providers.** A token remembered by one goroutine and compared by another,
  set before or after the content it stands for. A source is correct when the
  newest version reaches a reader and Watch never goes back in time.
* **Rate limiter and statistics.** A map under a lock that is upgraded by letting
  go of it; a `Reset` of many separate counters in the middle of requests. They
  are correct when a client cannot get a second bucket and when the counters
  agree with each other.

## Modules

| Module | Models | Correspondence |
|---|---|---|
| `Ring` | the slice, `current` and `count` both stores keep | a record and operators on it: `Push` is the write of `Add`, `Rollback`, `Log` and `LogConfigChange`, `SlotOf` and `NewestFirst` the walks of the readers |
| `VersionHistory` | what a version store promises | a window that slides, nothing else |
| `VersionStore` | `version.go` | every method holds the mutex throughout, hence one action per writer and one operator per reader |
| `Auth` | `internal/auth`, `requirePermission` | operators: who a request is from and what that allows |
| `ConfigServer` | `server.go` | one action per critical section; instantiates `VersionStore` for the store, extends `Ring` for the log and `Auth` for the callers |
| `Router` | `router.go` | `New` and `Match` as operators; the state machine grows a configuration rule by rule, so that the effect of one more rule is an action property |
| `Watcher` | `watcher.go`, the signal loop of `cmd/redirector` and the two steps of a reload | a tick of time, one action per step of the event loop, the timer and its callbacks |
| `FailoverSync` | `SyncOnce` and what it calls, `HTTPSource.Fetch`, `handleReload` as a target | one action per system call or request, inodes for the files |
| `ConfigLoad` | `config.go` | `Load`, `LoadDirectory`, `applyDefaults`, `Validate` as operators; the loop over the files by its rounds |
| `Lint` | the checks of `lint.go` that look at several rules | one operator per check, and the graph of redirects; a loop that fills a list is a recursive function of its rounds |
| `CycleSearch` | `findCycles` | the recursion as a state machine with an explicit stack: one action per turn of its loop |
| `Vetting` | `redirector-sync -lint`, and a client of the server | loads a directory, builds the graph, runs `CycleSearch`; `Router` is instantiated on the same rules and a client follows its answers |
| `MergeRules` | the merge of `fetchAndMerge`, and `MultiSourceLinter` | one operator for one rule; the two loops, over rules and over sources, by their rounds |
| `MergeSync` | `syncer.go` | ticker, webhook and watch goroutines; one action per answer of a source, per merge, per attempt at a target |
| `Sources` | `internal/providers` | one source of any kind; a fetch is up to four steps, done by Watch, a sync and a webhook at once |
| `RequestPath` | `ratelimit.go`, `stats.go`, and `handleRedirect` between them | one action per bucket, per critical section and per group of counters |
| `MC...` | - | the values of the constants TLC uses |
| `...Proofs` | - | lemmas and theorems |

`ConfigServer` composes `VersionStore`, `Ring` and `Auth`; `Vetting` composes
`ConfigLoad`, `Lint`, `CycleSearch` and `Router`; `MergeSync` stands on
`MergeRules`, `Lint` and `ConfigLoad`. `Watcher` and `FailoverSync` model of the
server only what they depend on: that a reload reads and then swaps, and that
the reload endpoint loads a file of the server's own.

Conventions. A configuration is a record of the parts the code compares. Faulty
variants of an operator or action (`PushOverNewest`, `OpenInPlace` and so on)
stand before the one they vary: each is a plausible slip that makes a property
fail, which shows that the property depends on the code being as it is. They take
no part in any specification. The names `Watcher` would share with `Sources` carry
a prefix (`WatcherInit`, `WatcherSpec`), so that one module of proofs extends both.

### What the models abstract

* **VersionStore**: timestamps and sources; of a source only the number of
  `rollback:` prefixes is kept. SHA-256 is taken as injective on what is hashed.
  A rule is its compared and its ignored fields.
* **ConfigServer**: `cfg` stands for `cfg` and `router`, replaced together under
  the lock, and `router.New` cannot fail. Loading takes any configuration,
  because the file may have been edited to anything since. `ledger` and `calm`
  are history variables that no action reads. `seen` in a request collects the
  configurations served while it ran. Counters of the metrics are left out.
* **Auth**: a token says of itself whether its signature verifies, whether it has
  expired, who issued it and for whom: what `jwt.go:87-111` checks. Reloads are not
  tied to a caller, because the code logs them all as "system".
* **Router**: strings are sequences of path parts; a regular expression is the
  set of paths it accepts; `sort.SliceStable` is the insertion sort it is on up
  to 20 elements, which matters because the comparison is not a weak order.
* **Watcher**: time is a tick and both clocks saturate, so time is unbounded in a
  finite state space. One watched path; `findConfigRoot` then always returns it. A
  file read while it is half written fails to load, or loads what there is of it,
  which counts as a content of its own.
* **FailoverSync**: a configuration is its source, a version and whether it
  parses and lints. Names of files point to inodes, because a writer keeps
  writing to the inode it opened when the name has moved on. A file is whole, or it
  is *torn*: of it is known only which configurations have pieces in it. What a torn
  file says is open, unless it is empty: it may parse and load, with rules no lint
  has seen together, or be refused. A write may fail after any part. `met` is
  history: whether two syncs have ever been at the file at once.
* **ConfigLoad, Lint, MergeRules**: a rule is the fields these read. A section is
  a number, 0 for absent, but for those whose fields the code tells apart: the server
  section has `port` and `management`, the defaults `status` and `preserveQuery`.
  `onlyOneFile` stands for the sections a directory drops. Patterns carry the paths
  they accept and, for a glob, its shape, which is what the code takes apart; patterns
  have no captures.
* **Vetting**: a client follows every redirect the router answers with, the suffix of
  `preserve_path` included. Which loops a property speaks of is in its premise:
  `LoopsAreReported` and `PatternLoopsAreWarned` of those whose rules append nothing,
  `GrowingLoopsAreReported` of those in which one rule that appends answers itself.
* **CycleSearch**: `seen`, the keys of the cycles reported, is derived from the
  cycles. `finished` and `clock` are history.
* **MergeSync**: `doPush` sends no body, so a push is an attempt that succeeds or
  fails. A source may be `tagged`, as `http`, `github` and `gitlab` are: it keeps what
  it last answered and says "not modified" to that, which `Fetch` makes an error, and
  it keeps it before the body has been read. Merges are a set computed from the
  constants, for speed.
* **Sources**: versions of the store are numbered and each is its own token. A
  fetch of a hierarchy reads one page. `lost` is history: the newest of the versions
  the code itself let go, each by one of the ways `Obtained` lists. `lapsed` says that
  etcd has compacted its history after the revision remembered; the revisions other
  keys add are nothing but that.
* **RequestPath**: which rule answers is left to `Router`; a request carries the
  status it gets. A tick fills the shared buckets and adds to those of clients.
  `since` in a request and `lag` are history: how long a request has held, or
  ever held, a limiter it had found and not yet used.

## Runs, bounds and what they show

Passing runs:

| Run | Shows | Bounds and why they are enough |
|---|---|---|
| `version_store` | the ring retains, numbers, finds and explains versions correctly and implements `VersionHistory` | ring of 3, 6 versions: the ring wraps twice, at every fill level both writers run |
| `server` | nothing is lost or misattributed when two operations interleave; a burst leaves one of its configurations serving; the parts agree when only one recorded anything; overlapping requests are explained by what they saw; a rollback is logged under a name that may roll back | 2 operations at a time and a request, ring of 2 and 4 versions, so that versions are evicted between lookup and rollback; a log of 3, so that it is full before the last version is logged; 2 configurations of which one serves a host the other rejects; 10 callers: by key, by address, by a token with and without the permission, and by tokens that claim it and have one fault each (signature, expiry, issuer, audience) |
| `watcher` | no change is forgotten, even with slow reloads, SIGHUP and `Stop`; quick reloads do not overlap; without overlap what is served settles on what is on disk | 2 edits of 2 events each, 3 callbacks, 1 signal handler, debounce of 2 ticks: a callback, its successor and a third one that is dropped |
| `router` | only covering rules answer, no request without a port is missed, early rejection is harmless, best of its type, unrelated rules are neutral | all configurations of up to 3 of the rules: three is what it takes to put a rule between two others; a host with a port among those requested and one among the rules' |
| `failover_safety` | what is published is whole and vetted; success and health mean what they say | 2 sources, 2 targets, one retry, one edit, a restart at any step, failing disk |
| `failover_race` | two concurrent syncs publish not even a part of what was refused, and a torn file only after they have met at it | ticker and webhook, 1 source, 1 target, one edit, failing disk |
| `failover_recovers` | the first source prevails after outages | 2 edits, any number of outages; no ETag |
| `vetting` | loops of two or more rules that append nothing were reported, a rule that appends and answers itself too, loops of up to two with patterns warned of; a rule that never answers has a warning; the search reports cycles and only cycles; a directory is the one file with its contents, but for the sections the merge drops | every sequence of up to 3 of 19 rules over 2 hosts and 4 paths: three rules make a loop with a rule in its way; and every sequence of up to two files that leave out sections, a port, IDs, types or statuses |
| `merge_sync` | a merge accounts for every rule, priority decides, the linter foretells conflicts but for the pairs it does not look for, the newest merge prevails if no source keeps an ETag | 2 sources with up to two rules each, of every type the linter compares, 5 setups: prefixes and none, allowed paths, equal priorities, the modes "priority", "first" and "error" with and without validation, a source with an ETag; 2 events among edits, failures and webhooks: an edit during an overlapping sync, a failure during a retry |
| `sources` | the newest version is obtained, unless it is the very one the code let go; Watch never goes back | all 12 kinds, 4 versions of which one does not parse and one drops a parameter: one can be lost and the next still be obtained; 3 events among fetches by others, failed calls and bodies, broken watches and compactions: an older answer that overtakes a newer takes a sync beside Watch, a cancelled watch that recovers a compaction, a broken watch and a fetch |
| `request_path` | a client stays within its rate as long as limiters outlive their use; counters agree; the live view shows the newest | 3 requests, so that one reads while another creates and a third cleans up after; burst of 1 and buckets of 3, 2 and 1; a ring of 2 that wraps; one operation of the operator at any step |

Deadlock is checked except in the modules that stop by design: the bound on
versions in `MCVersionStore`, on rules in `Router`, on requests in
`RequestPath`; `Vetting`, which ends when the search does; `Watcher`, which rests
when nothing is edited any more; and `Sources`, where a file that does not change
leaves nothing to do. No run keeps a type invariant: the one that is needed, of
`VersionStore`, is proved, and the others are conjuncts of the inductive
invariants below.

### Fairness

`Watcher`, `FailoverSync`, `MergeSync` and `Sources` have liveness properties.

* `Watcher` assumes weak fairness of the event loop, the timer, each callback,
  each reload and of time. The Go scheduler runs every runnable goroutine, a
  timer fires, and a load of local files ends. Nothing is assumed of editors and
  signals. `HotReload` is conditional: no two reloads ever in progress at once,
  the file whole, the watch alive and the watcher running; it then says that what
  is served stays what is on disk. `NoOverlap` says when the first condition
  holds among the watcher's own reloads: as long as each takes less than the
  debounce period. `slow` and `overlapped` are history variables for the two.
* `FailoverSync` assumes weak fairness of the steps of the ticker loop. A ticker
  ticks, `http.Client` has a timeout, retries are counted. Nothing is assumed of
  webhooks, edits and outages.
* `MergeSync` assumes weak fairness of the ticker and of each goroutine's next
  step, for the same reasons. Edits and failures are bounded, which is how "once
  troubles end" is said; webhooks and watched changes need not come.
* `Sources` assumes weak fairness of the tickers, of etcd's retry of a cancelled
  watch, of every step of a fetch, of the reader of the channel, and for an HTTP source of the sync that polls it
  (nothing else does). Strong fairness is assumed of two steps: of `Send`, because a
  goroutine blocked on a channel is served when there is room, and of `Relay`,
  because `select` chooses at random among the cases that are ready, so that the
  ticker of a git source cannot keep it from its webhooks for ever.

## Where the code and its documents disagree

One run finds a behaviour of the code that contradicts a document:

| Run | The code | The text |
|---|---|---|
| `failover_not_modified` | 304 counts as a failure: the sync after the one that published the first source publishes the backup, which stays until the first source is edited | "Failover: Use backup when primary fails" (`FEATURES.md:537`) |

`failover_recovers` is the other side: the same property holds when no source
keeps an ETag.

### Also noticed

The models contain these behaviours too, as the code has them, or leave out the
code in question; no run is devoted to them. Where a document says otherwise, the
property concerned has a premise that leaves the case out, and without the premise
TLC finds it: the ports, the ranking and the length of prefixes in `router`, the
loops and the server section in `vetting`, the hosts of exact rules and the sources
that say "not modified" in `merge_sync`.

*Server and versions*

* Reload swaps and then records, rollback records and then swaps; overlapping,
  they can leave a current version that is not the one served (`server.go:738`,
  against `version.go:94`). `DivergenceBounded` states what still holds.
* A request admitted under one configuration and matched under the next can get a
  404 neither would give (`server.go:359-375`), and `/config` can report the
  version of one with the count of another (`server.go:682`). `AnswerExplained`
  states what still holds.
* A rollback does not refresh the rule count gauge (`server.go:1050-1062`), and
  overlapping reloads can leave two `config_info` series at 1
  (`metrics.go:221-224`).
* The configuration hash covers the version string, the rule count and the server
  section only (`version.go:188`); the diff ignores `PreservePath`,
  `PreserveQuery` and headers of a rule (`version.go:255`) and all but `Enabled`
  of the authentication section (`version.go:285`).
* An address of the allowlist gets no principal, so a management endpoint that
  asks for a permission answers it 401 (`server.go:638`); the authentication
  section of a reloaded configuration has no effect until the next start; every
  reload is logged as "system", whoever asked for it.

*Router*

* A rule of another type between two prefixes of one priority leaves the shorter
  in front (`router.go:41`, against the comment at line 158).
* Exact rules are tried before prefixes and these before patterns whatever their
  priority, and regexes and globs are one list, where of equal priority the first of
  the file wins (`router.go:119`, against `RULE_TYPES.md:254-257`: "Priority field",
  then "exact > prefix > regex > glob"). Of several exact rules
  with one key the last in sorted order stays, which is the one of *lowest*
  priority and last in the file (`router.go:62`, against `RULE_TYPES.md:259`).
  `BestOfItsKind` therefore compares rules of one type, and not exact ones.
* The host check strips the port, the match does not: a request to
  `example.com:8080` passes the check and matches no rule for `example.com`
  (`router.go:91` and `162`, against `RULE_TYPES.md:177`). `MissesNothing` says that
  nothing is missed of hosts without a port only.

*Watcher and sync command*

* A reload slower than the debounce period is overtaken by the next and may put
  the older content back (`watcher.go:169`); a watched *file* that is replaced by
  a rename is never loaded again (`watcher.go:103`). They are the two conditions
  of `HotReload`.
* Two concurrent syncs share `path.tmp`, so a torn file can be renamed into place
  (`main.go:858`, against "Use atomic write" at line 162): an empty one, the start of
  one, or one with the tail of another, longer one. If it happens to parse, a
  redirector serves it, and no lint has seen those rules together.
  `OnlyVettedIsPublished` says how bad it gets: all its parts are of configurations
  that parsing and lint let pass, and the two syncs have met at the file before.
* The reload endpoint ignores the body a push sends (`server.go:901`, against
  `main.go:890`).

*Configuration and linter*

* `LoadDirectory` says "Later files can override rules with the same ID"
  (`config.go:211`); `Validate` refuses two rules with one ID. It drops `auth`,
  `tracing` and `rate_limit`, defaults that set `preserve_query` only, and a server
  section that sets a management port and no port (`config.go:261`, against "Take
  server config from first file that has it" the line before). These are the premises
  of `DirectoryIsOneFile`.
* An exact rule that redirects to its own path is never reported: the graph has no
  edge from a rule to itself (`lint.go:502`) and leaves it to a check that looks at
  prefix rules only. Nor is a loop of several rules of which one has
  `preserve_path`, `/old/` to `/new/` with the suffix and `/new/x` back to `/old/x`:
  the graph knows destinations without suffixes (`lint.go:490`), and the check for
  `preserve_path` looks at one rule (`SYNCER.md:403-404` claims "Full cycle detection"
  of exact rules and of prefixes "`preserve_path` self-loop detection").
* The linter looks at no host and no priority, so it also warns
  of loops that cannot happen, and two exact rules for one path get no warning
  when their priorities differ, although one of them never answers.
* `checkUnreachableRules` calls exact rules behind a prefix unreachable
  (`lint.go:313`), which the router tries first. Nothing calls `shortform.go`.
* "Glob catch-all can overlap with anything" (`lint.go:1061`), but of another
  source's prefix rules only those below the glob's base are looked for: a prefix
  above it is not named. "Exact matches don't overlap unless identical"
  (`lint.go:1037`), but an exact rule for all hosts and one of another source for one
  host on the same path fit one request and are named neither as a shared path nor as
  an overlap. `LintForesees` excludes these pairs, regexes, and globs other than a
  trailing `/**`, by name (`Unforeseen`).

*Merging syncer*

* In mode "priority" the rules of the highest priority win, but the server
  section and the defaults are those of the lowest that has them
  (`syncer.go:426-438`).
* A source that fails is left out of the merge without an error, and its rules
  with it (`syncer.go:380`). For `http`, `github` and `gitlab` "not modified" is such
  a failure, so the rules of a source that does *not* change disappear with the second
  sync, until it is edited; `Converges` speaks of sources that keep no ETag.
* Two rules of one source with one path conflict with each other. Sources without a prefix may use the same ID, which fails the validation and is
  not foretold by the linter. The order of equal priorities is left to an
  unstable sort. `doPush` sends no body. A slow older sync may finish last, which
  the next tick repairs; `Converges` says so.

*Providers*

* Not modified is an error for `http`, `github` and `gitlab` (`http.go:132`). They
  keep the ETag before they read the body, so a body that fails takes its version with
  it (`http.go:141-148`, `github.go:682-693`, `gitlab.go:538-545`), and several remember
  the token before they know that the content parses.
* `file` and `gcs` ask for the token after the content (`file.go:82`,
  `gcs.go:186`), so a version written in between is never noticed; the file source skips
  a version when its channel is full (`file.go:123`), and the git sources a
  webhook's (`github.go:812`), which they may also relay after a newer poll. An
  etcd source without a revision watches from now on and misses what was there
  (`etcd.go:267`); it takes the revision of the response for that of the event. A watch
  cancelled because the revision after the one remembered has been compacted is asked
  for again at that same revision, once a second, until a fetch remembers another
  (`etcd.go:291`). `Obtained` excuses the very version each of these lets go, the body
  above included, and for etcd the time of such retries: the next version must be
  obtained.
* A parameter deleted from a hierarchy counts as a change for ever
  (`parameterstore.go:465`).

*Limiter and statistics*

* `getIPLimiter` lets go of the map before `Allow` takes the token, so a request
  held up in between for longer than `IPTTL` uses a limiter the clean-up has
  dropped, while others use a new and full one: the client gets more than its
  bound (`ratelimit.go:196-199` and `278-304`). `RateIsBounded` therefore has a
  premise: the time a limiter is kept, less the longest such delay (`lag`), must
  be enough to fill a bucket.
* A request that the path's or the client's bucket refuses has used the global
  one's token (`ratelimit.go:185`); which of two wildcards limits a path is left
  to the order of a map (`ratelimit.go:265`); `lastAccess` is written under the
  read lock (`ratelimit.go:281`).
* A `Reset` that overlaps a `Record` can leave more errors than requests
  (`stats.go:368`), and replaces its maps without a lock; a sampling rate above
  one half records every request (`stats.go:139`).

## Proofs

Assumptions are the named `ASSUME`s of the modules, which TLC evaluates in the
runs. They say that

* capacities, bursts, rates, the sampling interval and the debounce period are
  positive, and bounds and time limits natural numbers (`MaxVersions`, `Sizes`,
  `Debounce`, `N`, `Attempts`, `EditBound`, `NoRule` for `RuleBound`): the constructors and the defaults of
  the flags see to it;
* model values that stand for nil differ from the data (`NoVersion`, `NoChanges`,
  `Nil`, `None`, `Off`, `NoRule`), and
  0 is not a request (`Inputs`);
* inputs have the types of the Go structs (`Inputs`, `Keys`, `Sources`, `Kinds`,
  `Rules`, `Setups`, `Contents`, `Paths`, `Directories`); of these, that sources of a
  merge differ in their names, which in the model stand for their places in the
  list, that the mode of a merge is one of the three documented
  (`syncer.go:74-76`), that an exact or prefix rule has a path, as `Validate` sees
  to, that a glob accepts nothing outside what stands before its stars, and that the
  hosts requested include those the rules name;
* jobs are finitely many (`Jobs`), and the goroutines of the watcher and of
  SIGHUP are different ones (`Goroutines`).

There is no bound on the size of anything. Three theorems of the sync command have
one more hypothesis, that syncs run one at a time; see there.

**Version store** (`VersionStoreProofs`), bottom up:

1. A number below twice the modulus is reduced by at most one subtraction
   (`ModTwice`); all index arithmetic of the ring is of this kind
   (`SlotOfWraps`).
2. `Push` keeps a ring a ring (`PushType`), makes its element the newest and
   moves every other one place back (`PushShifts`).
3. If the ring holds the last versions before number *n*, newest first, then
   after pushing an entry numbered *n* it holds the last before *n + 1*
   (`PushHoldsLast`), and `Get` is arithmetic: version *v* is *n - 1 - v* places
   behind the newest, or evicted (`FindIsArithmetic`).
4. `Add` and `Rollback` push a well-formed entry with the next number
   (`WritersStoreEntries`). For `Rollback` this needs the invariant itself: only
   because the ring is consecutive is the slot at `current` not nil when it is
   diffed against.

The inductive invariant is `IInv == TypeOK /\ Consecutive`. Neither half is
inductive alone, for the reason of step 4 and because the bounds of the indices
are in `TypeOK`. From it follow `TypeCorrect`, `RetainsTheLast` (`Consecutive`),
`Immutable` (`HistoryIsImmutable`, by comparing `Get` before and after a push with
the arithmetic of step 3), `LookupsAreConsistent` (`LookupsAgree`, the same
arithmetic for each of the readers) and `Refinement` (`ImplementsHistory`: pushing
slides the window of `VersionHistory`, `Add` maps to `Load` and `Rollback` to
`Restore`). `ChangesExplain` (`ChangesChain`) has an invariant of its own about
neighbours in the ring: of two that are adjacent, the newer carries the diff from
the older. It is kept because both writers diff against the slot at `current`, which is
the entry about to become the newer one's neighbour.

**Server** (`ConfigServerProofs`), for any number of goroutines and requests, both
capacities, any configurations, callers and keys. `StoreIsVersionStore` says that
every step of the server is a step of `VersionStore` or leaves the store alone, so
the invariant of the store and the lemmas about it hold inside the server; they
are taken over by instantiating `VersionStoreProofs`. On top of it stand layers,
each using those before:

| Layer | Says | Gives |
|---|---|---|
| `TypeInv` | types, and that an operation has what its next step needs (`Equipped`) | |
| `LedgerInv` | the ring holds the end of the ledger | `LedgerIsFaithful` (`LedgerAgrees`) |
| `PendingInv` | a version recorded and not yet logged is in the ledger, under a number of this burst; for a rollback, with the configuration of the version asked for | `RollbacksRestore` (`RollbackRestores`) |
| `ServingInv` | what is served was served before the burst, has been recorded in it, or is about to be recorded or replaced | `DivergenceIsBounded` (`DivergenceBounded`) |
| `AgreementInv` | while at most one operation has recorded, everybody else is before their own write | `ViewsAgree` (`Agreement`) |
| `AuditInv` | every version is logged or pending, once and in one of the two ways; while the log has room, none is missing | `AuditIsExact` (`AuditedExactlyOnce`) |
| `RequestInv` | a request under way has seen what is served now, and the configuration that admitted it | `AnswersAreExplained` (`AnswerExplained`) |
| `ActorsInv` | an operation past the permission check, and every rollback logged, carries the name of a configured key, or of a genuine, unexpired token of the right issuer and audience, that has the permission to write | `RollbacksAreAccountable` (`RollbackIsAccountable`) |

None of the properties is inductive: each speaks of one moment (all idle, answered,
logged), and what makes it true then is what the critical sections leave pending
between them. `AuditInv` needs a counting argument: a log with a version still
pending cannot be full of the others (`PendingHasRoom`).

**Request path** (`RequestPathProofs`), for any number of requests and clients and
any parameters.

* `RateLimited` (`RateIsBounded`). `LimiterInv` says which references there are and
  whose: a client has one limiter in the map at most, and a request at its bucket
  refers to one that is the client's and is in the map, unless it found it longer
  ago than the clean-up tolerates. `BoundInv` is the ledger of tokens: what was admitted, plus what a live
  limiter still has, is within the burst and what time has added; a limiter that
  has been dropped was not used for long enough to be full again, so that a full one in
  its place adds nothing. The premise about `lag` is used there and nowhere else.
* `CountersAreExact` (`CountersAgree`). `CountersInv` says that each counter is the
  number of the requests it stands for, those between their two groups of counters
  being counted in one and not yet in the other, and how far a `Reset` under way
  has got.
* `LiveViewIsRight` (`LiveViewIsNewest`). `RingInv` says where the newest *i*-th
  record is, behind the head and around the end, and that the places not used since
  the last `Reset` are empty.

**Linter and loading** (`VettingProofs`), for any directories, rules and hosts.
First the search for loops, of any graph. `SearchInv` says what recursion keeps
implicitly: the gray nodes are those on the stack, once each (`GrayOnStack`); each
was called over the edge the one below looked at last (`StackIsPath`); and every
edge looked at so far leads to a node that finished earlier, or is being called
over, unless a cycle has been reported *around the node it starts from*
(`LookedAtIsSettled`). `ReportedCyclesAreReal` follows from the first two: the
stack from the node come back to is a path, and the edge closes it.
`SilenceIsJustified` follows from the third: without a report the finishing times
decrease along every edge, so no cycle is possible. That the third speaks of the
node and not of any report at all is what the loops below need, because the search
does not report every cycle: around a walk in a circle it has reported one at the
end (`CircleIsReported`), or else the finishing times would fall all the way round.

`VettingInv` adds what each stage of the command has made of the directory, and
what is loaded is well-formed because the files are (`Loaded`). On it rest

1. `LoopsAreForetold` (`LoopsAreReported`), of loops of rules that append nothing.
   A client that goes on after as many
   redirects as there are pairs of a rule and a host has been where it is (`Repeats`, by
   counting), so the rules it meets lie on a ring (`LoopIsRing`); a rule that
   answers covers the request (`MatchIsSound`, from the proofs of `Router`,
   which are instantiated), and what it covers the linter sees (`AppliesMatches`), so the
   ring is a walk in the graph, and `CircleIsReported` applies.
2. `PatternsAreForetold` (`PatternLoopsAreWarned`), of such loops, patterns without
   captures among them: on a ring of two every rule is the
   other's successor and predecessor (`TwoAtMost`).
3. `GrowthIsForetold` (`GrowingLoopsAreReported`) and `SilenceIsForetold`
   (`SilencedIsWarned`), from `MatchIsSound` alone.
4. `DirectoriesAreFiles` (`DirectoryIsOneFile`): after each file the merge has the rules of
   the files so far, one after the other (`MergedIsFlattened`), and of each section the
   first that is set, where set means what the code asks: a status of the defaults, a port
   of the server; where it is set once that is the only one (`FirstIsOnly`).
   Applying the defaults and numbering the rules then starts from the same
   configuration on both sides.

**Merging syncer** (`MergeSyncProofs`), for any finite sets of sources, any rules,
targets, retries, edits and failures. A merge is a loop over sources round a loop over rules.
`MergeInv` says what holds after each round, of the pairs of a source and a rule
met so far: the list has one rule for a path key, and the owner of the key is
recorded; an owner outranks all others that may have its key; every
conflict is between two such pairs; and every pair is published, named in a
conflict, or skipped as its source is not allowed its path. One rule keeps it, by
the four cases of the loop's body (`MergeRuleInv`), and so do the rules of a source
(`MergeSourceInv`) and the sources (`MergeAllInv`). None of these parts can be left out: that the
loser of a conflict is named depends on the owner on record being a rule that was met,
and that removing it by its key removes it and nothing else depends on
the keys being unique. `SyncInv` says that what a sync holds is the merge of what
it fetched, whatever overlaps with it. `NothingIsLost` (`NothingLost`) and
`PriorityDecides` (`WinnerByPriority`) follow. `ConflictsAreForeseen` (`LintForesees`)
adds that rules of two sources that one path matches cover each other in one
direction or the other (`MatchingRulesCover`), which is where the pairs the linter
does not look for (`Unforeseen`, exact rules for all hosts and for one among them) are
excluded. `OnlyAcceptedIsCurrent` (`CurrentIsAccepted`) is the
safe half of `Converges`: the merge `SyncInv` finds behind a sync that pushes is one
that was accepted, and only the end of such a sync changes what is current. It is
stated in `MergeSyncProofs` and proved; no run checks it.

**Watcher** (`ChangeProofs`), for every debounce period and any goroutines.
`NoChangeForgotten` is not inductive: a callback that drops out must not be the
last hope. `ReadIsComing` strengthens it: a timer that is set, or a callback
that has fired, is late enough not to be dropped, since it was started after the last
reload began, unless a reload is reading right now. `ReloadIsRecent` does the same
for `NoOverlap`: a reload that is not slow began less than a debounce period ago.

**Sources** (`ChangeProofs`), for every number of versions and of fetches by
others. `NeverBackwards` compares two received versions with the whole pipeline in
between: `InOrder` says that what was received, what is in the channel, what is on
its way and what is in the store are in that order. It needs no invariant about
the token: whatever a sync does to it, Watch fetches afresh.

**Sync command** (`FailoverSyncProofs`), for any finite number of concurrent
syncs, any sources, targets and retries. Of `OnlyVettedIsPublished` the first two
parts are strengthened by
`Vetted`: what a sync holds has been parsed when it is at the lint and linted when
it is at a file or a target, and what is torn is made of such pieces. The inodes are a finite set and one is always free
(`Spare`, by counting), so that opening a temporary file takes nobody else's. The
third, that with renaming a torn file is not published before two syncs have met at
the file, has an invariant of its own, `AloneInv`: until then one sync at most is at
the file, the temporary file is not the published one, and what is about to be renamed
is whole. That a torn file might load is used against the theorem, not for it: in the
model it may.

Two syncs that overlap can publish a torn file (see [above](#also-noticed)), so
more than that holds only when they do not: `OneAtATime` says that there is one
goroutine that syncs, which is `redirector-sync` without a webhook, and that the file
is replaced by a rename, which is the setting `output.file.atomic` (without it a
crash can leave any file torn). Under this hypothesis `FileIsGood` (`OutputIsGood`),
`SuccessIsTrue` (`SuccessIsServed`, with both outputs) and `HealthIsTrue`
(`HealthyIsCurrent`) hold for any sources, targets, retries, failures and restarts.
Two syncs then never meet, so `AloneInv` always applies; `SoloInv` adds that nothing
has been pushed before its time, that a reported success has left file and targets with
its data, and that a target is settled by this round of pushes or still waiting for it.

**Router** (`RouterProofs`), for any rules and any number of them, any hosts and
paths. `Sorted` says what the insertion sort has after each of its rounds; as a
function over the numbers up to the length it lends itself to proof by the least
round that goes wrong (`LeastNatural`), which is how induction is done here.

1. A round puts the next rule where it stops, and moves nothing else
   (`InsertStops`, `InsertedAt`). Hence after every round the list has all rules so
   far, by priority, and those that are not prefixes in the order of the file
   (`InOrder`, `SortedInOrder`). This is all that survives of a comparison that is
   not a weak order: of two prefixes of one priority the shorter may be in front.
2. Each stage of `Match` is the first, or for the map of exact matches the last,
   rule of the sorted list that belongs to a set (`StagesOfMatch`; `FirstOf`,
   `LastOf`), and `Match` is the first stage that finds one
   (`MatchIsFirstStage`).
3. The set is empty exactly if no rule of the kind covers the request, because the
   sorted list has every rule. This gives `NothingIsMissed` (`MissesNothing`, for hosts
   without a port) and
   `ShortCutIsHarmless` (`RejectionIsHarmless`). With the order of step 1 it gives
   `BestAnswers` (`BestOfItsKind`, among rules of one type).
4. One more rule at the end of the file is one more round, and what it inserts is
   not looked at for a request it does not cover (`RoundsAgree`,
   `InsertedAside`, `OthersApply`): `UnrelatedIsNeutral`
   (`UnrelatedRuleIsNeutral`).

The first two theorems would hold for any sort that keeps the rules. The other two
are about the insertion sort, which is what `sort.SliceStable` does with up to 20
rules; it sorts longer lists in blocks of 20 that it then merges, and with this
comparison the merge need not give the same list.

## Only model-checked, not modelled

Only model-checked:

* All liveness (`HotReload`, `PrimaryPrevails`, `Converges`, `Obtained`), which
  needs fairness and `ENABLED`, and is out of the provers' reach.
* What two overlapping syncs of the sync command do to success and health: nothing
  is claimed about it. Of what they publish, see `OnlyVettedIsPublished`.

The loops of the code are recursive functions over the number of rounds. The
induction theorems of the library take an operator as a parameter, which the
provers cannot instantiate; the proofs take the least round that goes wrong
instead (`LeastNatural`).

Not modelled: parsing of YAML and JSON, regular expressions, TLS, signatures of
tokens and webhooks and the wire protocols of the providers, which are data or
libraries; logging, tracing, counters and the terminal UI, on which nothing
depends; several watched paths, which no command configures; `shortform.go`,
which nothing calls; the linter's hints on style and its checks of duplicate IDs,
unreachable rules and missing defaults, each of which looks at one list once; the
single-endpoint push and the dry run of the sync command; `Stop` and `Close`.

## Plan

Done: all modules of the table above, with the proofs listed.

Worth modelling next: the merges of `sort.SliceStable` beyond 20 rules; a bound on
how long an older sync's file stays published; `Summary` of the statistics beside
`Record`; the checks of the linter that look at one list once, and its cycles of
more than two rules with a pattern among them, which it does not look for.

## How to run

    tlc -config VersionStore.cfg MCVersionStore.tla
    tlapm VersionStoreProofs.tla

and likewise for the other pairs of `PROJECT.json`. Each run takes at most two
minutes on two workers, each proof a few.
