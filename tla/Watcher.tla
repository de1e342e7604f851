------------------------------- MODULE Watcher -------------------------------
(***************************************************************************)
(* internal/watcher/watcher.go as cmd/redirector uses it: one watched      *)
(* path, file-system events, the debounce timer, its callbacks, and the    *)
(* reloads they and SIGHUP start.  It composes with the two steps of       *)
(* Server.ReloadConfig that matter to what is served: reading the files    *)
(* and replacing the configuration.                                        *)
(*                                                                         *)
(* Time is a tick: "timer" counts down to the firing of w.timer and        *)
(* "sinceReload" counts up from w.lastReload, both saturating, so the      *)
(* state stays finite without a bound on time.  A timer may fire late and  *)
(* a goroutine may be slow between any two of its steps.                   *)
(*                                                                         *)
(* Contents are numbered in the order they are written.  While the file is *)
(* being written a reader gets a part of it, which may load or not: YAML   *)
(* that stops after a complete rule is YAML.  With one watched path        *)
(* findConfigRoot always yields that path, so pendingPath is left out.     *)
(***************************************************************************)
EXTENDS Integers, FiniteSets

CONSTANTS
  Debounce,      \* ticks, the -watch-debounce flag
  Callbacks,     \* goroutines for fired timers
  Hups,          \* goroutines reloading on SIGHUP
  WriteBound,    \* the file is edited no more often than this
  Off            \* no timer armed

ASSUME DebounceAssumption == Debounce \in Nat \ {0}

ASSUME OffAssumption == Off \notin Nat

ASSUME GoroutinesAssumption == Callbacks \intersect Hups = {}

VARIABLES
  disk,          \* [content, whole]: the newest content and whether it is complete
  directory,     \* the watched path is a directory, not a file
  watching,      \* the kernel still reports changes of the watched path
  pending,       \* relevant events not yet received by processEvents
  timer,         \* ticks until w.timer fires, or Off
  sinceReload,   \* ticks since w.lastReload, at most Debounce
  job,           \* the reload each goroutine is in
  served,        \* what the server serves: a content, or a part of one
  loaded,        \* history: what was on disk when a reload last read it
  slow,          \* history: a reload of the watcher took a debounce period
  overlapped,    \* history: two reloads were in progress at once
  stopped        \* processEvents has returned

history == <<slow, overlapped>>
watcherVars == <<disk, directory, watching, pending, timer, sinceReload, job, served, loaded,
                 history, stopped>>

Goroutines == Callbacks \union Hups

Busy(g) == job[g].pc # "idle"

Reloading(g) == job[g].pc \in {"reloading", "read"}

NoteOverlap(g) == overlapped' = (overlapped \/ \E h \in Goroutines \ {g} : Reloading(h))

First == [content |-> 0, whole |-> TRUE]

WatcherInit ==
  /\ disk = First
  /\ directory \in BOOLEAN
  /\ watching = TRUE
  /\ pending = 0
  /\ timer = Off
  /\ sinceReload = Debounce
  /\ job = [g \in Goroutines |-> [pc |-> "idle"]]
  /\ served = First
  /\ loaded = First
  /\ slow = FALSE
  /\ overlapped = FALSE
  /\ stopped = FALSE

-----------------------------------------------------------------------------
(* The editor and the kernel                                               *)

Notify == pending' = IF watching THEN pending + 1 ELSE pending

(* A write in place: the file is incomplete until the writer is done.      *)
WriteBegin ==
  /\ disk.whole
  /\ disk.content < WriteBound
  /\ disk' = [content |-> disk.content + 1, whole |-> FALSE]
  /\ Notify
  /\ UNCHANGED <<directory, watching, timer, sinceReload, job, served, loaded, history, stopped>>

WriteEnd ==
  /\ ~disk.whole
  /\ disk' = [disk EXCEPT !.whole = TRUE]
  /\ Notify
  /\ UNCHANGED <<directory, watching, timer, sinceReload, job, served, loaded, history, stopped>>

(* A rename over the file, as redirector-sync's atomic output does it.  A  *)
(* directory reports the new name as Create.  A watched file loses its     *)
(* inode: the kernel reports Remove, which processEvents skips, and drops  *)
(* the watch.                                                              *)
Replace ==
  /\ disk.whole
  /\ disk.content < WriteBound
  /\ disk' = [disk EXCEPT !.content = @ + 1]
  /\ IF directory
       THEN Notify /\ UNCHANGED watching
       ELSE watching' = FALSE /\ UNCHANGED pending
  /\ UNCHANGED <<directory, timer, sinceReload, job, served, loaded, history, stopped>>

-----------------------------------------------------------------------------
(* The watcher                                                             *)

(* ReceiveEvent with the events right after a reload skipped, as if the    *)
(* debounce were a rate limit.                                             *)
ReceiveEventThrottled ==
  /\ ~stopped
  /\ pending > 0
  /\ pending' = pending - 1
  /\ timer' = IF sinceReload < Debounce THEN timer ELSE Debounce
  /\ UNCHANGED <<disk, directory, watching, sinceReload, job, served, loaded, history, stopped>>

(* processEvents takes an event; scheduleReload stops the timer, which has *)
(* no effect once it has fired, and starts another (lines 96-151).         *)
ReceiveEvent ==
  /\ ~stopped
  /\ pending > 0
  /\ pending' = pending - 1
  /\ timer' = Debounce
  /\ UNCHANGED <<disk, directory, watching, sinceReload, job, served, loaded, history, stopped>>

(* Time passes.                                                            *)
Tick ==
  /\ timer # Off \/ sinceReload < Debounce
  /\ timer' = IF timer \in {Off, 0} THEN timer ELSE timer - 1
  /\ sinceReload' = IF sinceReload < Debounce THEN sinceReload + 1 ELSE Debounce
  /\ slow' = (slow \/ (sinceReload' = Debounce /\ \E k \in Callbacks : Reloading(k)))
  /\ UNCHANGED <<disk, directory, watching, pending, job, served, loaded, overlapped, stopped>>

(* The timer fires and its function starts in a goroutine of its own.      *)
Fire(k) ==
  /\ timer = 0
  /\ ~Busy(k)
  /\ timer' = Off
  /\ job' = [job EXCEPT ![k] = [pc |-> "fired"]]
  /\ UNCHANGED <<disk, directory, watching, pending, sinceReload, served, loaded, history, stopped>>

(* doReload, lines 155-162: too soon after the last reload, or go ahead.   *)
Drop(k) ==
  /\ job[k].pc = "fired"
  /\ sinceReload < Debounce
  /\ job' = [job EXCEPT ![k] = [pc |-> "idle"]]
  /\ UNCHANGED <<disk, directory, watching, pending, timer, sinceReload, served, loaded, history, stopped>>

(* BeginReload with no regard to the last reload.                          *)
BeginReloadUnchecked(k) ==
  /\ job[k].pc = "fired"
  /\ sinceReload' = 0
  /\ job' = [job EXCEPT ![k] = [pc |-> "reloading"]]
  /\ NoteOverlap(k)
  /\ UNCHANGED <<disk, directory, watching, pending, timer, served, loaded, slow, stopped>>

BeginReload(k) ==
  /\ job[k].pc = "fired"
  /\ sinceReload >= Debounce
  /\ sinceReload' = 0
  /\ job' = [job EXCEPT ![k] = [pc |-> "reloading"]]
  /\ NoteOverlap(k)
  /\ UNCHANGED <<disk, directory, watching, pending, timer, served, loaded, slow, stopped>>

(* Stop, and the end of processEvents with it (lines 207-215).  Callbacks  *)
(* that have fired go on.                                                  *)
Stop ==
  /\ ~stopped
  /\ stopped' = TRUE
  /\ timer' = Off
  /\ UNCHANGED <<disk, directory, watching, pending, sinceReload, job, served, loaded, history>>

-----------------------------------------------------------------------------
(* The reload                                                              *)

(* SIGHUP calls ReloadConfig directly (cmd/redirector/main.go lines        *)
(* 191-196).                                                               *)
Hup(g) ==
  /\ ~Busy(g)
  /\ job' = [job EXCEPT ![g] = [pc |-> "reloading"]]
  /\ NoteOverlap(g)
  /\ UNCHANGED <<disk, directory, watching, pending, timer, sinceReload, served, loaded, slow, stopped>>

(* LoadDirectory may fail on an incomplete file, which leaves all as it    *)
(* was.                                                                    *)
ReadFails(g) ==
  /\ job[g].pc = "reloading"
  /\ ~disk.whole
  /\ job' = [job EXCEPT ![g] = [pc |-> "idle"]]
  /\ UNCHANGED <<disk, directory, watching, pending, timer, sinceReload, served, loaded, history, stopped>>

(* ... or take what there is of it for the configuration.                  *)
ReadFiles(g) ==
  /\ job[g].pc = "reloading"
  /\ loaded' = disk
  /\ job' = [job EXCEPT ![g] = [pc |-> "read", content |-> disk]]
  /\ UNCHANGED <<disk, directory, watching, pending, timer, sinceReload, served, history, stopped>>

Swap(g) ==
  /\ job[g].pc = "read"
  /\ served' = job[g].content
  /\ job' = [job EXCEPT ![g] = [pc |-> "idle"]]
  /\ UNCHANGED <<disk, directory, watching, pending, timer, sinceReload, loaded, history, stopped>>

Progress(g) == ReadFails(g) \/ ReadFiles(g) \/ Swap(g)

Callback(k) == Fire(k) \/ Drop(k) \/ BeginReload(k)

WatcherNext ==
  \/ WriteBegin \/ WriteEnd \/ Replace
  \/ ReceiveEvent \/ Tick \/ Stop
  \/ \E k \in Callbacks : Callback(k)
  \/ \E g \in Hups : Hup(g)
  \/ \E g \in Goroutines : Progress(g)

(* The Go scheduler runs every runnable goroutine eventually, the kernel   *)
(* delivers events and time passes.  Editors and signals owe nothing.      *)
WatcherFairness ==
  /\ WF_watcherVars(ReceiveEvent)
  /\ WF_watcherVars(Tick)
  /\ \A k \in Callbacks : WF_watcherVars(Drop(k)) /\ WF_watcherVars(BeginReload(k))
  /\ WF_watcherVars(\E k \in Callbacks : Fire(k))
  /\ \A g \in Goroutines : WF_watcherVars(Progress(g))

WatcherSpec == WatcherInit /\ [][WatcherNext]_watcherVars /\ WatcherFairness

-----------------------------------------------------------------------------
(* Properties                                                              *)

(* A dropped reload, a stopped timer or a read of an incomplete file, be it*)
(* that the reload fails or that it takes the part for the whole, never    *)
(* lets a change go unnoticed, even with slow reloads and SIGHUP: when a   *)
(* complete new content is on disk, a reload has read all of it or the     *)
(* means to read it are still there.  Only a watched file that is replaced *)
(* is lost (scheduleReload and doReload, lines 131-175).                   *)
NoChangeForgotten ==
  disk.whole /\ watching /\ ~stopped =>
    \/ loaded = disk
    \/ pending > 0
    \/ timer # Off
    \/ \E g \in Goroutines : job[g].pc \in {"fired", "reloading"}

(* As long as each reload of the watcher takes less than the debounce      *)
(* period, the check of lastReload keeps them apart: two are never between *)
(* read and swap at once (doReload, lines 155-162).                        *)
NoOverlap ==
  ~slow => \A j, k \in Callbacks : Reloading(j) /\ Reloading(k) => j = k

(* "Watch configuration for changes and hot-reload"                        *)
(* (cmd/redirector/main.go:118): if reloads never overlap, then once the   *)
(* file stops changing, what is served is all of what is on disk, unless   *)
(* the watched file was replaced.  A reload that is overtaken may put an older *)
(* content back for good.                                                  *)
HotReload ==
  []~overlapped => <>[](disk.whole /\ watching /\ ~stopped => served = disk)
=============================================================================
