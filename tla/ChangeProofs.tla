---------------------------- MODULE ChangeProofs ----------------------------
(***************************************************************************)
(* How a change reaches those who wait for it.  Two invariants of Watcher, *)
(* for every debounce period, every number of callbacks and SIGHUP         *)
(* goroutines and every number of edits; and NeverBackwards of Sources,    *)
(* for every set of kinds, every number of versions, every parameter       *)
(* hierarchy and every number of outside events.  The two have nothing in  *)
(* common but this module: a source hands a change over by its channel, the*)
(* watcher by a reload.                                                    *)
(***************************************************************************)
EXTENDS Watcher, Sources, SequenceTheorems, TLAPS

(* The fields of the watcher (watcher.go lines 16-39) and of its reloads.  *)
Fields ==
  /\ disk \in [content : Nat, whole : BOOLEAN]
  /\ pending \in Nat
  /\ timer \in Nat \union {Off}
  /\ sinceReload \in 0 .. Debounce
  /\ DOMAIN job = Goroutines

(* Why a reload may be dropped: a timer that is still running, or has      *)
(* fired, was started after the last reload began, unless somebody is      *)
(* reloading now or has read the newest content already.                   *)
ReadIsComing ==
  disk.whole /\ watching /\ ~stopped =>
    \/ loaded = disk
    \/ pending > 0
    \/ \E g \in Goroutines : job[g].pc = "reloading"
    \/ timer # Off /\ timer + sinceReload >= Debounce
    \/ sinceReload = Debounce /\ \E k \in Callbacks : job[k].pc = "fired"

(* Why two do not overlap: a reload of the watcher that is not slow ends   *)
(* within the debounce period in which no other begins.                    *)
ReloadIsRecent ==
  ~slow => \A k \in Callbacks : Reloading(k) => sinceReload < Debounce

WatcherInv == Fields /\ ReadIsComing /\ ReloadIsRecent /\ NoOverlap

LEMMA WatcherInvInit == WatcherInit => WatcherInv
<1> SUFFICES ASSUME WatcherInit PROVE WatcherInv
  OBVIOUS
<1>1. Fields
  BY DebounceAssumption DEF WatcherInit, First, Fields
<1>2. \A g \in Goroutines : job[g].pc = "idle"
  BY DEF WatcherInit
<1> QED
  BY <1>1, <1>2 DEF WatcherInit, WatcherInv, ReadIsComing, ReloadIsRecent, NoOverlap, Reloading, Goroutines

-----------------------------------------------------------------------------
(* The editor and the kernel                                               *)

LEMMA EditorStep ==
  ASSUME WatcherInv, WriteBegin \/ WriteEnd \/ Replace
  PROVE  WatcherInv'
<1> USE DEF WatcherInv, Fields, Notify, history
<1>1. UNCHANGED <<timer, sinceReload, job, slow, overlapped, stopped>>
  BY DEF WriteBegin, WriteEnd, Replace
<1>2. Fields'
  <2>1. disk' \in [content : Nat, whole : BOOLEAN]
    <3>1. CASE WriteBegin
      BY <3>1 DEF WriteBegin
    <3>2. CASE WriteEnd
      BY <3>2 DEF WriteEnd
    <3>3. CASE Replace
      BY <3>3 DEF Replace
    <3> QED
      BY <3>1, <3>2, <3>3
  <2>2. pending' \in Nat
    BY DEF WriteBegin, WriteEnd, Replace
  <2> QED
    BY <1>1, <2>1, <2>2
<1>3. ReadIsComing'
  <2>1. CASE WriteBegin
    <3>1. ~disk.whole'
      BY <2>1 DEF WriteBegin
    <3> QED
      BY <3>1 DEF ReadIsComing
  <2>2. CASE WriteEnd
    BY <2>2 DEF WriteEnd, ReadIsComing
  <2>3. CASE Replace
    <3>1. directory => pending' = pending + 1 \/ ~watching
      BY <2>3 DEF Replace
    <3>2. directory /\ watching => pending' > 0
      BY <3>1
    <3>3. (directory => UNCHANGED watching) /\ (~directory => watching' = FALSE)
      BY <2>3, Zenon DEF Replace
    <3> QED
      BY <3>2, <3>3, Zenon DEF ReadIsComing
  <2> QED
    BY <2>1, <2>2, <2>3
<1>4. ReloadIsRecent' /\ NoOverlap'
  BY <1>1 DEF ReloadIsRecent, NoOverlap, Reloading
<1> QED
  BY <1>2, <1>3, <1>4

-----------------------------------------------------------------------------
(* The watcher                                                             *)

LEMMA ReceiveStep ==
  ASSUME WatcherInv, ReceiveEvent
  PROVE  WatcherInv'
<1> USE DebounceAssumption, OffAssumption DEF WatcherInv, Fields, ReceiveEvent, history
<1>1. Fields'
  OBVIOUS
<1>2. ReadIsComing'
  BY DEF ReadIsComing
<1>3. ReloadIsRecent' /\ NoOverlap'
  BY DEF ReloadIsRecent, NoOverlap, Reloading
<1> QED
  BY <1>1, <1>2, <1>3

LEMMA TickStep ==
  ASSUME WatcherInv, Tick
  PROVE  WatcherInv'
<1> USE DebounceAssumption, OffAssumption DEF WatcherInv, Fields, Tick
<1>1. Fields'
  <2>1. timer' \in Nat \union {Off}
    OBVIOUS
  <2>2. sinceReload' \in 0 .. Debounce
    OBVIOUS
  <2> QED
    BY <2>1, <2>2
<1>2. ReadIsComing'
  <2>. UNCHANGED <<disk, watching, stopped, loaded, pending, job>>
    OBVIOUS
  <2>1. timer # Off => timer' # Off /\ (timer + sinceReload >= Debounce
                                          => timer' + sinceReload' >= Debounce)
    OBVIOUS
  <2>2. sinceReload = Debounce => sinceReload' = Debounce
    OBVIOUS
  <2> QED
    BY <2>1, <2>2 DEF ReadIsComing
<1>3. ReloadIsRecent'
  <2>1. ~slow' => ~slow /\ ~(sinceReload' = Debounce /\ \E k \in Callbacks : Reloading(k))
    BY Zenon
  <2>2. sinceReload' # Debounce => sinceReload' < Debounce
    OBVIOUS
  <2>3. \A k \in Callbacks : Reloading(k)' = Reloading(k)
    BY DEF Reloading
  <2> QED
    BY <2>1, <2>2, <2>3, Zenon DEF ReloadIsRecent
<1>4. NoOverlap'
  BY DEF NoOverlap, Reloading
<1> QED
  BY <1>1, <1>2, <1>3, <1>4

LEMMA CallbackStep ==
  ASSUME WatcherInv, NEW k \in Callbacks, Callback(k)
  PROVE  WatcherInv'
<1> USE DebounceAssumption, OffAssumption DEF WatcherInv, Fields, history, Goroutines
<1>1. UNCHANGED <<disk, watching, pending, loaded, stopped>>
  BY DEF Callback, Fire, Drop, BeginReload
<1>2. Fields'
  BY DEF Callback, Fire, Drop, BeginReload, NoteOverlap
<1>3. CASE Fire(k)
  <2>1. job'[k].pc = "fired" /\ \A g \in Goroutines \ {k} : job'[g] = job[g]
    BY <1>3 DEF Fire
  <2>2. ReadIsComing'
    BY <1>3, <2>1 DEF Fire, Busy, ReadIsComing
  <2>3. \A g \in Callbacks : Reloading(g)' => Reloading(g)
    BY <2>1 DEF Reloading
  <2>4. ReloadIsRecent' /\ NoOverlap'
    BY <1>3, <2>3 DEF Fire, ReloadIsRecent, NoOverlap
  <2> QED
    BY <1>2, <2>2, <2>4
<1>4. CASE Drop(k)
  <2>1. job'[k].pc = "idle" /\ \A g \in Goroutines \ {k} : job'[g] = job[g]
    BY <1>4 DEF Drop
  <2>2. ReadIsComing'
    BY <1>4, <2>1 DEF Drop, ReadIsComing
  <2>3. \A g \in Callbacks : Reloading(g)' => Reloading(g)
    BY <2>1 DEF Reloading
  <2>4. ReloadIsRecent' /\ NoOverlap'
    BY <1>4, <2>3 DEF Drop, ReloadIsRecent, NoOverlap
  <2> QED
    BY <1>2, <2>2, <2>4
<1>5. CASE BeginReload(k)
  <2>1. job'[k].pc = "reloading" /\ \A g \in Goroutines \ {k} : job'[g] = job[g]
    BY <1>5 DEF BeginReload
  <2>2. ReadIsComing'
    BY <2>1 DEF ReadIsComing
  <2>3. sinceReload' = 0 /\ slow' = slow /\ sinceReload = Debounce
    BY <1>5 DEF BeginReload
  <2>4. ~slow => \A g \in Callbacks \ {k} : ~Reloading(g)'
    BY <2>1, <2>3 DEF ReloadIsRecent, Reloading
  <2> QED
    BY <1>2, <2>2, <2>3, <2>4 DEF ReloadIsRecent, NoOverlap
<1> QED
  BY <1>3, <1>4, <1>5 DEF Callback

-----------------------------------------------------------------------------
(* The reload                                                              *)

LEMMA HupStep ==
  ASSUME WatcherInv, NEW g \in Hups, g \notin Callbacks, Hup(g)
  PROVE  WatcherInv'
<1> USE DEF WatcherInv, Fields, Hup, Goroutines
<1>1. job'[g].pc = "reloading" /\ \A h \in Goroutines \ {g} : job'[h] = job[h]
  OBVIOUS
<1>2. Fields'
  BY DEF NoteOverlap
<1>3. ReadIsComing'
  BY <1>1 DEF ReadIsComing
<1>4. ReloadIsRecent' /\ NoOverlap'
  BY <1>1 DEF ReloadIsRecent, NoOverlap, Reloading
<1> QED
  BY <1>2, <1>3, <1>4

LEMMA ProgressStep ==
  ASSUME WatcherInv, NEW g \in Goroutines, Progress(g)
  PROVE  WatcherInv'
<1> USE DEF WatcherInv, Fields, history
<1>1. \A h \in Goroutines \ {g} : job'[h] = job[h]
  BY DEF Progress, ReadFails, ReadFiles, Swap
<1>2. UNCHANGED <<disk, directory, watching, pending, timer, sinceReload, history, stopped>>
  BY DEF Progress, ReadFails, ReadFiles, Swap
<1>3. Fields'
  BY <1>2 DEF Progress, ReadFails, ReadFiles, Swap
<1>4. ReadIsComing'
  <2>1. CASE ReadFails(g)
    BY <1>1, <1>2, <2>1 DEF ReadFails, ReadIsComing
  <2>2. CASE ReadFiles(g)
    BY <1>2, <2>2 DEF ReadFiles, ReadIsComing
  <2>3. CASE Swap(g)
    <3>1. job[g].pc = "read" /\ loaded' = loaded
      BY <2>3 DEF Swap
    <3> QED
      BY <1>1, <1>2, <3>1 DEF ReadIsComing, Goroutines
  <2> QED
    BY <2>1, <2>2, <2>3 DEF Progress
<1>5. \A h \in Callbacks : Reloading(h)' => Reloading(h)
  BY <1>1 DEF Progress, ReadFails, ReadFiles, Swap, Reloading, Goroutines
<1>6. ReloadIsRecent' /\ NoOverlap'
  BY <1>2, <1>5 DEF ReloadIsRecent, NoOverlap
<1> QED
  BY <1>3, <1>4, <1>6

LEMMA StopStep ==
  ASSUME WatcherInv, Stop
  PROVE  WatcherInv'
BY DEF WatcherInv, Fields, Stop, history, ReadIsComing, ReloadIsRecent, NoOverlap, Reloading

-----------------------------------------------------------------------------
LEMMA WatcherInvStep ==
  ASSUME WatcherInv, [WatcherNext]_watcherVars
  PROVE  WatcherInv'
<1>1. CASE UNCHANGED watcherVars
  BY <1>1 DEF watcherVars, history, WatcherInv, Fields, ReadIsComing, ReloadIsRecent, NoOverlap, Reloading
<1>2. CASE WriteBegin \/ WriteEnd \/ Replace
  BY <1>2, EditorStep
<1>3. CASE ReceiveEvent
  BY <1>3, ReceiveStep
<1>4. CASE Tick
  BY <1>4, TickStep
<1>5. CASE Stop
  BY <1>5, StopStep
<1>6. CASE \E k \in Callbacks : Callback(k)
  BY <1>6, CallbackStep
<1>7. CASE \E g \in Hups : Hup(g)
  BY <1>7, HupStep, GoroutinesAssumption
<1>8. CASE \E g \in Goroutines : Progress(g)
  BY <1>8, ProgressStep
<1> QED
  BY <1>1, <1>2, <1>3, <1>4, <1>5, <1>6, <1>7, <1>8 DEF WatcherNext

LEMMA WatcherInvariance == WatcherSpec => []WatcherInv
<1>1. WatcherInit => WatcherInv
  BY WatcherInvInit
<1>2. WatcherInv /\ [WatcherNext]_watcherVars => WatcherInv'
  BY WatcherInvStep
<1> QED
  BY <1>1, <1>2, PTL DEF WatcherSpec

(* Whatever the debounce period, a dropped callback never takes the last   *)
(* chance to read a content nobody has read (watcher.go lines 131-175).    *)
THEOREM NothingForgotten == WatcherSpec => []NoChangeForgotten
<1>1. WatcherInv => NoChangeForgotten
  BY DEF WatcherInv, ReadIsComing, NoChangeForgotten, Goroutines
<1> QED
  BY <1>1, WatcherInvariance, PTL

(* However many callbacks are waiting, reloads quicker than the debounce   *)
(* period do not overlap (watcher.go lines 155-162).                       *)
THEOREM KeptApart == WatcherSpec => []NoOverlap
<1>1. WatcherInv => NoOverlap
  BY DEF WatcherInv
<1> QED
  BY <1>1, WatcherInvariance, PTL

-----------------------------------------------------------------------------
(* One source and the fetches beside it (internal/providers)               *)

(* The kinds of which NeverBackwards speaks.                               *)
Straight == kind \notin Git \union {"etcd", "secretsmanager"}

(* A fetch of Watch that has its content.                                  *)
Carrying == calls["watch"].stage \in {"stamp", "read", "deliver"}

(* Received, in the channel, on its way and in the store: each is no older *)
(* than the one before it.  The channel of S3 holds nothing.               *)
InOrder ==
  /\ store \in Nat /\ got \in Nat /\ got <= store
  /\ kind = "s3" => channel = <<>>
  /\ channel \in Seq(Nat) /\ Len(channel) <= 1
  /\ \A i \in 1 .. Len(channel) : got <= channel[i] /\ channel[i] <= store
  /\ Carrying =>
       /\ calls["watch"].seen \in Nat
       /\ got <= calls["watch"].seen /\ calls["watch"].seen <= store
       /\ \A i \in 1 .. Len(channel) : channel[i] <= calls["watch"].seen

(* Webhooks are for the git sources.                                       *)
NoWebhooks == webhookChan = <<>> /\ calls["hook"].stage = "idle"

SourceInv == kind \in Kinds /\ DOMAIN calls = Callers /\ (Straight => InOrder /\ NoWebhooks)

LEMMA SourceInvInit == Init => SourceInv
<1> SUFFICES ASSUME Init PROVE SourceInv
  OBVIOUS
<1>1. calls["watch"].stage = "idle" /\ calls["hook"].stage = "idle"
  BY DEF Init, Idle, Callers
<1>3. DOMAIN calls = Callers
  BY DEF Init
<1>2. kind \in Kinds /\ store = 1 /\ got = 0 /\ channel = <<>> /\ webhookChan = <<>>
  BY DEF Init
<1> QED
  BY <1>1, <1>2, <1>3 DEF SourceInv, InOrder, NoWebhooks, Carrying

(* While what is received, sent and stored stays, a step is harmless if it *)
(* leaves Watch's fetch alone, ends it, or restarts it.                    *)
LEMMA Harmless ==
  ASSUME SourceInv, Straight, UNCHANGED <<kind, store, got, channel>>,
         \/ calls'["watch"] = calls["watch"]
         \/ calls'["watch"].stage \in {"idle", "fetch", "blocked"}
         \/ calls'["watch"].seen = store
         \/ Carrying /\ calls'["watch"].seen = calls["watch"].seen
  PROVE  InOrder'
<1>1. CASE calls'["watch"] = calls["watch"]
  BY <1>1 DEF SourceInv, InOrder, Carrying
<1>2. CASE calls'["watch"].stage \in {"idle", "fetch", "blocked"}
  BY <1>2 DEF SourceInv, InOrder, Carrying
<1>3. CASE calls'["watch"].seen = store
  BY <1>3 DEF SourceInv, InOrder
<1>4. CASE Carrying /\ calls'["watch"].seen = calls["watch"].seen
  BY <1>4 DEF SourceInv, InOrder
<1> QED
  BY <1>1, <1>2, <1>3, <1>4

LEMMA PollStep ==
  ASSUME SourceInv, Straight, NEW k, NEW changed, Poll(k, changed)
  PROVE  InOrder' /\ NoWebhooks'
<1>1. calls'["watch"].stage = "fetch" /\ calls'["hook"] = calls["hook"]
  BY DEF Poll, Enter, SourceInv, Callers
<1>2. InOrder'
  BY <1>1, Harmless DEF Poll, storeVars, results
<1> QED
  BY <1>1, <1>2 DEF SourceInv, NoWebhooks, Poll, results

LEMMA StartStep ==
  ASSUME SourceInv, Straight, WatchStarts \/ QueryTimesOut
  PROVE  InOrder' /\ NoWebhooks'
<1> USE DEF Callers
<1>1. CASE \E k, changed : Poll(k, changed)
  BY <1>1, PollStep
<1>2. CASE Ask
  <2>1. calls'["watch"].stage = "blocked" /\ calls'["hook"] = calls["hook"]
    BY <1>2 DEF Ask, Enter, SourceInv
  <2>2. InOrder'
    BY <1>2, <2>1, Harmless DEF Ask, storeVars, results
  <2> QED
    BY <1>2, <2>1, <2>2 DEF Ask, SourceInv, NoWebhooks, results
<1>3. CASE BlockingQuery
  <2>1. calls'["watch"].seen = store /\ calls'["hook"] = calls["hook"]
    BY <1>3 DEF BlockingQuery, Enter, SourceInv
  <2>2. InOrder'
    BY <1>3, <2>1, Harmless DEF BlockingQuery, storeVars, results
  <2> QED
    BY <1>3, <2>1, <2>2 DEF BlockingQuery, SourceInv, NoWebhooks, results
<1>4. CASE QueryTimesOut
  <2>1. calls'["watch"].stage = "idle" /\ calls'["hook"] = calls["hook"]
    BY <1>4 DEF QueryTimesOut, Idle, SourceInv
  <2>2. InOrder'
    BY <1>4, <2>1, Harmless DEF QueryTimesOut, storeVars, results
  <2> QED
    BY <1>4, <2>1, <2>2 DEF QueryTimesOut, SourceInv, NoWebhooks, results
<1>5. ~WatchEvent
  BY DEF WatchEvent, Straight
<1> QED
  BY <1>1, <1>2, <1>3, <1>4, <1>5
     DEF WatchStarts, FileWatch, S3Watch, GCSWatch, AzureBlobWatch, SecretWatch,
         ParameterWatch, GitHubWatch, GitLabWatch

LEMMA ContinueStep ==
  ASSUME SourceInv, Straight, NEW p \in Callers, Continue(p) \/ Fails(p) \/ BodyFails(p)
  PROVE  InOrder' /\ NoWebhooks'
<1> USE DEF Callers
<1>1. p # "hook"
  BY DEF Continue, Read, Stamp, Parse, Fails, BodyFails, SourceInv, NoWebhooks
<1>2. UNCHANGED <<kind, store, got, channel>> /\ webhookChan' = webhookChan
  BY DEF Continue, Read, Stamp, Parse, Fails, BodyFails, storeVars, results
<1>3. \A q \in Callers \ {p} : calls'[q] = calls[q]
  BY DEF Continue, Read, Stamp, Parse, Fails, BodyFails, SourceInv
<1>4. CASE p # "watch"
  <2>1. InOrder'
    BY <1>2, <1>3, <1>4, Harmless
  <2> QED
    BY <1>1, <1>2, <1>3, <2>1 DEF NoWebhooks, SourceInv
<1>5. CASE p = "watch"
  <2>1. ASSUME Read(p) PROVE InOrder'
    <3>1. kind # "secretsmanager"
      BY DEF Straight
    <3>2. calls'[p] = FromStore("read") \/ calls'[p] = FromStore("stamp") \/ calls'[p] = Idle
      <4> DEFINE K == {"file", "s3", "gcs", "azureblob", "parameterstore", "hierarchy",
                       "consul", "etcd", "http", "github", "gitlab"}
      <4>1. kind \in K
        BY <3>1, KindsAssumption DEF SourceInv, Polled, Conditional, Git
      <4> QED
        BY <2>1, <4>1 DEF Read, SourceInv, FileLoad, S3Download, GCSDownload, AzureBlobDownload,
             FetchSingle, FetchHierarchy, ConsulGet, EtcdGet, HTTPGet, GitHubFileContent,
             GitLabFileContent, Unmodified
    <3> QED
      BY <1>2, <1>5, <3>2, Harmless DEF FromStore, Idle
  <2>2. ASSUME Stamp(p) PROVE InOrder'
    <3>1. calls[p].stage = "stamp"
      BY <2>2 DEF Stamp
    <3>2. calls'[p] = Idle \/ calls'[p] = [stage |-> "read", seen |-> calls[p].seen, token |-> store]
      BY <2>2 DEF Stamp, SourceInv
    <3>3. calls'[p].stage = "idle" \/ calls'[p].seen = calls[p].seen
      BY <3>2 DEF SourceInv, Idle
    <3> QED
      BY <1>2, <1>5, <3>1, <3>3, Harmless DEF Carrying
  <2>3. ASSUME Parse(p) PROVE InOrder'
    <3>1. calls[p].stage = "read"
      BY <2>3 DEF Parse
    <3> DEFINE seen == calls[p].seen
    <3> DEFINE token == calls[p].token
    <3>2. \/ calls'[p] = Idle
          \/ calls'[p] = [stage |-> "deliver", seen |-> seen, token |-> token]
      BY <2>3 DEF Parse, SourceInv
    <3>3. CASE calls'[p] = Idle
      BY <1>2, <1>5, <3>3, Harmless DEF Idle
    <3>4. CASE calls'[p] = [stage |-> "deliver", seen |-> seen, token |-> token]
      <4>1. calls'[p].seen = seen
        <5> HIDE DEF seen, token
        <5> QED
          BY <3>4
      <4> QED
        BY <1>2, <1>5, <3>1, <4>1, Harmless DEF Carrying
    <3> QED
      BY <3>2, <3>3, <3>4
  <2>4. ASSUME Fails(p) PROVE InOrder'
    <3>1. \/ calls'[p] = Idle
          \/ /\ calls[p].stage = "stamp"
             /\ calls'[p] = [stage |-> "read", seen |-> calls[p].seen, token |-> 0]
      BY <2>4 DEF Fails, SourceInv
    <3>2. \/ calls'[p].stage = "idle"
          \/ calls[p].stage = "stamp" /\ calls'[p].seen = calls[p].seen
      BY <3>1 DEF SourceInv, Idle
    <3> QED
      BY <1>2, <1>5, <3>2, Harmless DEF Carrying
  <2>5. ASSUME BodyFails(p) PROVE InOrder'
    <3>1. calls'[p].stage = "idle"
      BY <2>5 DEF BodyFails, SourceInv, Idle
    <3> QED
      BY <1>2, <1>5, <3>1, Harmless
  <2>6. InOrder'
    BY <2>1, <2>2, <2>3, <2>4, <2>5 DEF Continue
  <2> QED
    BY <1>1, <1>2, <1>3, <2>6 DEF NoWebhooks, SourceInv
<1> QED
  BY <1>4, <1>5

LEMMA SendStep ==
  ASSUME SourceInv, Straight, Send
  PROVE  InOrder' /\ NoWebhooks' /\ got' >= got
<1> USE DEF Callers
<1>1. calls["watch"].stage = "deliver" /\ Carrying
  BY DEF Send, Carrying
<1>2. calls'["watch"].stage = "idle" /\ calls'["hook"] = calls["hook"]
  BY DEF Send, Idle, SourceInv
<1>3. UNCHANGED <<kind, store, webhookChan>>
  BY DEF Send, storeVars
<1>4. NoWebhooks'
  BY <1>2, <1>3 DEF SourceInv, NoWebhooks
<1>5. CASE SendUnbuffered
  <2>1. channel = <<>> /\ channel' = channel /\ got' = calls["watch"].seen
    BY <1>5 DEF SendUnbuffered, SourceInv, InOrder
  <2>2. store \in Nat /\ got \in Nat /\ got' \in Nat /\ got <= got' /\ got' <= store
    BY <1>1, <2>1 DEF SourceInv, InOrder
  <2>3. ~Carrying' /\ Len(<<>>) = 0 /\ <<>> \in Seq(Nat)
    BY <1>2 DEF Carrying
  <2>4. InOrder' /\ got' >= got
    BY <1>3, <2>1, <2>2, <2>3 DEF InOrder
  <2> QED
    BY <1>4, <2>4
<1>6. CASE SkipFull
  <2>1. InOrder' /\ got' = got
    BY <1>2, <1>3, <1>6, Harmless DEF SkipFull
  <2> QED
    BY <1>4, <2>1 DEF SourceInv, InOrder
<1>7. CASE SendBuffered
  <2> DEFINE seen == calls["watch"].seen
  <2>1. kind # "s3" /\ channel' = <<seen>> /\ got' = got
    BY <1>7 DEF SendBuffered
  <2>2. /\ store \in Nat /\ got \in Nat /\ got <= store
        /\ seen \in Nat /\ got <= seen /\ seen <= store
    BY <1>1 DEF SourceInv, InOrder
  <2>3. <<seen>> \in Seq(Nat) /\ Len(<<seen>>) = 1 /\ <<seen>>[1] = seen
    BY <2>2
  <2>4. ~Carrying'
    BY <1>2 DEF Carrying
  <2>5. \A i \in 1 .. Len(<<seen>>) : <<seen>>[i] = seen
    BY <2>3
  <2>6. InOrder' /\ got' >= got
    <3> HIDE DEF seen
    <3> QED
      BY <1>3, <2>1, <2>2, <2>3, <2>4, <2>5 DEF InOrder
  <2> QED
    BY <1>4, <2>6
<1> QED
  BY <1>5, <1>6, <1>7 DEF Send

LEMMA TakeStep ==
  ASSUME SourceInv, Straight, Receive
  PROVE  InOrder' /\ NoWebhooks' /\ got' >= got
<1> USE DEF SourceInv, InOrder, Receive, storeVars
<1>0. channel \in Seq(Nat) /\ channel # <<>> /\ Len(channel) <= 1
  OBVIOUS
<1>1. Head(channel) = channel[1] /\ Len(channel) = 1
  <2> HIDE DEF SourceInv, InOrder, Receive
  <2>1. Len(channel) \in Nat /\ Len(channel) # 0
    BY <1>0, EmptySeq
  <2>2. Len(channel) = 1
    <3> DEFINE n == Len(channel)
    <3>1. n \in Nat /\ n # 0 /\ n <= 1
      BY <1>0, <2>1
    <3> HIDE DEF n
    <3>2. n = 1
      BY <3>1
    <3> QED
      BY <3>2 DEF n
  <2>3. Head(channel) = channel[1]
    BY <1>0, <2>2
  <2> QED
    BY <2>2, <2>3
<1>2. Tail(channel) \in Seq(Nat) /\ Len(Tail(channel)) = 0
  BY <1>1, HeadTailProperties
<1>3. got' = channel[1] /\ channel' = Tail(channel) /\ kind # "s3"
  BY <1>1
<1>4. channel' = <<>>
  BY <1>2, <1>3, EmptySeq
<1>5. Carrying' = Carrying
  BY DEF Carrying
<1>6. /\ store \in Nat /\ got \in Nat /\ got' \in Nat /\ got <= got' /\ got' <= store
      /\ store' = store /\ webhookChan' = webhookChan /\ calls' = calls
  BY <1>1, <1>3
<1>7. Carrying => /\ calls["watch"].seen \in Nat
                  /\ got' <= calls["watch"].seen /\ calls["watch"].seen <= store
  BY <1>1, <1>3
<1>8. Len(<<>>) = 0 /\ <<>> \in Seq(Nat)
  OBVIOUS
<1>9. InOrder' /\ got' >= got
  <2> HIDE DEF SourceInv, InOrder, Receive
  <2> QED
    BY <1>4, <1>5, <1>6, <1>7, <1>8 DEF InOrder
<1>10. NoWebhooks'
  BY <1>6 DEF NoWebhooks
<1> QED
  BY <1>9, <1>10

LEMMA SourceInvStep ==
  ASSUME SourceInv, [Next]_vars
  PROVE  SourceInv' /\ (Straight => got' >= got)
<1>1. kind' = kind /\ DOMAIN calls' = Callers
  <2>1. CASE UNCHANGED vars
    BY <2>1 DEF vars, storeVars, SourceInv
  <2>2. CASE Next
    BY <2>2 DEF Next, SourceInv, storeVars, WatchStarts, FileWatch, S3Watch, GCSWatch, AzureBlobWatch,
         SecretWatch, ParameterWatch, GitHubWatch, GitLabWatch, Poll, Enter, Ask, BlockingQuery,
         WatchEvent, Write, Expire, Relay, Compact, OpenWatch, RestartWatch, RetryWatch,
         QueryTimesOut, SyncFetch, HandleWebhook,
         Continue, Read, Stamp, Parse, Fails, BodyFails, HandOver, Send, ReturnToSync, QueueForWatch, Receive
  <2> QED
    BY <2>1, <2>2
<1>2. ASSUME Straight
      PROVE  InOrder' /\ NoWebhooks' /\ got' >= got
  <2> USE <1>2
  <2>0. SourceInv /\ InOrder /\ NoWebhooks /\ got >= got
    BY DEF SourceInv, InOrder
  <2>1. CASE UNCHANGED vars
    BY <2>0, <2>1 DEF vars, InOrder, NoWebhooks, Carrying, results
  <2>2. CASE Write
    BY <2>0, <2>2 DEF Write, InOrder, NoWebhooks, Carrying, results
  <2>3. CASE Expire
    BY <2>0, <2>3 DEF Expire, InOrder, NoWebhooks, Carrying, results, storeVars
  <2>4. CASE WatchStarts \/ QueryTimesOut
    <3>1. got' = got
      BY <2>4 DEF WatchStarts, FileWatch, S3Watch, GCSWatch, AzureBlobWatch, SecretWatch,
           ParameterWatch, GitHubWatch, GitLabWatch, Poll, Ask, BlockingQuery, WatchEvent,
           QueryTimesOut, results
    <3> QED
      BY <2>0, <2>4, <3>1, StartStep
  <2>5. ~Relay
    BY <2>0 DEF Relay, NoWebhooks
  <2>6. ~Compact /\ ~RestartWatch /\ ~RetryWatch /\ ~HandleWebhook
    BY DEF Compact, RestartWatch, RetryWatch, HandleWebhook, Straight
  <2>7. CASE SyncFetch
    <3>1. calls'["watch"] = calls["watch"] /\ calls'["hook"] = calls["hook"]
      BY <2>0, <2>7 DEF SyncFetch, Enter, SourceInv, Callers
    <3> QED
      BY <2>0, <2>7, <3>1 DEF SyncFetch, InOrder, NoWebhooks, Carrying, results, storeVars
  <2>8. CASE \E p \in Callers : Continue(p) \/ Fails(p) \/ BodyFails(p)
    <3>1. got' = got
      BY <2>8 DEF Continue, Read, Stamp, Parse, Fails, BodyFails, results
    <3> QED
      BY <2>0, <2>8, <3>1, ContinueStep
  <2>9. CASE Send
    BY <2>0, <2>9, SendStep
  <2>10. CASE ReturnToSync
    <3>1. calls'["watch"] = calls["watch"] /\ calls'["hook"] = calls["hook"]
      BY <2>0, <2>10 DEF ReturnToSync, SourceInv, Callers
    <3> QED
      BY <2>0, <2>10, <3>1 DEF ReturnToSync, InOrder, NoWebhooks, Carrying, storeVars
  <2>11. ~QueueForWatch
    BY <2>0 DEF QueueForWatch, NoWebhooks
  <2>12. CASE Receive
    BY <2>0, <2>12, TakeStep
  <2> QED
    BY <2>1, <2>2, <2>3, <2>4, <2>5, <2>6, <2>7, <2>8, <2>9, <2>10, <2>11, <2>12
       DEF Next, HandOver
<1> QED
  BY <1>1, <1>2 DEF SourceInv, Straight

(* From the store to the reader of Watch versions keep their order, for    *)
(* all kinds of source that tell a change by a token of their own.         *)
THEOREM ReceivedInOrder == Spec => NeverBackwards
<1>1. Init => SourceInv
  BY SourceInvInit
<1>2. SourceInv /\ [Next]_vars =>
        SourceInv' /\ [kind \notin Git \union {"etcd", "secretsmanager"} => got' >= got]_vars
  BY SourceInvStep DEF Straight
<1> QED
  BY <1>1, <1>2, PTL DEF Spec, NeverBackwards
=============================================================================
