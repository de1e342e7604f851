------------------------------ MODULE Sources -------------------------------
(***************************************************************************)
(* internal/providers: one configuration source, its Watch goroutine, and  *)
(* the Fetch of a sync and of a webhook beside it.  They share what the    *)
(* source remembers of its last answer (an ETag, a generation, an index, a *)
(* version, a modification time), the token by which it tells a change.    *)
(* The store is external: the versions written to it, numbered, each its   *)
(* own token.  A fetch is the answer of the store, for some kinds a second *)
(* call for the token, the local step that remembers the token and parses, *)
(* and the handing over.  Stop and Close, the authentication of requests   *)
(* and the choice of a git reference are left out; a parameter hierarchy   *)
(* is read in one page.                                                    *)
(***************************************************************************)
EXTENDS Naturals, Sequences

CONSTANTS
  Kinds,         \* the kinds of source in question
  MaxVersion,    \* versions written to the store
  Unparsable,    \* versions ParseBytes refuses
  Holds,         \* the parameters of a hierarchy in each version
  EventBound     \* fetches by others, failures and broken streams

Polled == {"file", "s3", "gcs", "azureblob", "secretsmanager", "parameterstore", "hierarchy"}

Git == {"github", "gitlab"}

Conditional == Git \union {"http"}

ASSUME KindsAssumption == Kinds \subseteq Polled \union Conditional \union {"consul", "etcd"}

VARIABLES
  kind,
  store,         \* the newest version in the store
  last,          \* lastETag, lastGeneration, lastVersion, lastIndex, ...; 0 is none
  cached,        \* Secrets Manager's cachedConfig, 0 once it has expired
  known,         \* the names among a hierarchy's lastVersions
  cursor,        \* the last event of etcd's channel, the index Consul was asked with
  lapsed,        \* the history after etcd's lastRevision has been compacted
  calls,         \* the goroutines in a fetch
  channel,       \* what Watch sent and its reader has not taken
  webhookChan,
  got,           \* the version last received from Watch
  fetched,       \* the version the last Fetch of a sync returned
  lost,          \* the newest of the versions the code lets go (see Obtained)
  events

vars == <<kind, store, last, cached, known, lapsed, cursor, calls,
          channel, webhookChan, got, fetched, lost, events>>

storeVars == <<kind, store>>
memory == <<last, cached, known, lapsed>>
results == <<channel, webhookChan, got, fetched, lost>>

Callers == {"watch", "sync", "hook"}

NoWatch == 0

Idle == [stage |-> "idle", seen |-> 0, token |-> 0]

(* Watch starts after a first Fetch, which may have failed.                *)
Init ==
  /\ kind \in Kinds
  /\ store = 1
  /\ last \in {0, 1} /\ fetched = last
  /\ cached = IF kind = "secretsmanager" THEN last ELSE 0
  /\ known = IF kind = "hierarchy" /\ last = 1 THEN Holds[1] ELSE {}
  /\ cursor = 1
  /\ lost = IF kind = "etcd" /\ last = 0 THEN 1 ELSE 0
  /\ lapsed = FALSE
  /\ calls = [p \in Callers |-> Idle]
  /\ channel = <<>> /\ webhookChan = <<>>
  /\ got = 0
  /\ events = 0

Happens == events < EventBound /\ events' = events + 1

Loses(version) == lost' = IF version > lost THEN version ELSE lost

Write ==
  /\ store < MaxVersion
  /\ store' = store + 1
  /\ UNCHANGED <<kind, memory, cursor, calls, results, events>>

(* The cache expires.                                                      *)
Expire ==
  /\ cached # 0 /\ cached' = 0
  /\ UNCHANGED <<storeVars, last, known, lapsed, cursor, calls, results, events>>

-----------------------------------------------------------------------------
(* Watch                                                                   *)

Enter(p, stage, version) ==
  calls' = [calls EXCEPT ![p] = [stage |-> stage, seen |-> version, token |-> version]]

(* Has the source changed?                                                 *)
FileModified == store > last

S3HasChanged == last # store

GCSHasChanged == last # store

AzureBlobHasChanged == last # store

SecretHasChanged == last # store

ParameterHasChanged == last # store

(* Names that are gone are never taken out of lastVersions.                *)
HierarchyHasChanged == last # store \/ ~(known \subseteq Holds[store])

(* A poll that remembers the token as soon as it has seen it.              *)
PollRemembering(k, changed) ==
  /\ kind = k /\ calls["watch"].stage = "idle"
  /\ changed
  /\ last' = store
  /\ Enter("watch", "fetch", 0)
  /\ UNCHANGED <<storeVars, known, lapsed, cursor, results, events>>

(* The ticker fires.                                                       *)
Poll(k, changed) ==
  /\ kind = k /\ calls["watch"].stage = "idle"
  /\ changed
  /\ Enter("watch", "fetch", 0)
  /\ UNCHANGED <<storeVars, last, known, lapsed, cursor, results, events>>

FileWatch == Poll("file", FileModified) /\ UNCHANGED cached

S3Watch == Poll("s3", S3HasChanged) /\ UNCHANGED cached

GCSWatch == Poll("gcs", GCSHasChanged) /\ UNCHANGED cached

AzureBlobWatch == Poll("azureblob", AzureBlobHasChanged) /\ UNCHANGED cached

(* Invalidates the cache to force a fetch.                                 *)
SecretWatch == Poll("secretsmanager", SecretHasChanged) /\ cached' = 0

ParameterWatch ==
  /\ Poll("parameterstore", ParameterHasChanged) \/ Poll("hierarchy", HierarchyHasChanged)
  /\ UNCHANGED cached

(* The git sources fetch on every tick.                                    *)
GitHubWatch == Poll("github", TRUE) /\ UNCHANGED cached

GitLabWatch == Poll("gitlab", TRUE) /\ UNCHANGED cached

(* Consul: ask for an index other than the one remembered now ...          *)
Ask ==
  /\ kind = "consul" /\ calls["watch"].stage = "idle"
  /\ cursor' = last
  /\ Enter("watch", "blocked", 0)
  /\ UNCHANGED <<storeVars, memory, results, events>>

(* ... which any server may answer from what it has ...                    *)
BlockingQueryStale ==
  /\ calls["watch"].stage = "blocked"
  /\ \E version \in 1 .. store : version # cursor /\ Enter("watch", "read", version)
  /\ UNCHANGED <<storeVars, memory, cursor, results, events>>

(* ... and the query returns when there is one ...                         *)
BlockingQuery ==
  /\ calls["watch"].stage = "blocked" /\ store # cursor
  /\ Enter("watch", "read", store)
  /\ UNCHANGED <<storeVars, memory, cursor, results, events>>

(* ... or after WaitTime.                                                  *)
QueryTimesOut ==
  /\ calls["watch"].stage = "blocked" /\ store = cursor
  /\ calls' = [calls EXCEPT !["watch"] = Idle]
  /\ UNCHANGED <<storeVars, memory, cursor, results, events>>

(* The next event of etcd's watch channel, with the value of its revision. *)
WatchEvent ==
  /\ kind = "etcd" /\ calls["watch"].stage = "idle"
  /\ cursor # NoWatch /\ cursor < store
  /\ cursor' = cursor + 1
  /\ Enter("watch", "read", cursor + 1)
  /\ UNCHANGED <<storeVars, memory, results, events>>

(* etcd compacts its history, of all keys, up to now: a watch that is open *)
(* goes on, one opened after the revision remembered does not.             *)
Compact ==
  /\ Happens
  /\ kind = "etcd" /\ last # 0 /\ ~lapsed /\ lapsed' = TRUE
  /\ UNCHANGED <<storeVars, last, cached, known, cursor, calls, results>>

(* Watch opens another watch: after the revision it remembers, which is    *)
(* cancelled if that has been compacted, or from now on if it has none.    *)
OpenWatch ==
  /\ cursor' = IF last = 0 THEN store ELSE IF lapsed THEN NoWatch ELSE last
  /\ Loses(IF last = 0 THEN store ELSE 0)
  /\ UNCHANGED <<storeVars, memory, calls, channel, webhookChan, got, fetched>>

(* etcd's channel closes.                                                  *)
RestartWatch ==
  /\ Happens
  /\ kind = "etcd" /\ calls["watch"].stage = "idle" /\ cursor # NoWatch
  /\ OpenWatch

(* A second after a watch has been cancelled Watch tries again, from the   *)
(* same revision unless a fetch has remembered another.                    *)
RetryWatch ==
  /\ kind = "etcd" /\ calls["watch"].stage = "idle" /\ cursor = NoWatch
  /\ ~lapsed /\ OpenWatch
  /\ UNCHANGED events

(* The git sources' Watch takes what a webhook has fetched.                *)
Relay ==
  /\ calls["watch"].stage = "idle" /\ webhookChan # <<>>
  /\ Enter("watch", "deliver", Head(webhookChan))
  /\ webhookChan' = Tail(webhookChan)
  /\ Loses(IF Head(webhookChan) < last THEN last ELSE 0)
  /\ UNCHANGED <<storeVars, memory, cursor, channel, got, fetched, events>>

-----------------------------------------------------------------------------
(* Fetch                                                                   *)

(* A sync fetches, always when there is nothing to watch: SupportsWatch of *)
(* an HTTP source is false.                                                *)
SyncFetch ==
  /\ calls["sync"].stage = "idle"
  /\ IF kind = "http" THEN UNCHANGED events ELSE Happens
  /\ Enter("sync", "fetch", 0)
  /\ UNCHANGED <<storeVars, memory, cursor, results>>

(* HandleWebhook for an event of the branch, release or tag.               *)
HandleWebhook ==
  /\ Happens
  /\ kind \in Git /\ calls["hook"].stage = "idle"
  /\ Enter("hook", "fetch", 0)
  /\ UNCHANGED <<storeVars, memory, cursor, results>>

(* What the call of each kind brings: the version and, with it or to be    *)
(* asked for, the token.                                                   *)
FromStore(stage) == [stage |-> stage, seen |-> store, token |-> store]

Unmodified == IF last = store THEN Idle ELSE FromStore("read")

FileLoad == FromStore("stamp")

S3Download == FromStore("read")

GCSDownload == FromStore("stamp")

AzureBlobDownload == FromStore("read")

(* What comes from the cache brings no token.                              *)
GetSecret ==
  IF cached # 0 THEN [stage |-> "read", seen |-> cached, token |-> 0] ELSE FromStore("read")

FetchSingle == FromStore("read")

FetchHierarchy == FromStore("read")

ConsulGet == FromStore("read")

EtcdGet == FromStore("read")

(* If-None-Match; "not modified" is an error like any other.               *)
HTTPGet == Unmodified

GitHubFileContent == Unmodified

GitLabFileContent == Unmodified

Read(p) ==
  /\ calls[p].stage = "fetch"
  /\ calls' = [calls EXCEPT ![p] =
       CASE kind = "file"           -> FileLoad
         [] kind = "s3"             -> S3Download
         [] kind = "gcs"            -> GCSDownload
         [] kind = "azureblob"      -> AzureBlobDownload
         [] kind = "secretsmanager" -> GetSecret
         [] kind = "parameterstore" -> FetchSingle
         [] kind = "hierarchy"      -> FetchHierarchy
         [] kind = "consul"         -> ConsulGet
         [] kind = "etcd"           -> EtcdGet
         [] kind = "http"           -> HTTPGet
         [] kind = "github"         -> GitHubFileContent
         [] kind = "gitlab"         -> GitLabFileContent]
  /\ UNCHANGED <<storeVars, memory, cursor, results, events>>

(* Attrs, or Stat if the file could be loaded.                             *)
Stamp(p) ==
  /\ calls[p].stage = "stamp"
  /\ calls' = [calls EXCEPT ![p] =
       IF kind = "file" /\ @.seen \in Unparsable THEN Idle
       ELSE [stage |-> "read", seen |-> @.seen, token |-> store]]
  /\ UNCHANGED <<storeVars, memory, cursor, results, events>>

RemembersUnparsed(p) ==
  \/ kind \in Conditional \union {"secretsmanager", "parameterstore", "hierarchy"}
  \/ kind = "consul" /\ p = "watch"

(* Remember the token, parse.  A compaction may overtake etcd's answer.    *)
Parse(p) ==
  LET seen    == calls[p].seen
      token   == calls[p].token
      parsed  == seen \notin Unparsable
      updates == token # 0 /\ (parsed \/ RemembersUnparsed(p))
  IN  /\ calls[p].stage = "read"
      /\ last' = IF updates THEN token ELSE last
      /\ cached' = IF updates /\ kind = "secretsmanager" THEN seen ELSE cached
      /\ known' = IF updates /\ kind = "hierarchy" THEN known \union Holds[token] ELSE known
      /\ calls' = [calls EXCEPT ![p] =
                     IF parsed THEN [stage |-> "deliver", seen |-> seen, token |-> token]
                               ELSE Idle]
      /\ lapsed' \in {lapsed, lapsed /\ ~updates}
      /\ Loses(IF updates /\ seen # token THEN token ELSE 0)
      /\ UNCHANGED <<storeVars, cursor, channel, webhookChan, got, fetched, events>>

(* Watch sends: straight to the reader for S3 ...                          *)
SendUnbuffered ==
  /\ kind = "s3" /\ got' = calls["watch"].seen
  /\ UNCHANGED <<channel, lost>>

(* ... not at all if the file source's channel is full ...                 *)
SkipFull ==
  /\ kind = "file" /\ channel # <<>> /\ Loses(calls["watch"].seen)
  /\ UNCHANGED <<channel, got>>

(* ... and to a channel of one place otherwise.                            *)
SendBuffered ==
  /\ kind # "s3" /\ channel = <<>>
  /\ channel' = <<calls["watch"].seen>>
  /\ UNCHANGED <<got, lost>>

Send ==
  /\ calls["watch"].stage = "deliver"
  /\ SendUnbuffered \/ SkipFull \/ SendBuffered
  /\ calls' = [calls EXCEPT !["watch"] = Idle]
  /\ UNCHANGED <<storeVars, memory, cursor, webhookChan, fetched, events>>

ReturnToSync ==
  /\ calls["sync"].stage = "deliver"
  /\ fetched' = calls["sync"].seen
  /\ calls' = [calls EXCEPT !["sync"] = Idle]
  /\ UNCHANGED <<storeVars, memory, cursor, channel, webhookChan, got, lost, events>>

(* handleReleaseEvent and its like: skip when the channel is full.         *)
QueueForWatch ==
  /\ calls["hook"].stage = "deliver"
  /\ webhookChan' = IF webhookChan = <<>> THEN <<calls["hook"].seen>> ELSE webhookChan
  /\ Loses(IF webhookChan # <<>> THEN calls["hook"].seen ELSE 0)
  /\ calls' = [calls EXCEPT !["hook"] = Idle]
  /\ UNCHANGED <<storeVars, memory, cursor, channel, got, fetched, events>>

(* The call fails; only a file's Stat does so without an error.            *)
Fails(p) ==
  /\ Happens
  /\ calls[p].stage \in {"fetch", "stamp"}
  /\ calls' = [calls EXCEPT ![p] =
       IF kind = "file" /\ @.stage = "stamp" /\ @.seen \notin Unparsable
         THEN [stage |-> "read", seen |-> @.seen, token |-> 0] ELSE Idle]
  /\ UNCHANGED <<storeVars, memory, cursor, results>>

(* io.ReadAll fails once the ETag of the answer has been kept.             *)
BodyFails(p) ==
  /\ Happens
  /\ kind \in Conditional /\ calls[p].stage = "read"
  /\ last' = calls[p].token
  /\ Loses(calls[p].token)
  /\ calls' = [calls EXCEPT ![p] = Idle]
  /\ UNCHANGED <<storeVars, cached, known, lapsed, cursor, channel, webhookChan, got, fetched>>

(* The reader of Watch's channel.                                          *)
Receive ==
  /\ channel # <<>>
  /\ got' = Head(channel) /\ channel' = Tail(channel)
  /\ UNCHANGED <<storeVars, memory, cursor, calls, webhookChan, fetched, lost, events>>

-----------------------------------------------------------------------------
WatchStarts ==
  \/ FileWatch \/ S3Watch \/ GCSWatch \/ AzureBlobWatch \/ SecretWatch
  \/ ParameterWatch \/ GitHubWatch \/ GitLabWatch
  \/ Ask \/ BlockingQuery \/ WatchEvent

Continue(p) == Read(p) \/ Stamp(p) \/ Parse(p)

HandOver == Send \/ ReturnToSync \/ QueueForWatch

Next ==
  \/ Write \/ Expire
  \/ WatchStarts \/ Relay \/ QueryTimesOut
  \/ Compact \/ RestartWatch \/ RetryWatch
  \/ SyncFetch \/ HandleWebhook
  \/ \E p \in Callers : Continue(p) \/ Fails(p) \/ BodyFails(p)
  \/ HandOver \/ Receive

(* Tickers fire, calls end, blocked goroutines go on, and select does not  *)
(* pass a webhook over for ever.                                           *)
Fairness ==
  /\ WF_vars(WatchStarts) /\ WF_vars(RetryWatch) /\ SF_vars(Relay)
  /\ WF_vars(SyncFetch /\ kind = "http")
  /\ \A p \in Callers : WF_vars(Continue(p))
  /\ SF_vars(Send) /\ WF_vars(ReturnToSync) /\ WF_vars(QueueForWatch)
  /\ WF_vars(Receive)

Spec == Init /\ [][Next]_vars /\ Fairness

-----------------------------------------------------------------------------
(* The newest version, if it can be parsed, is eventually the last one that*)
(* Watch's reader received or that a sync fetched, whatever the order in   *)
(* which overlapping fetches come back and whichever fail.  Excused is only*)
(* the version that the code itself lets go, and not those after it:       *)
(*  - one stamped by a token read after the content (file.go:76-86,        *)
(*    gcs.go:176-191);                                                     *)
(*  - one whose ETag is kept and whose body then fails (http.go:141-148,   *)
(*    github.go:682-693, gitlab.go:538-545);                               *)
(*  - one skipped for a full channel (file.go:121-125, github.go:809-813); *)
(*  - one that a webhook's older answer follows (github.go:737-743);       *)
(*  - one there was when an etcd watch without a revision opened           *)
(*    (etcd.go:267-276), and all while the watch asks again and again for  *)
(*    a history that has been compacted (etcd.go:291-293, 331-338).        *)
Obtained ==
  <>[]\/ store \in Unparsable
      \/ store <= lost
      \/ kind = "etcd" /\ cursor = NoWatch
      \/ store \in {got, fetched}

(* What Watch's reader receives is never older than what it had before,    *)
(* even when a sync's slower fetch moves the token back; only etcd,        *)
(* starting over at an older revision, Secrets Manager's shared cache and  *)
(* the webhooks of the git sources can repeat the past (s3.go:263-303,     *)
(* consul.go:250-325).                                                     *)
NeverBackwards ==
  [][kind \notin Git \union {"etcd", "secretsmanager"} => got' >= got]_vars
=============================================================================
