---------------------------- MODULE FailoverSync ----------------------------
(***************************************************************************)
(* cmd/redirector-sync/main.go: Syncer, which takes the configuration from *)
(* the first of its sources that yields one and writes it to a file, pushes*)
(* it to redirectors, or both.  SyncOnce runs in the ticker loop (Run) and *)
(* in the webhook handler, concurrently: nothing serialises the two.       *)
(*                                                                         *)
(* A configuration is a record [source, version, quality]; quality is what *)
(* the code tells apart: "good", "broken" (config.ParseBytes fails) or     *)
(* "dirty" (lint reports an error).  A redirector answers                  *)
(* POST /api/v1/reload as handleReload does: it ignores the body and loads *)
(* its configuration file.  With file output that file is the one written  *)
(* here; with API output alone it is whatever was installed.               *)
(*                                                                         *)
(* A file has the data of one configuration, or it is torn: it has parts of*)
(* those whose data were written over one another, or of one not written to*)
(* its end, or nothing.  A torn file may parse and load or not, and no lint*)
(* has seen what it says; only an empty one is always refused.             *)
(*                                                                         *)
(* Left out: dry runs, the single-endpoint fallback of writeAPIOutput, the *)
(* counters of /status and the metrics.                                    *)
(***************************************************************************)
EXTENDS Integers, Sequences, FiniteSets

CONSTANTS
  Sources,       \* the enabled sources as NewSyncer sorts them
  Tagged,        \* those that remember an ETag: http, github, gitlab
  Loops, Hooks,  \* the goroutines: Run, and webhook requests
  Targets,       \* cfg.Targets
  Output,        \* cfg.Output.Type: "file", "api" or "both"
  Atomic,        \* cfg.Output.File.Atomic
  Attempts,      \* cfg.Retry.Attempts, after the first try
  DiskFails,     \* writing and renaming may fail
  EditBound,     \* the sources change no more often than this
  RestartBound,  \* the syncer restarts no more often than this
  None,          \* no file, no ETag, no answer, no data
  Unreachable,   \* a connection error, or a status that is one
  NotModified    \* a 304

ASSUME SourcesAssumption == Sources \in Seq(STRING)

ASSUME JobsAssumption == IsFiniteSet(Loops) /\ IsFiniteSet(Hooks)

ASSUME NoneAssumption == None \notin Nat \union {"ok", "failed", "lint"}

ASSUME AttemptsAssumption == Attempts \in Nat

ASSUME EditBoundAssumption == EditBound \in Nat

Jobs == Loops \union Hooks
Names == {Sources[i] : i \in DOMAIN Sources}

VARIABLES
  remote,        \* what each source holds
  up,            \* whether it can be reached
  tag,           \* the ETag its provider remembers
  job,           \* the SyncOnce each goroutine is in
  disk,          \* the contents of the inodes
  tmp, out,      \* the inodes named path.tmp and path
  met,           \* two syncs have been at the file at once (history)
  target,        \* [served, healthy]
  restarts

world == <<remote, up>>
files == <<disk, tmp, out, met>>
vars == <<world, tag, job, files, target, restarts>>

Qualities == {"good", "broken", "dirty"}
Content == [source : Names, version : 0 .. EditBound, quality : Qualities]
Installed == [source |-> "installed", version |-> 0, quality |-> "good"]

Whole(c) == [pieces |-> {c}, torn |-> FALSE]
Torn(pieces) == [pieces |-> pieces, torn |-> TRUE]
Empty == Torn({})

Inodes == 1 .. Cardinality(Jobs) + 2

IdleJob ==
  [pc |-> "idle", at |-> 1, answer |-> None, data |-> None, handle |-> None,
   push |-> [t \in Targets |-> "pending"], tries |-> [t \in Targets |-> 0], result |-> None]

Init ==
  /\ remote = [s \in Names |-> [source |-> s, version |-> 0, quality |-> "good"]]
  /\ up = [s \in Names |-> TRUE]
  /\ tag = [s \in Names |-> None]
  /\ job = [j \in Jobs |-> IdleJob]
  /\ disk = [i \in Inodes |-> IF i = 1 THEN Whole(Installed) ELSE Empty]
  /\ tmp = None
  /\ out = 1
  /\ met = FALSE
  /\ target = [t \in Targets |-> [served |-> Whole(Installed), healthy |-> FALSE]]
  /\ restarts = 0

-----------------------------------------------------------------------------
(* The sources                                                             *)

Versions == {remote[s].version : s \in Names}

Edit(s) ==
  /\ \E n \in 1 .. EditBound :
       /\ \A m \in Versions : m < n
       /\ n - 1 \in Versions
       /\ \E q \in Qualities :
            remote' = [remote EXCEPT ![s] = [source |-> s, version |-> n, quality |-> q]]
  /\ UNCHANGED <<up, tag, job, files, target, restarts>>

Outage(s) ==
  /\ up' = [up EXCEPT ![s] = ~@]
  /\ UNCHANGED <<remote, tag, job, files, target, restarts>>

-----------------------------------------------------------------------------
(* SyncOnce, lines 699-804                                                 *)

Source(j) == Sources[job[j].at]

Finished(j, result) ==
  [IdleJob EXCEPT !.result = result, !.data = IF result = "ok" THEN job[j].data ELSE None]

(* Start that stays with the source that was used last.                    *)
StartSticky(j) ==
  /\ job[j].pc = "idle"
  /\ job' = [job EXCEPT ![j] =
       [IdleJob EXCEPT !.pc = "fetch",
                       !.at = IF job[j].data \in {None, remote[Sources[1]]} THEN 1 ELSE 2]]
  /\ UNCHANGED <<world, tag, files, target, restarts>>

Start(j) ==
  /\ job[j].pc = "idle"
  /\ job' = [job EXCEPT ![j] = [IdleJob EXCEPT !.pc = "fetch"]]
  /\ UNCHANGED <<world, tag, files, target, restarts>>

(* The request carries the ETag the provider remembers now; the source     *)
(* answers.                                                                *)
Request(j) ==
  /\ job[j].pc = "fetch"
  /\ job[j].at <= Len(Sources)
  /\ LET s == Source(j)
     IN  job' = [job EXCEPT ![j].pc = "answered",
                            ![j].answer = CASE ~up[s] -> Unreachable
                                            [] up[s] /\ tag[s] = remote[s].version -> NotModified
                                            [] OTHER -> remote[s]]
  /\ UNCHANGED <<world, tag, files, target, restarts>>

Unusable(answer) == answer \in {Unreachable, NotModified}

(* A status other than 200, 304 among them, is an error of Fetch.          *)
NextSource(j) == job' = [job EXCEPT ![j].pc = "fetch", ![j].at = @ + 1, ![j].answer = None]

FetchFails(j) ==
  /\ job[j].pc = "answered"
  /\ Unusable(job[j].answer)
  /\ NextSource(j)
  /\ UNCHANGED <<world, tag, files, target, restarts>>

(* The ETag is remembered before the body is read, which may fail when the *)
(* source has gone meanwhile, and before it is parsed.                     *)
Fetched(j) ==
  /\ job[j].pc = "answered"
  /\ ~Unusable(job[j].answer)
  /\ tag' = IF Source(j) \in Tagged THEN [tag EXCEPT ![Source(j)] = job[j].answer.version] ELSE tag
  /\ \/ /\ job[j].answer.quality = "broken" \/ ~up[Source(j)]
        /\ NextSource(j)
     \/ /\ job[j].answer.quality # "broken"
        /\ job' = [job EXCEPT ![j].pc = "lint", ![j].answer = None, ![j].data = job[j].answer]
  /\ UNCHANGED <<world, files, target, restarts>>

AllFailed(j) ==
  /\ job[j].pc = "fetch"
  /\ job[j].at > Len(Sources)
  /\ job' = [job EXCEPT ![j] = Finished(j, "failed")]
  /\ UNCHANGED <<world, tag, files, target, restarts>>

(* Lint with errors taken for warnings.                                    *)
LintWarnsOnly(j) ==
  /\ job[j].pc = "lint"
  /\ job' = [job EXCEPT ![j].pc = IF Output = "api" THEN "push" ELSE "open"]
  /\ UNCHANGED <<world, tag, files, target, restarts>>

(* A lint error ends the sync; no other source is tried.                   *)
Lint(j) ==
  /\ job[j].pc = "lint"
  /\ job' = IF job[j].data.quality = "dirty"
              THEN [job EXCEPT ![j] = Finished(j, "lint")]
              ELSE [job EXCEPT ![j].pc = IF Output = "api" THEN "push" ELSE "open"]
  /\ UNCHANGED <<world, tag, files, target, restarts>>

-----------------------------------------------------------------------------
(* writeFileOutput, lines 845-874                                          *)

Unused == CHOOSE i \in Inodes : i \notin {tmp, out} \union {job[j].handle : j \in Jobs}

AtFile(j) == job[j].pc \in {"write", "rename", "cleanup"}

Meeting(j) == met \/ \E k \in Jobs \ {j} : AtFile(k)

(* Open writing the published file in place.                               *)
OpenInPlace(j) ==
  /\ job[j].pc = "open"
  /\ disk' = [disk EXCEPT ![out] = Empty]
  /\ job' = [job EXCEPT ![j].pc = "write", ![j].handle = out]
  /\ met' = Meeting(j)
  /\ UNCHANGED <<world, tag, tmp, out, target, restarts>>

(* os.WriteFile opens with O_CREATE and O_TRUNC ...                        *)
Open(j) ==
  /\ job[j].pc = "open"
  /\ LET i == IF ~Atomic THEN out ELSE IF tmp # None THEN tmp ELSE Unused
     IN  /\ disk' = [disk EXCEPT ![i] = Empty]
         /\ tmp' = IF Atomic THEN i ELSE tmp
         /\ job' = [job EXCEPT ![j].pc = "write", ![j].handle = i]
  /\ met' = Meeting(j)
  /\ UNCHANGED <<world, tag, out, target, restarts>>

AfterFile(j) ==
  IF Output = "both"
    THEN [job EXCEPT ![j].pc = "push", ![j].handle = None]
    ELSE [job EXCEPT ![j] = Finished(j, "ok")]

(* What a write leaves that has not come to its end.                       *)
Partly(j) == Torn(disk[job[j].handle].pieces \union {job[j].data})

(* ... and writes from offset 0: over another goroutine's longer data, the *)
(* rest of those stays.                                                    *)
Write(j) ==
  /\ job[j].pc = "write"
  /\ \E c \in IF disk[job[j].handle].pieces \subseteq {job[j].data} THEN {Whole(job[j].data)}
                ELSE {Whole(job[j].data), Partly(j)} :
       disk' = [disk EXCEPT ![job[j].handle] = c]
  /\ job' = IF Atomic THEN [job EXCEPT ![j].pc = "rename", ![j].handle = None] ELSE AfterFile(j)
  /\ UNCHANGED <<world, tag, tmp, out, met, target, restarts>>

Rename(j) ==
  /\ job[j].pc = "rename"
  /\ tmp # None
  /\ out' = tmp
  /\ tmp' = None
  /\ job' = AfterFile(j)
  /\ UNCHANGED <<world, tag, disk, met, target, restarts>>

RenameFails(j) ==
  /\ job[j].pc = "rename"
  /\ tmp = None \/ DiskFails
  /\ job' = [job EXCEPT ![j].pc = "cleanup"]
  /\ UNCHANGED <<world, tag, files, target, restarts>>

Cleanup(j) ==
  /\ job[j].pc = "cleanup"
  /\ tmp' = None
  /\ job' = [job EXCEPT ![j] = Finished(j, "failed")]
  /\ UNCHANGED <<world, tag, disk, out, met, target, restarts>>

(* os.WriteFile fails to open the file, or when nothing, or a part, has    *)
(* been written.                                                           *)
WriteFails(j) ==
  /\ DiskFails
  /\ \/ job[j].pc \in {"open", "write"} /\ UNCHANGED disk
     \/ job[j].pc = "write" /\ disk' = [disk EXCEPT ![job[j].handle] = Partly(j)]
  /\ job' = [job EXCEPT ![j] = Finished(j, "failed")]
  /\ UNCHANGED <<world, tag, tmp, out, met, target, restarts>>

-----------------------------------------------------------------------------
(* pushToTargets, lines 891-1013                                           *)

(* The file of a redirector.                                               *)
TargetFile == IF Output = "api" THEN Whole(Installed) ELSE disk[out]

(* What it may load when told to: its file, or what it reads while a slower*)
(* sync writes on in it, unless that is empty.                             *)
Loadable ==
  ({TargetFile} \union
     {Partly(k) : k \in {k \in Jobs : Output # "api" /\ job[k].pc = "write" /\ job[k].handle = out}})
  \ {Empty}

Settled(j, t, how, served) ==
  /\ job' = [job EXCEPT ![j].push[t] = how]
  /\ target' = [target EXCEPT ![t] = [served |-> served, healthy |-> how = "ok"]]

Pushing(j, t) == job[j].pc = "push" /\ job[j].push[t] = "pending"

PushSucceeds(j, t) ==
  /\ Pushing(j, t)
  /\ \E served \in Loadable : Settled(j, t, "ok", served)
  /\ UNCHANGED <<world, tag, files, restarts>>

(* PushFails that leaves the flag of the last success.                     *)
PushFailsHealthy(j, t) ==
  /\ Pushing(j, t)
  /\ job' = IF job[j].tries[t] < Attempts THEN [job EXCEPT ![j].tries[t] = @ + 1]
              ELSE [job EXCEPT ![j].push[t] = "failed"]
  /\ UNCHANGED <<world, tag, files, target, restarts>>

(* A try fails: the redirector was not reached or has not loaded its file, *)
(* or it has reloaded and the answer is lost.                              *)
PushFails(j, t) ==
  /\ Pushing(j, t)
  /\ \E served \in {target[t].served} \union Loadable :
       IF job[j].tries[t] < Attempts
         THEN /\ job' = [job EXCEPT ![j].tries[t] = @ + 1]
              /\ target' = [target EXCEPT ![t].served = served]
         ELSE Settled(j, t, "failed", served)
  /\ UNCHANGED <<world, tag, files, restarts>>

(* The 30 seconds of a webhook's context end during a backoff.             *)
GiveUp(j, t) ==
  /\ Pushing(j, t)
  /\ job[j].tries[t] > 0
  /\ Settled(j, t, "failed", target[t].served)
  /\ UNCHANGED <<world, tag, files, restarts>>

(* CollectPushes, content with one target out of all.                      *)
CollectAny(j) ==
  /\ job[j].pc = "push"
  /\ \A t \in Targets : job[j].push[t] # "pending"
  /\ job' = [job EXCEPT ![j] =
       Finished(j, IF \E t \in Targets : job[j].push[t] = "ok" THEN "ok" ELSE "failed")]
  /\ UNCHANGED <<world, tag, files, target, restarts>>

CollectPushes(j) ==
  /\ job[j].pc = "push"
  /\ \A t \in Targets : job[j].push[t] # "pending"
  /\ job' = [job EXCEPT ![j] =
       Finished(j, IF \A t \in Targets : job[j].push[t] = "ok" THEN "ok" ELSE "failed")]
  /\ UNCHANGED <<world, tag, files, target, restarts>>

-----------------------------------------------------------------------------
(* The process dies, perhaps while it writes, and is started again; files  *)
(* and redirectors stay.                                                   *)
Restart ==
  /\ restarts < RestartBound
  /\ restarts' = restarts + 1
  /\ tag' = [s \in Names |-> None]
  /\ job' = [j \in Jobs |-> IdleJob]
  /\ target' = [t \in Targets |-> [target[t] EXCEPT !.healthy = FALSE]]
  /\ \E cut \in SUBSET {j \in Jobs : job[j].pc = "write"} :
       disk' = [i \in Inodes |->
         LET last == {j \in cut : job[j].handle = i}
         IN  IF last = {} THEN disk[i]
             ELSE Torn(disk[i].pieces \union {job[j].data : j \in last})]
  /\ UNCHANGED <<world, tmp, out, met>>

Fetch(j) == Request(j) \/ FetchFails(j) \/ Fetched(j) \/ AllFailed(j) \/ Lint(j)

WriteFile(j) ==
  Open(j) \/ Write(j) \/ Rename(j) \/ RenameFails(j) \/ Cleanup(j) \/ WriteFails(j)

Push(j) == (\E t \in Targets : PushSucceeds(j, t) \/ PushFails(j, t)) \/ CollectPushes(j)

Sync(j) == Start(j) \/ Fetch(j) \/ WriteFile(j) \/ Push(j)

Next ==
  \/ \E s \in Names : Edit(s) \/ Outage(s)
  \/ \E j \in Jobs : Sync(j)
  \/ \E j \in Hooks, t \in Targets : GiveUp(j, t)
  \/ Restart

(* The ticker ticks and requests, writes and tries end: http.Client and the*)
(* push have timeouts.                                                     *)
Fairness == \A j \in Loops : WF_vars(Sync(j))

Spec == Init /\ [][Next]_vars /\ Fairness

-----------------------------------------------------------------------------
(* Properties                                                              *)

Passed(c) == \A d \in c.pieces : d.quality = "good"

(* Whatever fails and whenever the syncer dies, the published file and what*)
(* every redirector serves are whole and have passed parsing and lint      *)
(* (lines 730-756 and 856-864, server.go lines 899-905).                   *)
OutputIsGood ==
  \A c \in {disk[out]} \union {target[t].served : t \in Targets} : ~c.torn /\ Passed(c)

(* However two syncs race for path.tmp, nothing that parsing or lint       *)
(* refused leaves as much as a part of it in a file or with a redirector;  *)
(* and a file is published torn, or served torn, only after two syncs have *)
(* been at it at the same time (lines 730-756 and 845-874, server.go lines *)
(* 899-905).                                                               *)
OnlyVettedIsPublished ==
  /\ \A i \in Inodes : Passed(disk[i])
  /\ \A t \in Targets : target[t].served # Empty /\ Passed(target[t].served)
  /\ Atomic /\ ~met => OutputIsGood

(* When a sync with file and push output reports success, the file and     *)
(* every redirector have its configuration, until the next one starts:     *)
(* file first, then all the targets, and every failure is collected        *)
(* (lines 835-839 and 891-928).                                            *)
SuccessIsServed ==
  \A j \in Jobs :
    job[j].result = "ok" =>
      /\ disk[out] = Whole(job[j].data)
      /\ \A t \in Targets : target[t].served = Whole(job[j].data)

(* A redirector marked healthy serves a configuration that is in the file  *)
(* now, or a sync is about to tell it of another (lines 898-906).          *)
HealthyIsCurrent ==
  \A t \in Targets :
    target[t].healthy => \/ target[t].served = TargetFile
                         \/ \E j \in Jobs : job[j].pc = "push" /\ job[j].push[t] = "pending"

(* "Failover: Use backup when primary fails" (docs/FEATURES.md:537): once  *)
(* the first source stays up with a good configuration, that configuration *)
(* is published and stays.                                                 *)
PrimaryPrevails ==
  LET first == Sources[1]
  IN  <>[](up[first] /\ remote[first].quality = "good") => <>[](disk[out] = Whole(remote[first]))
=============================================================================
