------------------------- MODULE FailoverSyncProofs -------------------------
(***************************************************************************)
(* OnlyVettedIsPublished of FailoverSync for any sources, targets, output, *)
(* retries, edits, restarts and failing disks, and any finite number of    *)
(* syncs that run at the same time; and for one sync at a time, with no    *)
(* webhook to race for the temporary file, OutputIsGood, SuccessIsServed   *)
(* and HealthyIsCurrent.                                                   *)
(***************************************************************************)
EXTENDS FailoverSync, FiniteSetTheorems, TLAPS

JobType ==
  [pc : {"idle", "fetch", "answered", "lint", "open", "write", "rename", "cleanup", "push"},
   at : Nat \ {0},
   answer : Content \union {None, Unreachable, NotModified},
   data : Content \union {None},
   handle : Inodes \union {None},
   push : [Targets -> {"pending", "ok", "failed"}],
   tries : [Targets -> Nat],
   result : {None, "ok", "failed", "lint"}]

FileType == [pieces : SUBSET (Content \union {Installed}), torn : BOOLEAN]

Types ==
  /\ remote \in [Names -> Content]
  /\ job \in [Jobs -> JobType]
  /\ disk \in [Inodes -> FileType]
  /\ tmp \in Inodes \union {None} /\ out \in Inodes
  /\ target \in [Targets -> [served : FileType, healthy : BOOLEAN]]

(* What a sync has in hand has got as far as its program counter says.     *)
Vetted(d) ==
  /\ d.pc = "answered" => d.answer \in Content \union {Unreachable, NotModified}
  /\ d.pc = "lint" => d.data \in Content /\ d.data.quality # "broken"
  /\ d.pc \in {"open", "write", "rename", "cleanup", "push"} =>
       d.data \in Content /\ d.data.quality = "good"
  /\ d.pc = "write" => d.handle \in Inodes
  /\ d.pc \in {"fetch", "answered", "lint", "open"} => d.handle = None

NothingRefused ==
  /\ \A i \in Inodes : Passed(disk[i])
  /\ \A t \in Targets : target[t].served # Empty /\ Passed(target[t].served)

IInv == Types /\ (\A j \in Jobs : Vetted(job[j])) /\ NothingRefused

LEMMA WholeType ==
  ASSUME NEW c \in Content \union {Installed}, c.quality = "good"
  PROVE  Whole(c) \in FileType /\ Passed(Whole(c)) /\ Whole(c) # Empty /\ ~Whole(c).torn
BY DEF Whole, FileType, Passed, Empty, Torn

LEMMA EmptyType == Empty \in FileType /\ Passed(Empty)
BY DEF Empty, Torn, FileType, Passed

LEMMA PartlyType ==
  ASSUME NEW f \in FileType, Passed(f), NEW more \in SUBSET Content,
         \A c \in more : c.quality = "good"
  PROVE  Torn(f.pieces \union more) \in FileType /\ Passed(Torn(f.pieces \union more))
BY DEF Torn, FileType, Passed

LEMMA JobsFinite == IsFiniteSet(Jobs) /\ Cardinality(Jobs) \in Nat
BY JobsAssumption, FS_Union, FS_CardinalityType DEF Jobs

LEMMA IdleJobType == IdleJob \in JobType /\ Vetted(IdleJob)
BY AttemptsAssumption DEF IdleJob, JobType, Vetted

LEMMA IdleHasNone == IdleJob.handle = None
BY DEF IdleJob

LEMMA InvInit == Init => IInv
<1> SUFFICES ASSUME Init PROVE IInv
  OBVIOUS
<1>1. 1 \in Inodes
  BY JobsFinite DEF Inodes
<1>2. /\ Whole(Installed) \in FileType /\ Passed(Whole(Installed))
      /\ Whole(Installed) # Empty
  BY WholeType DEF Installed
<1>3. remote \in [Names -> Content]
  BY EditBoundAssumption DEF Init, Content, Qualities
<1>4. disk \in [Inodes -> FileType] /\ \A i \in Inodes : Passed(disk[i])
  BY <1>2, EmptyType DEF Init
<1>5. job \in [Jobs -> JobType] /\ \A j \in Jobs : Vetted(job[j])
  BY IdleJobType DEF Init
<1>6. target \in [Targets -> [served : FileType, healthy : BOOLEAN]]
  BY <1>2 DEF Init
<1>7. \A t \in Targets : target[t].served # Empty /\ Passed(target[t].served)
  BY <1>2 DEF Init
<1> QED
  BY <1>1, <1>3, <1>4, <1>5, <1>6, <1>7 DEF Init, IInv, Types, NothingRefused

-----------------------------------------------------------------------------
(* There is an inode to spare for path.tmp: a sync that opens holds none.  *)
LEMMA Spare ==
  ASSUME Types, NEW j \in Jobs, job[j].handle = None, tmp = None
  PROVE  Unused \in Inodes /\ Unused # out
<1> DEFINE Handles == {job[k].handle : k \in Jobs}
           Held    == Handles \union {out}
           f       == [k \in Jobs |-> job[k].handle]
<1>1. IsFiniteSet(Handles) /\ Cardinality(Handles) <= Cardinality(Jobs)
  <2>1. f \in Surjection(Jobs, Handles)
    BY DEF Surjection
  <2> QED
    BY <2>1, JobsFinite, FS_Surjection
<1>2. IsFiniteSet(Held) /\ Cardinality(Held) <= Cardinality(Jobs) + 1
  <2> HIDE DEF Handles
  <2>1. Cardinality(Handles) \in Nat
    BY <1>1, FS_CardinalityType
  <2>2. IsFiniteSet(Held) /\ Cardinality(Held) <= Cardinality(Handles) + 1
    <3>1. /\ IsFiniteSet(Handles \union {out})
          /\ Cardinality(Handles \union {out}) =
               IF out \in Handles THEN Cardinality(Handles) ELSE Cardinality(Handles) + 1
      BY <1>1, FS_AddElement, Zenon
    <3> QED
      BY <2>1, <3>1
  <2>3. Cardinality(Held) \in Nat
    BY <2>2, FS_CardinalityType
  <2> HIDE DEF Held
  <2> QED
    BY <1>1, <2>1, <2>2, <2>3, JobsFinite
<1>3. IsFiniteSet(Inodes) /\ Cardinality(Inodes) = Cardinality(Jobs) + 2
  BY JobsFinite, FS_Interval DEF Inodes
<1>4. PICK i \in Inodes : i \notin Held
  <2> SUFFICES ASSUME Inodes \subseteq Held PROVE FALSE
    OBVIOUS
  <2> HIDE DEF Held
  <2>1. Cardinality(Inodes) <= Cardinality(Held)
    BY <1>2, FS_Subset
  <2> QED
    BY <1>2, <1>3, <2>1, JobsFinite, FS_CardinalityType
<1>5. None \notin Inodes
  BY NoneAssumption DEF Inodes
<1>6. i \notin {tmp, out} \union {job[k].handle : k \in Jobs}
  BY <1>4, <1>5
<1> QED
  BY <1>6 DEF Unused

-----------------------------------------------------------------------------
(* What a step needs to show when it changes the job of one goroutine.     *)
LEMMA OneJob ==
  ASSUME IInv, NEW j \in Jobs, NEW d \in JobType, Vetted(d),
         job' = [job EXCEPT ![j] = d]
  PROVE  job' \in [Jobs -> JobType] /\ \A k \in Jobs : Vetted(job'[k])
BY DEF IInv, Types

LEMMA WorldStep ==
  ASSUME IInv, NEW s \in Names, Edit(s) \/ Outage(s)
  PROVE  IInv'
<1>1. remote' \in [Names -> Content]
  <2>1. CASE Edit(s)
    BY <2>1, EditBoundAssumption DEF Edit, IInv, Types, Content
  <2>2. CASE Outage(s)
    BY <2>2 DEF Outage, IInv, Types
  <2> QED
    BY <2>1, <2>2
<1>2. UNCHANGED <<job, disk, tmp, out, target>>
  BY DEF Edit, Outage, files
<1> QED
  BY <1>1, <1>2 DEF IInv, Types, NothingRefused, Vetted

LEMMA StartStep ==
  ASSUME IInv, NEW j \in Jobs, Start(j)
  PROVE  IInv'
<1> DEFINE d == [IdleJob EXCEPT !.pc = "fetch"]
<1>1. d \in JobType /\ Vetted(d)
  BY IdleJobType, IdleHasNone DEF JobType, Vetted
<1>2. job' = [job EXCEPT ![j] = d] /\ UNCHANGED <<remote, disk, tmp, out, target>>
  BY DEF Start, world, files
<1>3. job' \in [Jobs -> JobType] /\ \A k \in Jobs : Vetted(job'[k])
  <2> HIDE DEF d
  <2> QED
    BY <1>1, <1>2, OneJob
<1> QED
  BY <1>2, <1>3 DEF IInv, Types, NothingRefused

LEMMA FinishedType ==
  ASSUME IInv, NEW j \in Jobs, NEW result \in {"ok", "failed", "lint"}
  PROVE  Finished(j, result) \in JobType /\ Vetted(Finished(j, result))
BY IdleJobType DEF Finished, IInv, Types, JobType, Vetted, IdleJob

(* A step that ends a sync, or changes its job as d does, and nothing that *)
(* is published.                                                           *)
LEMMA Unpublished ==
  ASSUME IInv, NEW j \in Jobs, NEW d \in JobType, Vetted(d),
         job' = [job EXCEPT ![j] = d],
         UNCHANGED <<remote, disk, out, target>>, tmp' \in Inodes \union {None}
  PROVE  IInv'
<1>1. job' \in [Jobs -> JobType] /\ \A k \in Jobs : Vetted(job'[k])
  BY OneJob
<1> QED
  BY <1>1 DEF IInv, Types, NothingRefused

LEMMA FetchStep ==
  ASSUME IInv, NEW j \in Jobs, Fetch(j)
  PROVE  IInv'
<1>1. job[j] \in JobType /\ Vetted(job[j])
  BY DEF IInv, Types
<1>2. UNCHANGED <<remote, disk, out, target, tmp>> /\ tmp \in Inodes \union {None}
  BY DEF Fetch, Request, FetchFails, Fetched, AllFailed, Lint, world, files, IInv, Types
<1>3. ASSUME Request(j) PROVE IInv'
  <2> DEFINE s == Source(j)
             answer == CASE ~up[s] -> Unreachable
                         [] up[s] /\ tag[s] = remote[s].version -> NotModified
                         [] OTHER -> remote[s]
             d == [job[j] EXCEPT !.pc = "answered", !.answer = answer]
  <2>1. s \in Names
    <3>1. job[j].at \in DOMAIN Sources
      BY <1>1, <1>3, SourcesAssumption DEF JobType, Request
    <3> QED
      BY <3>1 DEF Names, Source
  <2>2. answer \in Content \union {Unreachable, NotModified}
    BY <2>1 DEF IInv, Types
  <2>4. job' = [job EXCEPT ![j] = d]
    BY <1>1, <1>3 DEF Request, JobType, IInv, Types
  <2> HIDE DEF answer
  <2>5. job[j].handle = None
    BY <1>1, <1>3 DEF Request, Vetted
  <2>6. d \in JobType /\ Vetted(d)
    BY <1>1, <2>2, <2>5 DEF JobType, Vetted
  <2> HIDE DEF d
  <2> QED
    BY <1>2, <2>4, <2>6, Unpublished
<1>4. ASSUME FetchFails(j) \/ Fetched(j), job' = [job EXCEPT ![j].pc = "fetch", ![j].at = @ + 1, ![j].answer = None]
      PROVE  IInv'
  <2> DEFINE d == [job[j] EXCEPT !.pc = "fetch", !.at = @ + 1, !.answer = None]
  <2>1. job' = [job EXCEPT ![j] = d]
    BY <1>1, <1>4 DEF IInv, Types, JobType
  <2>2. job[j].handle = None
    BY <1>1, <1>4 DEF FetchFails, Fetched, Vetted
  <2>3. job[j].at + 1 \in Nat \ {0}
    BY <1>1 DEF JobType
  <2>4. d \in JobType /\ Vetted(d)
    BY <1>1, <2>2, <2>3 DEF JobType, Vetted
  <2> HIDE DEF d
  <2> QED
    BY <1>2, <2>1, <2>4, Unpublished
<1>5. ASSUME Fetched(j), job[j].answer.quality # "broken",
             job' = [job EXCEPT ![j].pc = "lint", ![j].answer = None, ![j].data = job[j].answer]
      PROVE  IInv'
  <2> DEFINE d == [job[j] EXCEPT !.pc = "lint", !.answer = None, !.data = job[j].answer]
  <2>1. job' = [job EXCEPT ![j] = d]
    BY <1>1, <1>5 DEF IInv, Types, JobType
  <2>2. job[j].answer \in Content
    BY <1>1, <1>5 DEF Fetched, Unusable, Vetted
  <2>3. job[j].handle = None /\ job[j].answer.quality # "broken"
    BY <1>1, <1>5 DEF Fetched, Vetted
  <2>4. d \in JobType /\ Vetted(d)
    BY <1>1, <2>2, <2>3 DEF JobType, Vetted
  <2> HIDE DEF d
  <2> QED
    BY <1>2, <2>1, <2>4, Unpublished
<1>6. ASSUME AllFailed(j) PROVE IInv'
  <2>1. job' = [job EXCEPT ![j] = Finished(j, "failed")]
    BY <1>6 DEF AllFailed
  <2> QED
    BY <1>2, <2>1, FinishedType, Unpublished
<1>7. ASSUME Lint(j), job[j].data.quality = "dirty" PROVE IInv'
  <2>1. job' = [job EXCEPT ![j] = Finished(j, "lint")]
    BY <1>7 DEF Lint
  <2> QED
    BY <1>2, <2>1, FinishedType, Unpublished
<1>8. ASSUME Lint(j), job[j].data.quality # "dirty" PROVE IInv'
  <2> DEFINE d == [job[j] EXCEPT !.pc = IF Output = "api" THEN "push" ELSE "open"]
  <2>1. job' = [job EXCEPT ![j] = d]
    BY <1>1, <1>8 DEF Lint, IInv, Types, JobType
  <2>2. job[j].pc = "lint" /\ job[j].data \in Content /\ job[j].data.quality = "good"
    BY <1>1, <1>8 DEF Lint, Vetted, Content, Qualities
  <2>3. job[j].handle = None
    BY <1>1, <2>2 DEF Vetted
  <2>4. d \in JobType /\ Vetted(d)
    BY <1>1, <2>2, <2>3 DEF JobType, Vetted
  <2> HIDE DEF d
  <2> QED
    BY <1>2, <2>1, <2>4, Unpublished
<1> QED
  BY <1>3, <1>4, <1>5, <1>6, <1>7, <1>8 DEF Fetch, FetchFails, Fetched, NextSource, Lint

-----------------------------------------------------------------------------
(* The file                                                                *)

LEMMA GoodData ==
  ASSUME IInv, NEW j \in Jobs, job[j].pc \in {"open", "write", "rename", "cleanup", "push"}
  PROVE  job[j].data \in Content /\ job[j].data.quality = "good"
BY DEF IInv, Vetted

LEMMA PartlyGood ==
  ASSUME IInv, NEW j \in Jobs, job[j].pc = "write"
  PROVE  Partly(j) \in FileType /\ Passed(Partly(j))
<1>1. job[j].data \in Content /\ job[j].data.quality = "good" /\ job[j].handle \in Inodes
  BY GoodData DEF IInv, Vetted
<1> QED
  BY <1>1, PartlyType DEF Partly, IInv, Types, NothingRefused

LEMMA OpenStep ==
  ASSUME IInv, NEW j \in Jobs, Open(j)
  PROVE  IInv'
<1> DEFINE i == IF ~Atomic THEN out ELSE IF tmp # None THEN tmp ELSE Unused
           d == [job[j] EXCEPT !.pc = "write", !.handle = i]
<1>1. job[j] \in JobType /\ Vetted(job[j]) /\ job[j].pc = "open"
  BY DEF IInv, Types, Open
<1>2. i \in Inodes
  <2>1. Unused \in Inodes \/ tmp # None
    BY <1>1, Spare DEF IInv, Vetted
  <2> QED
    BY <2>1 DEF IInv, Types
<1>3. /\ job' = [job EXCEPT ![j] = d] /\ disk' = [disk EXCEPT ![i] = Empty]
      /\ tmp' \in Inodes \union {None} /\ UNCHANGED <<remote, out, target>>
  BY <1>1, <1>2 DEF Open, IInv, Types, JobType, world
<1> HIDE DEF i
<1>4. d \in JobType /\ Vetted(d)
  BY <1>1, <1>2 DEF JobType, Vetted
<1> HIDE DEF d
<1>5. job' \in [Jobs -> JobType] /\ \A k \in Jobs : Vetted(job'[k])
  BY <1>3, <1>4, OneJob
<1>6. disk' \in [Inodes -> FileType] /\ \A k \in Inodes : Passed(disk'[k])
  BY <1>2, <1>3, EmptyType DEF IInv, Types, NothingRefused
<1> QED
  BY <1>3, <1>5, <1>6 DEF IInv, Types, NothingRefused

LEMMA AfterFileType ==
  ASSUME IInv, NEW j \in Jobs, job[j].pc \in {"write", "rename"}
  PROVE  \E d \in JobType : Vetted(d) /\ AfterFile(j) = [job EXCEPT ![j] = d]
<1>1. job[j] \in JobType /\ Vetted(job[j])
  BY DEF IInv, Types
<1>2. CASE Output = "both"
  <2> DEFINE d == [job[j] EXCEPT !.pc = "push", !.handle = None]
  <2>1. AfterFile(j) = [job EXCEPT ![j] = d]
    BY <1>1, <1>2 DEF AfterFile, IInv, Types, JobType
  <2>2. d \in JobType /\ Vetted(d)
    BY <1>1, GoodData DEF JobType, Vetted
  <2> HIDE DEF d
  <2> QED
    BY <2>1, <2>2
<1>3. CASE Output # "both"
  BY <1>3, FinishedType DEF AfterFile
<1> QED
  BY <1>2, <1>3

LEMMA WriteStep ==
  ASSUME IInv, NEW j \in Jobs, Write(j)
  PROVE  IInv'
<1> DEFINE h == job[j].handle
<1>1. job[j] \in JobType /\ Vetted(job[j]) /\ job[j].pc = "write" /\ h \in Inodes
  BY DEF IInv, Types, Write, Vetted
<1>2. job[j].data \in Content /\ job[j].data.quality = "good"
  BY <1>1, GoodData
<1>3. PICK c \in {Whole(job[j].data), Partly(j)} : disk' = [disk EXCEPT ![h] = c]
  BY DEF Write
<1>4. \E d \in JobType : Vetted(d) /\ job' = [job EXCEPT ![j] = d]
  <2>1. CASE Atomic
    <3> DEFINE d == [job[j] EXCEPT !.pc = "rename", !.handle = None]
    <3>1. job' = [job EXCEPT ![j] = d]
      BY <1>1, <2>1 DEF Write, IInv, Types, JobType
    <3>2. d \in JobType /\ Vetted(d)
      BY <1>1, <1>2 DEF JobType, Vetted
    <3> HIDE DEF d
    <3> QED
      BY <3>1, <3>2
  <2>2. CASE ~Atomic
    BY <1>1, <2>2, AfterFileType DEF Write
  <2> QED
    BY <2>1, <2>2
<1>5. job' \in [Jobs -> JobType] /\ \A k \in Jobs : Vetted(job'[k])
  BY <1>4, OneJob
<1>8. c \in FileType /\ Passed(c)
  BY <1>1, <1>2, PartlyGood, WholeType
<1> HIDE DEF h
<1>6. disk' \in [Inodes -> FileType] /\ \A k \in Inodes : Passed(disk'[k])
  BY <1>1, <1>3, <1>8 DEF IInv, Types, NothingRefused
<1>7. UNCHANGED <<remote, tmp, out, target>>
  BY DEF Write, world
<1> QED
  BY <1>5, <1>6, <1>7 DEF IInv, Types, NothingRefused

LEMMA RenameStep ==
  ASSUME IInv, NEW j \in Jobs, Rename(j)
  PROVE  IInv'
<1>1. job[j].pc = "rename" /\ job' = AfterFile(j)
  BY DEF Rename
<1>2. job' \in [Jobs -> JobType] /\ \A k \in Jobs : Vetted(job'[k])
  BY <1>1, AfterFileType, OneJob
<1> QED
  BY <1>2 DEF Rename, world, IInv, Types, NothingRefused

LEMMA FileFailsStep ==
  ASSUME IInv, NEW j \in Jobs, RenameFails(j) \/ Cleanup(j) \/ WriteFails(j)
  PROVE  IInv'
<1>1. job[j] \in JobType /\ Vetted(job[j])
  BY DEF IInv, Types
<1>2. UNCHANGED <<remote, out, target>> /\ tmp' \in Inodes \union {None}
  BY DEF RenameFails, Cleanup, WriteFails, world, files, IInv, Types
<1>3. CASE RenameFails(j)
  <2> DEFINE d == [job[j] EXCEPT !.pc = "cleanup"]
  <2>1. job' = [job EXCEPT ![j] = d]
    BY <1>1, <1>3 DEF RenameFails, IInv, Types, JobType
  <2>2. d \in JobType /\ Vetted(d)
    BY <1>1, <1>3, GoodData DEF RenameFails, JobType, Vetted
  <2>3. UNCHANGED disk
    BY <1>3 DEF RenameFails, files
  <2> HIDE DEF d
  <2> QED
    BY <1>2, <2>1, <2>2, <2>3, Unpublished
<1>4. CASE (Cleanup(j) \/ WriteFails(j)) /\ UNCHANGED disk
  <2>1. job' = [job EXCEPT ![j] = Finished(j, "failed")]
    BY <1>4 DEF Cleanup, WriteFails
  <2> QED
    BY <1>2, <1>4, <2>1, FinishedType, Unpublished
<1>5. CASE /\ WriteFails(j) /\ job[j].pc = "write"
           /\ disk' = [disk EXCEPT ![job[j].handle] = Partly(j)]
  <2>1. job' = [job EXCEPT ![j] = Finished(j, "failed")]
    BY <1>5 DEF WriteFails
  <2>2. job' \in [Jobs -> JobType] /\ \A k \in Jobs : Vetted(job'[k])
    BY <2>1, FinishedType, OneJob
  <2>3. disk' \in [Inodes -> FileType] /\ \A i \in Inodes : Passed(disk'[i])
    BY <1>5, PartlyGood DEF IInv, Types, NothingRefused
  <2> QED
    BY <1>2, <2>2, <2>3 DEF IInv, Types, NothingRefused
<1> QED
  BY <1>3, <1>4, <1>5 DEF Cleanup, WriteFails

-----------------------------------------------------------------------------
(* The targets                                                             *)

(* What a try to push needs to show: its job is as vetted as before, and   *)
(* the redirector serves what it served or its file.                       *)
LEMMA LoadableGood ==
  ASSUME IInv, NEW c \in Loadable
  PROVE  c \in FileType /\ Passed(c) /\ c # Empty
<1>1. CASE c = TargetFile
  <2>1. Whole(Installed) \in FileType /\ Passed(Whole(Installed))
    BY WholeType DEF Installed
  <2> QED
    BY <1>1, <2>1 DEF Loadable, TargetFile, IInv, Types, NothingRefused
<1>2. CASE \E k \in Jobs : job[k].pc = "write" /\ c = Partly(k)
  BY <1>2, PartlyGood DEF Loadable
<1> QED
  BY <1>1, <1>2 DEF Loadable

LEMMA PushedFile ==
  ASSUME IInv, NEW j \in Jobs, NEW t \in Targets,
         NEW d \in JobType, Vetted(d), job' = [job EXCEPT ![j] = d],
         NEW served \in {target[t].served} \union Loadable,
         NEW healthy \in BOOLEAN,
         target' = [target EXCEPT ![t] = [served |-> served, healthy |-> healthy]],
         UNCHANGED <<remote, disk, tmp, out>>
  PROVE  IInv'
<1>3. job' \in [Jobs -> JobType] /\ \A k \in Jobs : Vetted(job'[k])
  BY OneJob
<1>4. served \in FileType /\ Passed(served) /\ served # Empty
  BY LoadableGood DEF IInv, Types, NothingRefused
<1>5. /\ target' \in [Targets -> [served : FileType, healthy : BOOLEAN]]
      /\ \A u \in Targets : target'[u].served # Empty /\ Passed(target'[u].served)
  BY <1>4 DEF IInv, Types, NothingRefused
<1> QED
  BY <1>3, <1>5 DEF IInv, Types, NothingRefused

LEMMA PushStep ==
  ASSUME IInv, NEW j \in Jobs, NEW t \in Targets,
         PushSucceeds(j, t) \/ PushFails(j, t) \/ GiveUp(j, t)
  PROVE  IInv'
<1>1. job[j] \in JobType /\ Vetted(job[j])
  BY DEF IInv, Types
<1>2. UNCHANGED <<remote, disk, tmp, out>>
  BY DEF PushSucceeds, PushFails, GiveUp, world, files
<1>3. target[t] \in [served : FileType, healthy : BOOLEAN]
  BY DEF IInv, Types
<1>4. ASSUME NEW how \in {"ok", "failed"}, job' = [job EXCEPT ![j].push[t] = how]
      PROVE  \E d \in JobType : Vetted(d) /\ job' = [job EXCEPT ![j] = d]
  <2> DEFINE d == [job[j] EXCEPT !.push = [job[j].push EXCEPT ![t] = how]]
  <2>1. job' = [job EXCEPT ![j] = d]
    BY <1>1, <1>4 DEF IInv, Types, JobType
  <2>2. [job[j].push EXCEPT ![t] = how] \in [Targets -> {"pending", "ok", "failed"}]
    BY <1>1 DEF JobType
  <2>3. d \in JobType /\ Vetted(d)
    BY <1>1, <2>2 DEF JobType, Vetted
  <2> HIDE DEF d
  <2> QED
    BY <2>1, <2>3
<1>5. ASSUME NEW how \in {"ok", "failed"}, NEW served \in {target[t].served} \union Loadable,
             Settled(j, t, how, served)
      PROVE  IInv'
  <2> DEFINE healthy == how = "ok"
  <2>1. target' = [target EXCEPT ![t] = [served |-> served, healthy |-> healthy]] /\ healthy \in BOOLEAN
    BY <1>5 DEF Settled
  <2>2. \E d \in JobType : Vetted(d) /\ job' = [job EXCEPT ![j] = d]
    BY <1>4, <1>5 DEF Settled
  <2> HIDE DEF healthy
  <2> QED
    BY <1>2, <2>1, <2>2, PushedFile
<1>6. ASSUME PushFails(j, t) PROVE IInv'
  <2>1. PICK served \in {target[t].served} \union Loadable :
          IF job[j].tries[t] < Attempts
            THEN /\ job' = [job EXCEPT ![j].tries[t] = @ + 1]
                 /\ target' = [target EXCEPT ![t].served = served]
            ELSE Settled(j, t, "failed", served)
    BY <1>6 DEF PushFails
  <2>2. CASE job[j].tries[t] < Attempts
    <3> DEFINE d == [job[j] EXCEPT !.tries = [job[j].tries EXCEPT ![t] = @ + 1]]
    <3>1. job' = [job EXCEPT ![j] = d]
      BY <1>1, <2>1, <2>2 DEF IInv, Types, JobType
    <3>2. [job[j].tries EXCEPT ![t] = @ + 1] \in [Targets -> Nat]
      BY <1>1 DEF JobType
    <3>3. d \in JobType /\ Vetted(d)
      BY <1>1, <3>2 DEF JobType, Vetted
    <3>4. target' = [target EXCEPT ![t] = [served |-> served, healthy |-> target[t].healthy]]
      BY <1>3, <2>1, <2>2 DEF IInv, Types
    <3>5. target[t].healthy \in BOOLEAN
      BY <1>3
    <3> HIDE DEF d
    <3> QED
      BY <1>2, <3>1, <3>3, <3>4, <3>5, PushedFile
  <2> QED
    BY <1>5, <2>1, <2>2
<1> QED
  BY <1>5, <1>6 DEF PushSucceeds, GiveUp

LEMMA CollectStep ==
  ASSUME IInv, NEW j \in Jobs, CollectPushes(j)
  PROVE  IInv'
<1>1. UNCHANGED <<remote, disk, out, target>> /\ tmp' \in Inodes \union {None}
  BY DEF CollectPushes, world, files, IInv, Types
<1>2. PICK result \in {"ok", "failed"} : job' = [job EXCEPT ![j] = Finished(j, result)]
  BY DEF CollectPushes
<1> QED
  BY <1>1, <1>2, FinishedType, Unpublished

(* The goroutines that die while they write.                               *)
LEMMA CutFiles ==
  ASSUME IInv, NEW cut \in SUBSET {j \in Jobs : job[j].pc = "write"}, NEW i \in Inodes
  PROVE  LET last == {j \in cut : job[j].handle = i}
             file == IF last = {} THEN disk[i]
                     ELSE Torn(disk[i].pieces \union {job[j].data : j \in last})
         IN  file \in FileType /\ Passed(file)
<1> DEFINE last == {j \in cut : job[j].handle = i}
           more == {job[j].data : j \in last}
<1>1. more \in SUBSET Content /\ \A c \in more : c.quality = "good"
  BY GoodData
<1>2. disk[i] \in FileType /\ Passed(disk[i])
  BY DEF IInv, Types, NothingRefused
<1> HIDE DEF more
<1>3. Torn(disk[i].pieces \union more) \in FileType /\ Passed(Torn(disk[i].pieces \union more))
  BY <1>1, <1>2, PartlyType
<1> QED
  BY <1>2, <1>3 DEF more

LEMMA RestartStep ==
  ASSUME IInv, Restart
  PROVE  IInv'
<1>1. job' \in [Jobs -> JobType] /\ \A k \in Jobs : Vetted(job'[k])
  BY IdleJobType DEF Restart
<1>2. /\ target' \in [Targets -> [served : FileType, healthy : BOOLEAN]]
      /\ \A t \in Targets : target'[t].served = target[t].served
  BY DEF Restart, IInv, Types
<1>3. disk' \in [Inodes -> FileType] /\ \A i \in Inodes : Passed(disk'[i])
  <2>1. PICK cut \in SUBSET {j \in Jobs : job[j].pc = "write"} :
          disk' = [i \in Inodes |->
            LET last == {j \in cut : job[j].handle = i}
            IN  IF last = {} THEN disk[i]
                ELSE Torn(disk[i].pieces \union {job[j].data : j \in last})]
    BY DEF Restart
  <2> QED
    BY <2>1, CutFiles
<1> QED
  BY <1>1, <1>2, <1>3 DEF Restart, world, IInv, Types, NothingRefused

-----------------------------------------------------------------------------
LEMMA InvStep == IInv /\ [Next]_vars => IInv'
<1> SUFFICES ASSUME IInv, [Next]_vars PROVE IInv'
  OBVIOUS
<1>1. CASE \E s \in Names : Edit(s) \/ Outage(s)
  BY <1>1, WorldStep
<1>2. ASSUME NEW j \in Jobs, Sync(j) PROVE IInv'
  <2>1. CASE Start(j)
    BY <2>1, StartStep
  <2>2. CASE Fetch(j)
    BY <2>2, FetchStep
  <2>3. CASE WriteFile(j)
    BY <2>3, OpenStep, WriteStep, RenameStep, FileFailsStep DEF WriteFile
  <2>4. CASE Push(j)
    BY <2>4, PushStep, CollectStep DEF Push
  <2> QED
    BY <1>2, <2>1, <2>2, <2>3, <2>4 DEF Sync
<1>3. CASE \E j \in Hooks, t \in Targets : GiveUp(j, t)
  BY <1>3, PushStep DEF Jobs
<1>4. CASE Restart
  BY <1>4, RestartStep
<1>5. CASE UNCHANGED vars
  BY <1>5 DEF vars, world, files, IInv, Types, NothingRefused, Vetted
<1> QED
  BY <1>1, <1>2, <1>3, <1>4, <1>5 DEF Next

-----------------------------------------------------------------------------
(* No two syncs at the file so far, which is renamed into place            *)

Alone == Atomic /\ ~met

(* The temporary file has what the sync at it has written.                 *)
Undisturbed(j) ==
  /\ job[j].pc = "write" => job[j].handle = tmp /\ tmp # None /\ disk[tmp] = Empty
  /\ job[j].pc = "rename" => tmp # None /\ disk[tmp] = Whole(job[j].data)

AloneInv ==
  Alone =>
    /\ \A j, k \in Jobs : AtFile(j) /\ AtFile(k) => j = k
    /\ tmp # None => tmp # out
    /\ \A j \in Jobs : Undisturbed(j)
    /\ ~disk[out].torn /\ \A t \in Targets : ~target[t].served.torn

LEMMA AloneInit == Init => AloneInv
<1> SUFFICES ASSUME Init PROVE AloneInv
  OBVIOUS
<1>1. \A j \in Jobs : job[j].pc = "idle"
  BY DEF Init, IdleJob
<1>2. out = 1 /\ 1 \in Inodes /\ tmp = None
  BY JobsFinite DEF Init, Inodes
<1>3. ~disk[out].torn /\ \A t \in Targets : ~target[t].served.torn
  BY <1>2 DEF Init, Whole
<1> QED
  BY <1>1, <1>2, <1>3 DEF AloneInv, AtFile, Undisturbed

(* What a redirector loads then is what has been renamed into place.       *)
LEMMA AloneLoads ==
  ASSUME AloneInv, Alone, NEW c \in Loadable
  PROVE  c = TargetFile /\ ~c.torn
<1>1. ~(\E k \in Jobs : job[k].pc = "write" /\ job[k].handle = out)
  BY DEF AloneInv, Undisturbed
<1>2. c = TargetFile
  BY <1>1 DEF Loadable
<1> QED
  BY <1>2 DEF TargetFile, AloneInv, Whole

(* A step that leaves the files alone, and those who are at them.          *)
LEMMA AloneQuiet ==
  ASSUME AloneInv, UNCHANGED <<disk, tmp, out, met>>,
         \A k \in Jobs : job'[k] = job[k] \/ ~AtFile(k)' \/ (AtFile(k) /\ job'[k].pc = "cleanup"),
         \A t \in Targets : target'[t].served \in {target[t].served} \union Loadable
  PROVE  AloneInv'
<1> SUFFICES ASSUME Alone'
             PROVE  /\ \A j, k \in Jobs : AtFile(j)' /\ AtFile(k)' => j = k
                    /\ tmp' # None => tmp' # out'
                    /\ \A j \in Jobs : Undisturbed(j)'
                    /\ ~disk'[out'].torn /\ \A t \in Targets : ~target'[t].served.torn
  BY DEF AloneInv
<1>1. Alone
  BY DEF Alone
<1>2. \A k \in Jobs : AtFile(k)' => AtFile(k)
  BY DEF AtFile
<1>3. \A j \in Jobs : Undisturbed(j)'
  BY <1>1 DEF AloneInv, Undisturbed, AtFile
<1>4. \A t \in Targets : ~target'[t].served.torn
  BY <1>1, AloneLoads DEF AloneInv
<1> QED
  BY <1>1, <1>2, <1>3, <1>4 DEF AloneInv

LEMMA AloneOpen ==
  ASSUME IInv, AloneInv, NEW j \in Jobs, Open(j)
  PROVE  AloneInv'
<1> SUFFICES ASSUME Alone' PROVE AloneInv'
  BY DEF AloneInv
<1> DEFINE i == IF tmp # None THEN tmp ELSE Unused
<1>1. /\ Alone /\ \A k \in Jobs \ {j} : ~AtFile(k)
  BY DEF Open, Meeting, Alone
<1>2. /\ job[j] \in JobType /\ job \in [Jobs -> JobType] /\ job[j].pc = "open" /\ Atomic
      /\ disk \in [Inodes -> FileType] /\ Vetted(job[j]) /\ tmp \in Inodes \union {None} /\ out \in Inodes
  BY <1>1 DEF IInv, Types, Open, Alone
<1>3. i \in Inodes /\ i # out
  <2>1. CASE tmp # None
    BY <1>1, <1>2, <2>1 DEF AloneInv
  <2>2. CASE tmp = None
    BY <1>2, <2>2, Spare DEF IInv, Vetted
  <2> QED
    BY <2>1, <2>2
<1>4. i # None
  BY <1>3, NoneAssumption DEF Inodes
<1>5. /\ disk' = [disk EXCEPT ![i] = Empty] /\ tmp' = i /\ UNCHANGED <<out, target>>
      /\ job' = [job EXCEPT ![j].pc = "write", ![j].handle = i]
  BY <1>2 DEF Open
<1> HIDE DEF i
<1>6. job'[j].pc = "write" /\ job'[j].handle = i /\ \A k \in Jobs \ {j} : job'[k] = job[k]
  BY <1>2, <1>5 DEF JobType
<1>7. disk'[tmp'] = Empty /\ disk'[out'] = disk[out]
  BY <1>2, <1>3, <1>5
<1>8. \A k \in Jobs : Undisturbed(k)'
  BY <1>1, <1>4, <1>5, <1>6, <1>7 DEF Undisturbed, AtFile
<1>9. \A k \in Jobs : AtFile(k)' => k = j
  BY <1>1, <1>6 DEF AtFile
<1> QED
  BY <1>1, <1>3, <1>5, <1>7, <1>8, <1>9 DEF AloneInv

(* Who is at the file is there by itself.                                  *)
LEMMA AloneAtFile ==
  ASSUME IInv, AloneInv, Alone, NEW j \in Jobs, AtFile(j)
  PROVE  /\ Undisturbed(j) /\ (tmp # None => tmp # out) /\ \A k \in Jobs \ {j} : ~AtFile(k)
         /\ ~disk[out].torn /\ \A t \in Targets : ~target[t].served.torn
         /\ job[j] \in JobType /\ job \in [Jobs -> JobType] /\ disk \in [Inodes -> FileType]
         /\ tmp \in Inodes \union {None} /\ out \in Inodes
BY DEF AloneInv, IInv, Types

LEMMA AloneWrite ==
  ASSUME IInv, AloneInv, NEW j \in Jobs, Write(j)
  PROVE  AloneInv'
<1> SUFFICES ASSUME Alone' PROVE AloneInv'
  BY DEF AloneInv
<1>1. Alone /\ Atomic /\ job[j].pc = "write" /\ AtFile(j)
  BY DEF Write, Alone, AtFile
<1>2. /\ job[j].handle = tmp /\ tmp \in Inodes /\ tmp # None /\ tmp # out /\ disk[tmp] = Empty
      /\ job[j] \in JobType /\ job \in [Jobs -> JobType] /\ disk \in [Inodes -> FileType]
      /\ out \in Inodes
  BY <1>1, AloneAtFile DEF Undisturbed
<1>3. disk' = [disk EXCEPT ![tmp] = Whole(job[j].data)]
  BY <1>2 DEF Write, Empty, Torn
<1>4. UNCHANGED <<tmp, out, target>> /\ job' = [job EXCEPT ![j].pc = "rename", ![j].handle = None]
  BY <1>1 DEF Write
<1>5. /\ job'[j].pc = "rename" /\ job'[j].data = job[j].data
      /\ \A k \in Jobs \ {j} : job'[k] = job[k]
  BY <1>2, <1>4 DEF JobType
<1>6. disk'[tmp'] = Whole(job[j].data) /\ disk'[out'] = disk[out]
  BY <1>2, <1>3, <1>4
<1>7. \A k \in Jobs : Undisturbed(k)' /\ (AtFile(k)' => k = j)
  BY <1>1, <1>2, <1>4, <1>5, <1>6, AloneAtFile DEF Undisturbed, AtFile
<1> QED
  BY <1>1, <1>2, <1>4, <1>6, <1>7, AloneAtFile DEF AloneInv

(* A sync that leaves the file.                                            *)
LEMMA AloneLeaves ==
  ASSUME IInv, AloneInv, Alone, NEW j \in Jobs, AtFile(j),
         UNCHANGED target, \A k \in Jobs \ {j} : job'[k] = job[k],
         job'[j].pc \notin {"write", "rename", "cleanup"},
         tmp' # None => tmp' # out', ~disk'[out'].torn
  PROVE  AloneInv'
<1>1. \A k \in Jobs : ~AtFile(k)'
  BY AloneAtFile DEF AtFile
<1>2. \A k \in Jobs : Undisturbed(k)'
  BY <1>1 DEF Undisturbed, AtFile
<1> QED
  BY <1>1, <1>2, AloneAtFile DEF AloneInv

LEMMA AfterFilePC ==
  ASSUME IInv, NEW j \in Jobs, job' = AfterFile(j)
  PROVE  /\ job'[j].pc \in {"push", "idle"} /\ \A k \in Jobs \ {j} : job'[k] = job[k]
BY DEF AfterFile, Finished, IdleJob, IInv, Types, JobType

LEMMA AloneRename ==
  ASSUME IInv, AloneInv, NEW j \in Jobs, Rename(j)
  PROVE  AloneInv'
<1> SUFFICES ASSUME Alone' PROVE AloneInv'
  BY DEF AloneInv
<1>1. Alone /\ AtFile(j) /\ job[j].pc = "rename" /\ job' = AfterFile(j)
  BY DEF Rename, Alone, AtFile
<1>2. out' = tmp /\ tmp' = None /\ UNCHANGED <<disk, target>>
  BY DEF Rename
<1>3. ~disk'[out'].torn
  <2>1. Undisturbed(j)
    BY <1>1, AloneAtFile
  <2>2. disk[tmp] = Whole(job[j].data)
    BY <1>1, <2>1 DEF Undisturbed
  <2> QED
    BY <1>2, <2>2 DEF Whole
<1> QED
  BY <1>1, <1>2, <1>3, AfterFilePC, AloneLeaves

LEMMA AloneFileFails ==
  ASSUME IInv, AloneInv, NEW j \in Jobs, RenameFails(j) \/ Cleanup(j) \/ WriteFails(j)
  PROVE  AloneInv'
<1> SUFFICES ASSUME Alone' PROVE AloneInv'
  BY DEF AloneInv
<1>1. Alone /\ UNCHANGED <<out, met, target>> /\ job \in [Jobs -> JobType]
  BY DEF RenameFails, Cleanup, WriteFails, files, Alone, IInv, Types
<1>2. CASE RenameFails(j)
  <2>1. /\ AtFile(j) /\ job'[j].pc = "cleanup" /\ \A k \in Jobs \ {j} : job'[k] = job[k]
    BY <1>1, <1>2 DEF RenameFails, AtFile, JobType
  <2> QED
    BY <1>1, <1>2, <2>1, AloneQuiet DEF RenameFails, files
<1>3. ASSUME Cleanup(j) \/ WriteFails(j)
      PROVE  job'[j].pc = "idle" /\ \A k \in Jobs \ {j} : job'[k] = job[k]
  BY <1>1, <1>3 DEF Cleanup, WriteFails, Finished, IdleJob
<1>4. CASE Cleanup(j)
  <2>1. AtFile(j) /\ tmp' = None /\ UNCHANGED disk
    BY <1>4 DEF Cleanup, AtFile
  <2> QED
    BY <1>1, <1>3, <1>4, <2>1, AloneAtFile, AloneLeaves
<1>5. CASE WriteFails(j) /\ job[j].pc = "write"
  <2>1. AtFile(j) /\ UNCHANGED tmp
    BY <1>5 DEF WriteFails, AtFile
  <2>2. job[j].handle = tmp /\ tmp # out
    BY <1>1, <1>5, <2>1, AloneAtFile DEF Undisturbed
  <2>3. disk'[out'] = disk[out]
    BY <1>1, <1>5, <2>1, <2>2, AloneAtFile DEF WriteFails
  <2> QED
    BY <1>1, <1>3, <1>5, <2>1, <2>2, <2>3, AloneAtFile, AloneLeaves
<1>6. CASE WriteFails(j) /\ job[j].pc # "write"
  <2>1. UNCHANGED <<disk, tmp>>
    BY <1>6 DEF WriteFails
  <2> QED
    BY <1>1, <1>3, <1>6, <2>1, AloneQuiet DEF AtFile
<1> QED
  BY <1>2, <1>4, <1>5, <1>6

LEMMA AloneRestart ==
  ASSUME IInv, AloneInv, Restart
  PROVE  AloneInv'
<1> SUFFICES ASSUME Alone' PROVE AloneInv'
  BY DEF AloneInv
<1>1. Alone /\ UNCHANGED <<tmp, out>> /\ \A k \in Jobs : job'[k].pc = "idle"
  BY DEF Restart, Alone, IdleJob
<1>2. \A t \in Targets : target'[t].served = target[t].served
  BY DEF Restart, IInv, Types
<1>3. \A k \in Jobs : job[k].pc = "write" => job[k].handle # out
  BY <1>1 DEF AloneInv, Undisturbed
<1>4. disk'[out] = disk[out]
  BY <1>3 DEF Restart, IInv, Types
<1> QED
  BY <1>1, <1>2, <1>4 DEF AloneInv, AtFile, Undisturbed

LEMMA AloneStep == IInv /\ AloneInv /\ [Next]_vars => AloneInv'
<1> SUFFICES ASSUME IInv, AloneInv, [Next]_vars PROVE AloneInv'
  OBVIOUS
<1>1. job \in [Jobs -> JobType] /\ target \in [Targets -> [served : FileType, healthy : BOOLEAN]]
  BY DEF IInv, Types
<1>2. CASE UNCHANGED vars \/ \E s \in Names : Edit(s) \/ Outage(s)
  <2>1. UNCHANGED <<disk, tmp, out, met, job, target>>
    BY <1>2 DEF vars, files, Edit, Outage
  <2> QED
    BY <2>1, AloneQuiet
<1>3. ASSUME NEW j \in Jobs, Start(j) \/ Fetch(j) \/ CollectPushes(j)
      PROVE  AloneInv'
  <2>1. UNCHANGED <<disk, tmp, out, met, target>>
    BY <1>3 DEF Start, Fetch, Request, FetchFails, Fetched, AllFailed, Lint, CollectPushes, files
  <2>2. job'[j].pc \notin {"write", "rename", "cleanup"} /\ \A k \in Jobs \ {j} : job'[k] = job[k]
    <3>1. CASE Start(j) \/ AllFailed(j) \/ CollectPushes(j)
      BY <1>1, <3>1 DEF Start, AllFailed, CollectPushes, Finished, IdleJob
    <3>2. CASE Request(j) \/ FetchFails(j) \/ Fetched(j)
      BY <1>1, <3>2 DEF Request, FetchFails, Fetched, NextSource, JobType
    <3>3. CASE Lint(j)
      BY <1>1, <3>3 DEF Lint, Finished, IdleJob, JobType
    <3> QED
      BY <1>3, <3>1, <3>2, <3>3 DEF Fetch
  <2> QED
    BY <2>1, <2>2, AloneQuiet DEF AtFile
<1>4. ASSUME NEW j \in Jobs, NEW t \in Targets, PushSucceeds(j, t) \/ PushFails(j, t) \/ GiveUp(j, t)
      PROVE  AloneInv'
  <2>1. UNCHANGED <<disk, tmp, out, met>> /\ job[j].pc = "push"
    BY <1>4 DEF PushSucceeds, PushFails, GiveUp, Pushing, files
  <2>2. job'[j].pc = "push" /\ \A k \in Jobs \ {j} : job'[k] = job[k]
    BY <1>1, <1>4, <2>1 DEF PushSucceeds, PushFails, GiveUp, Settled, JobType
  <2>3. \A u \in Targets : target'[u].served \in {target[u].served} \union Loadable
    BY <1>1, <1>4 DEF PushSucceeds, PushFails, GiveUp, Settled
  <2> QED
    BY <2>1, <2>2, <2>3, AloneQuiet DEF AtFile
<1> QED
  BY <1>2, <1>3, <1>4, AloneOpen, AloneWrite, AloneRename, AloneFileFails, AloneRestart
  DEF Next, Sync, WriteFile, Push, Jobs

(* However many ticks and webhooks sync at once, and whatever fails or     *)
(* restarts between any two of their steps, no inode has and no redirector *)
(* serves as much as a part of a configuration that parsing or lint        *)
(* refused; and until two syncs have been at the file at the same time,    *)
(* which is replaced by a rename, what is published and served is whole    *)
(* (main.go lines 730-756 and 845-874, server.go lines 899-905).           *)
THEOREM OnlyVetted == Spec => []OnlyVettedIsPublished
<1>1. Init => IInv /\ AloneInv
  BY InvInit, AloneInit
<1>2. IInv /\ AloneInv /\ [Next]_vars => (IInv /\ AloneInv)'
  BY InvStep, AloneStep
<1>3. IInv /\ AloneInv => OnlyVettedIsPublished
  BY DEF IInv, Types, NothingRefused, AloneInv, Alone, OnlyVettedIsPublished, OutputIsGood
<1> QED
  BY <1>1, <1>2, <1>3, PTL DEF Spec


-----------------------------------------------------------------------------
(* One sync at a time: no webhook, and a file that is renamed into place   *)

OneAtATime == Atomic /\ \A j, k \in Jobs : j = k

(* What is in the file and with the redirectors as the sync proceeds.      *)
JobInv(j) ==
  /\ job[j].pc # "push" => \A t \in Targets : job[j].push[t] = "pending"
  /\ job[j].pc = "push" =>
       /\ Output \in {"api", "both"}
       /\ Output = "both" => disk[out] = Whole(job[j].data)
       /\ \A t \in Targets : job[j].push[t] = "ok" => target[t].served = TargetFile
  /\ job[j].result = "ok" =>
       /\ job[j].pc = "idle"
       /\ Output = "both" =>
            /\ disk[out] = Whole(job[j].data)
            /\ \A t \in Targets : target[t].served = Whole(job[j].data)

SoloInv ==
  /\ met = FALSE
  /\ \A j \in Jobs : JobInv(j)
  /\ \A t \in Targets : target[t].healthy => Output \in {"api", "both"}
  /\ HealthyIsCurrent

LEMMA SoloInit == Init => SoloInv
<1> SUFFICES ASSUME Init
             PROVE  SoloInv
  OBVIOUS
<1>1. met = FALSE /\ (\A t \in Targets : target[t].healthy = FALSE) /\ \A j \in Jobs : job[j] = IdleJob
  BY DEF Init
<1>2. IdleJob.pc = "idle" /\ IdleJob.result # "ok" /\ \A t \in Targets : IdleJob.push[t] = "pending"
  BY NoneAssumption DEF IdleJob
<1>3. \A j \in Jobs : JobInv(j)
  BY <1>1, <1>2 DEF JobInv
<1> QED
  BY <1>1, <1>3 DEF SoloInv, HealthyIsCurrent

(* Until it pushes, a sync leaves every healthy redirector with the file.  *)
LEMMA HealthyBefore ==
  ASSUME OneAtATime, SoloInv, NEW j \in Jobs, job[j].pc # "push",
         NEW t \in Targets, target[t].healthy
  PROVE  target[t].served = TargetFile
BY DEF OneAtATime, SoloInv, HealthyIsCurrent

(* A step that leaves the published file and the redirectors alone and ends*)
(* before anything is pushed.                                              *)
LEMMA SoloQuiet ==
  ASSUME OneAtATime, SoloInv, NEW j \in Jobs, job[j].pc # "push",
         UNCHANGED <<out, met, target>>, disk'[out] = disk[out],
         job'[j].pc # "push", job'[j].result # "ok",
         \A t \in Targets : job'[j].push[t] = "pending"
  PROVE  SoloInv'
<1>1. \A k \in Jobs : JobInv(k)'
  BY DEF OneAtATime, JobInv
<1>2. TargetFile' = TargetFile
  BY DEF TargetFile
<1>3. HealthyIsCurrent'
  BY <1>2, HealthyBefore DEF HealthyIsCurrent
<1> QED
  BY <1>1, <1>3 DEF SoloInv

(* What a job is after a sync has ended.                                   *)
LEMMA FinishedFields ==
  ASSUME NEW j \in Jobs, NEW result
  PROVE  /\ Finished(j, result).pc = "idle" /\ Finished(j, result).result = result
         /\ \A t \in Targets : Finished(j, result).push[t] = "pending"
         /\ result = "ok" => Finished(j, result).data = job[j].data
BY DEF Finished, IdleJob

LEMMA SoloFetch ==
  ASSUME OneAtATime, IInv, SoloInv, NEW j \in Jobs, Start(j) \/ Fetch(j)
  PROVE  SoloInv'
<1>1. job[j] \in JobType /\ job \in [Jobs -> JobType] /\ JobInv(j)
  BY DEF IInv, Types, SoloInv
<1>2. UNCHANGED <<disk, out, target, tmp>>
  BY DEF Start, Fetch, Request, FetchFails, Fetched, AllFailed, Lint, world, files
<1>3. UNCHANGED met
  BY DEF Start, Fetch, Request, FetchFails, Fetched, AllFailed, Lint, files
<1>4. job[j].pc # "push" /\ \A t \in Targets : job[j].push[t] = "pending"
  BY <1>1 DEF Start, Fetch, Request, FetchFails, Fetched, AllFailed, Lint, JobInv
<1>5. CASE Start(j)
  <2>1. job'[j].pc = "fetch" /\ job'[j].result = None /\ \A t \in Targets : job'[j].push[t] = "pending"
    BY <1>1, <1>5 DEF Start, IdleJob
  <2> QED
    BY <1>2, <1>3, <1>4, <2>1, SoloQuiet, NoneAssumption
<1>6. CASE \E pc \in {"answered", "fetch", "lint"} :
             /\ job[j].pc \in {"fetch", "answered"} /\ job'[j].pc = pc
             /\ job'[j].push = job[j].push /\ job'[j].result = job[j].result
  <2>1. job[j].result # "ok"
    BY <1>1, <1>6 DEF JobInv
  <2> QED
    BY <1>2, <1>3, <1>4, <1>6, <2>1, SoloQuiet
<1>7. CASE \E result \in {"failed", "lint"} : job' = [job EXCEPT ![j] = Finished(j, result)]
  BY <1>1, <1>2, <1>3, <1>4, <1>7, FinishedFields, SoloQuiet
<1>8. CASE Lint(j) /\ job' = [job EXCEPT ![j].pc = IF Output = "api" THEN "push" ELSE "open"]
  <2>1. job[j].result # "ok"
    BY <1>1, <1>8 DEF Lint, JobInv
  <2>2. /\ job'[j].pc = (IF Output = "api" THEN "push" ELSE "open")
        /\ job'[j].push = job[j].push /\ job'[j].result = job[j].result
    BY <1>1, <1>8 DEF JobType
  <2>3. CASE Output # "api"
    BY <1>2, <1>3, <1>4, <2>1, <2>2, <2>3, SoloQuiet
  <2>4. CASE Output = "api"
    <3>1. JobInv(j)'
      BY <1>4, <2>1, <2>2, <2>4 DEF JobInv
    <3>2. \A t \in Targets : job'[j].pc = "push" /\ job'[j].push[t] = "pending"
      BY <1>4, <2>2, <2>4
    <3> QED
      BY <1>2, <1>3, <3>1, <3>2 DEF OneAtATime, SoloInv, HealthyIsCurrent
  <2> QED
    BY <2>3, <2>4
<1>9. CASE Request(j)
  <2>1. job'[j].pc = "answered" /\ job'[j].push = job[j].push /\ job'[j].result = job[j].result
    BY <1>1, <1>9 DEF Request, JobType
  <2> QED
    BY <1>6, <1>9, <2>1 DEF Request
<1>10. CASE (FetchFails(j) \/ Fetched(j)) /\ NextSource(j)
  <2>1. job'[j].pc = "fetch" /\ job'[j].push = job[j].push /\ job'[j].result = job[j].result
    BY <1>1, <1>10 DEF NextSource, JobType
  <2> QED
    BY <1>6, <1>10, <2>1 DEF FetchFails, Fetched
<1>11. CASE /\ Fetched(j)
            /\ job' = [job EXCEPT ![j].pc = "lint", ![j].answer = None, ![j].data = job[j].answer]
  <2>1. job'[j].pc = "lint" /\ job'[j].push = job[j].push /\ job'[j].result = job[j].result
    BY <1>1, <1>11 DEF JobType
  <2> QED
    BY <1>6, <1>11, <2>1 DEF Fetched
<1>12. CASE AllFailed(j)
  BY <1>7, <1>12 DEF AllFailed
<1>13. CASE Lint(j)
  BY <1>7, <1>8, <1>13 DEF Lint
<1> QED
  BY <1>5, <1>9, <1>10, <1>11, <1>12, <1>13 DEF Fetch, FetchFails, Fetched

LEMMA SoloFileFails ==
  ASSUME OneAtATime, IInv, AloneInv, SoloInv, NEW j \in Jobs,
         RenameFails(j) \/ Cleanup(j) \/ WriteFails(j)
  PROVE  SoloInv'
<1>1. job[j] \in JobType /\ job \in [Jobs -> JobType] /\ JobInv(j) /\ Alone
  BY DEF IInv, Types, SoloInv, OneAtATime, Alone
<1>2. UNCHANGED <<out, met, target>>
  BY DEF RenameFails, Cleanup, WriteFails, files
<1>3. job[j].pc # "push" /\ \A t \in Targets : job[j].push[t] = "pending"
  BY <1>1 DEF RenameFails, Cleanup, WriteFails, JobInv
<1>4. CASE RenameFails(j)
  <2>1. job[j].result # "ok"
    BY <1>1, <1>4 DEF RenameFails, JobInv
  <2>2. /\ job'[j].pc = "cleanup" /\ job'[j].push = job[j].push /\ job'[j].result = job[j].result
        /\ UNCHANGED disk
    BY <1>1, <1>4 DEF RenameFails, files, JobType
  <2> QED
    BY <1>2, <1>3, <2>1, <2>2, SoloQuiet
<1>5. CASE Cleanup(j) \/ WriteFails(j)
  <2>1. job' = [job EXCEPT ![j] = Finished(j, "failed")]
    BY <1>5 DEF Cleanup, WriteFails
  <2>2. disk'[out] = disk[out]
    <3>1. CASE UNCHANGED disk
      BY <3>1
    <3>2. CASE job[j].pc = "write" /\ disk' = [disk EXCEPT ![job[j].handle] = Partly(j)]
      <4>1. job[j].handle # out
        BY <1>1, <3>2, AloneAtFile DEF AtFile, Undisturbed
      <4> QED
        BY <3>2, <4>1 DEF IInv, Types
    <3> QED
      BY <1>5, <3>1, <3>2 DEF Cleanup, WriteFails
  <2> QED
    BY <1>1, <1>2, <1>3, <2>1, <2>2, FinishedFields, SoloQuiet
<1> QED
  BY <1>4, <1>5

(* What a sync does to its temporary file.                                 *)
LEMMA SoloTemporary ==
  ASSUME OneAtATime, IInv, AloneInv, SoloInv, NEW j \in Jobs, Open(j) \/ Write(j)
  PROVE  SoloInv'
<1>1. /\ job[j] \in JobType /\ job \in [Jobs -> JobType] /\ JobInv(j) /\ Alone /\ Atomic
      /\ disk \in [Inodes -> FileType] /\ out \in Inodes
  BY DEF IInv, Types, SoloInv, OneAtATime, Alone
<1>2. UNCHANGED <<out, target>> /\ met' = met
  BY DEF Open, Write, Meeting, OneAtATime, SoloInv
<1>3. disk'[out] = disk[out]
  <2>1. CASE Open(j)
    <3> DEFINE i == IF tmp # None THEN tmp ELSE Unused
    <3>1. i # out
      <4>1. CASE tmp # None
        BY <1>1, <4>1 DEF AloneInv
      <4>2. CASE tmp = None
        BY <2>1, <4>2, Spare DEF IInv, Vetted, Open
      <4> QED
        BY <4>1, <4>2
    <3>2. disk' = [disk EXCEPT ![i] = Empty]
      BY <1>1, <2>1 DEF Open
    <3> QED
      BY <1>1, <3>1, <3>2
  <2>2. CASE Write(j)
    <3>1. job[j].handle # out
      BY <1>1, <2>2, AloneAtFile DEF Write, AtFile, Undisturbed
    <3> QED
      BY <1>1, <2>2, <3>1 DEF Write
  <2> QED
    BY <2>1, <2>2
<1>4. job[j].pc \in {"open", "write"} /\ job[j].result # "ok"
  BY <1>1 DEF Open, Write, JobInv
<1>5. /\ job'[j].pc \in {"write", "rename"} /\ job'[j].push = job[j].push
      /\ job'[j].result = job[j].result
  BY <1>1 DEF Open, Write, JobType
<1>6. \A t \in Targets : job[j].push[t] = "pending"
  BY <1>1, <1>4 DEF JobInv
<1> QED
  BY <1>2, <1>3, <1>4, <1>5, <1>6, SoloQuiet

(* The file becomes what the sync has vetted; every redirector is about to *)
(* be told, or none is healthy.                                            *)
LEMMA SoloRename ==
  ASSUME OneAtATime, IInv, AloneInv, SoloInv, NEW j \in Jobs, Rename(j)
  PROVE  SoloInv'
<1>1. /\ job[j] \in JobType /\ job \in [Jobs -> JobType] /\ JobInv(j) /\ job[j].pc = "rename"
      /\ Alone /\ job[j].result # "ok" /\ \A t \in Targets : job[j].push[t] = "pending"
  BY DEF IInv, Types, SoloInv, Rename, JobInv, OneAtATime, Alone
<1>3. out' = tmp /\ tmp' = None /\ UNCHANGED <<disk, target, met>> /\ job' = AfterFile(j)
  BY DEF Rename
<1>4. disk'[out'] = Whole(job[j].data)
  <2>1. Undisturbed(j)
    BY <1>1, AloneAtFile DEF AtFile
  <2> QED
    BY <1>1, <1>3, <2>1 DEF Undisturbed
<1>5. CASE Output = "both"
  <2>1. /\ job'[j].pc = "push" /\ job'[j].push = job[j].push /\ job'[j].data = job[j].data
        /\ job'[j].result = job[j].result
    BY <1>1, <1>3, <1>5 DEF AfterFile, JobType
  <2>2. JobInv(j)'
    BY <1>1, <1>4, <1>5, <2>1 DEF JobInv
  <2>3. HealthyIsCurrent'
    BY <1>1, <2>1 DEF HealthyIsCurrent
  <2> QED
    BY <1>3, <2>2, <2>3 DEF SoloInv, OneAtATime
<1>6. CASE Output # "both"
  <2>1. job'[j] = Finished(j, "ok")
    BY <1>1, <1>3, <1>6 DEF AfterFile
  <2>2. JobInv(j)'
    BY <1>6, <2>1, FinishedFields DEF JobInv
  <2>3. HealthyIsCurrent'
    <3>1. CASE Output = "api"
      <4>1. TargetFile' = TargetFile
        BY <3>1 DEF TargetFile
      <4> QED
        BY <1>1, <1>3, <4>1, HealthyBefore DEF HealthyIsCurrent
    <3>2. CASE Output # "api"
      BY <1>3, <1>6, <3>2 DEF SoloInv, HealthyIsCurrent
    <3> QED
      BY <3>1, <3>2
  <2> QED
    BY <1>3, <2>2, <2>3 DEF SoloInv, OneAtATime
<1> QED
  BY <1>5, <1>6

(* No one writes while the one sync pushes.                                *)
LEMMA SoloLoads ==
  ASSUME OneAtATime, NEW j \in Jobs, job[j].pc = "push", NEW c \in Loadable
  PROVE  c = TargetFile
BY DEF OneAtATime, Loadable

(* A try to push settles one redirector, or leaves it to be tried again.   *)
LEMMA SoloSettles ==
  ASSUME OneAtATime, IInv, SoloInv, NEW j \in Jobs, NEW t \in Targets, Pushing(j, t),
         UNCHANGED <<disk, out, met>>,
         job'[j].pc = "push", job'[j].data = job[j].data, job'[j].result = job[j].result,
         \A u \in Targets : u # t => /\ job'[j].push[u] = job[j].push[u]
                                     /\ target'[u] = target[u],
         \/ job'[j].push[t] = "ok" /\ target'[t].served = TargetFile
         \/ job'[j].push[t] = "failed" /\ ~target'[t].healthy
         \/ job'[j].push[t] = "pending"
  PROVE  SoloInv'
<1>1. JobInv(j) /\ job[j].pc = "push" /\ job[j].push[t] = "pending"
  BY DEF Pushing, SoloInv
<1>2. TargetFile' = TargetFile
  BY DEF TargetFile
<1>3. JobInv(j)'
  BY <1>1, <1>2 DEF JobInv
<1>4. HealthyIsCurrent'
  <2> SUFFICES ASSUME NEW u \in Targets, target'[u].healthy
               PROVE  \/ target'[u].served = TargetFile
                      \/ job'[j].pc = "push" /\ job'[j].push[u] = "pending"
    BY <1>2 DEF HealthyIsCurrent
  <2>1. CASE u = t
    BY <2>1
  <2>2. CASE u # t
    <3>1. target[u].served = TargetFile \/ job[j].push[u] = "pending"
      BY <2>2 DEF SoloInv, HealthyIsCurrent, OneAtATime
    <3> QED
      BY <2>2, <3>1
  <2> QED
    BY <2>1, <2>2
<1>5. Output \in {"api", "both"}
  BY <1>1 DEF JobInv
<1> QED
  BY <1>3, <1>4, <1>5 DEF SoloInv, OneAtATime

LEMMA SoloPush ==
  ASSUME OneAtATime, IInv, SoloInv, NEW j \in Jobs, NEW t \in Targets,
         PushSucceeds(j, t) \/ PushFails(j, t) \/ GiveUp(j, t)
  PROVE  SoloInv'
<1>1. /\ job[j] \in JobType /\ job \in [Jobs -> JobType] /\ job[j].pc = "push" /\ Pushing(j, t)
      /\ target \in [Targets -> [served : FileType, healthy : BOOLEAN]]
      /\ job[j].push \in [Targets -> {"pending", "ok", "failed"}]
  BY DEF IInv, Types, JobType, PushSucceeds, PushFails, GiveUp, Pushing
<1>2. UNCHANGED <<disk, out, met>>
  BY DEF PushSucceeds, PushFails, GiveUp, files
<1>3. ASSUME NEW how \in {"ok", "failed"}, job' = [job EXCEPT ![j].push[t] = how]
      PROVE  /\ job'[j].pc = "push" /\ job'[j].data = job[j].data
             /\ job'[j].result = job[j].result /\ job'[j].push[t] = how
             /\ \A u \in Targets : u # t => job'[j].push[u] = job[j].push[u]
  BY <1>1, <1>3 DEF JobType
<1>4. ASSUME NEW how \in {"ok", "failed"}, NEW served, Settled(j, t, how, served),
             how = "ok" => served = TargetFile
      PROVE  SoloInv'
  <2>1. /\ target'[t].healthy = (how = "ok")
        /\ how = "ok" => target'[t].served = TargetFile
        /\ \A u \in Targets : u # t => target'[u] = target[u]
    BY <1>1, <1>4 DEF Settled
  <2>2. /\ job'[j].pc = "push" /\ job'[j].data = job[j].data
        /\ job'[j].result = job[j].result /\ job'[j].push[t] = how
        /\ \A u \in Targets : u # t => job'[j].push[u] = job[j].push[u]
    BY <1>3, <1>4 DEF Settled
  <2> QED
    BY <1>1, <1>2, <2>1, <2>2, SoloSettles
<1>5. ASSUME PushFails(j, t)
      PROVE  SoloInv'
  <2>1. PICK served \in {target[t].served} \union Loadable :
          IF job[j].tries[t] < Attempts
            THEN /\ job' = [job EXCEPT ![j].tries[t] = @ + 1]
                 /\ target' = [target EXCEPT ![t].served = served]
            ELSE Settled(j, t, "failed", served)
    BY <1>5 DEF PushFails
  <2>2. CASE job[j].tries[t] < Attempts
    <3>1. /\ job'[j].pc = "push" /\ job'[j].data = job[j].data
          /\ job'[j].result = job[j].result /\ job'[j].push = job[j].push
      BY <1>1, <2>1, <2>2 DEF JobType
    <3>2. \A u \in Targets : u # t => target'[u] = target[u]
      BY <1>1, <2>1, <2>2
    <3>3. job'[j].push[t] = "pending"
      BY <1>1, <3>1 DEF Pushing
    <3> QED
      BY <1>1, <1>2, <3>1, <3>2, <3>3, SoloSettles
  <2> QED
    BY <1>4, <2>1, <2>2
<1>6. CASE PushSucceeds(j, t)
  <2>1. PICK served \in Loadable : Settled(j, t, "ok", served)
    BY <1>6 DEF PushSucceeds
  <2> QED
    BY <1>1, <1>4, <2>1, SoloLoads
<1> QED
  BY <1>4, <1>5, <1>6 DEF GiveUp

(* Success is reported when every redirector has answered that it has.     *)
LEMMA SoloCollect ==
  ASSUME OneAtATime, IInv, SoloInv, NEW j \in Jobs, CollectPushes(j)
  PROVE  SoloInv'
<1> DEFINE result == IF \A t \in Targets : job[j].push[t] = "ok" THEN "ok" ELSE "failed"
<1>1. /\ job \in [Jobs -> JobType] /\ JobInv(j) /\ job[j].pc = "push"
      /\ \A t \in Targets : job[j].push[t] # "pending"
      /\ UNCHANGED <<disk, met, out, target>> /\ job' = [job EXCEPT ![j] = Finished(j, result)]
  BY DEF IInv, Types, SoloInv, CollectPushes, files
<1>2. job'[j] = Finished(j, result)
  BY <1>1
<1>3. result = "ok" => \A t \in Targets : job[j].push[t] = "ok"
  OBVIOUS
<1> HIDE DEF result
<1>4. /\ job'[j].pc = "idle" /\ job'[j].result = result
      /\ \A t \in Targets : job'[j].push[t] = "pending"
      /\ result = "ok" => job'[j].data = job[j].data
  BY <1>2, FinishedFields
<1>5. JobInv(j)'
  <2>1. ASSUME result = "ok", Output = "both"
        PROVE  /\ disk'[out'] = Whole(job'[j].data)
               /\ \A t \in Targets : target'[t].served = Whole(job'[j].data)
    <3>1. TargetFile = disk[out]
      BY <2>1 DEF TargetFile
    <3> QED
      BY <1>1, <1>3, <1>4, <2>1, <3>1 DEF JobInv
  <2> QED
    BY <1>4, <2>1 DEF JobInv
<1>6. TargetFile' = TargetFile
  BY <1>1 DEF TargetFile
<1>7. HealthyIsCurrent'
  <2>1. \A t \in Targets : target[t].healthy => target[t].served = TargetFile
    BY <1>1 DEF SoloInv, HealthyIsCurrent, OneAtATime
  <2> QED
    BY <1>1, <1>6, <2>1 DEF HealthyIsCurrent
<1> QED
  BY <1>1, <1>5, <1>7 DEF SoloInv, OneAtATime

LEMMA SoloStep ==
  ASSUME OneAtATime, IInv, AloneInv, SoloInv, [Next]_vars
  PROVE  SoloInv'
<1>1. CASE (\E s \in Names : Edit(s) \/ Outage(s)) \/ UNCHANGED vars
  <2>1. UNCHANGED <<job, disk, met, out, target>>
    BY <1>1 DEF Edit, Outage, vars, files
  <2> QED
    BY <2>1 DEF SoloInv, JobInv, HealthyIsCurrent, TargetFile
<1>2. ASSUME NEW j \in Jobs, Sync(j)
      PROVE  SoloInv'
  BY <1>2, SoloFetch, SoloFileFails, SoloTemporary, SoloRename, SoloPush, SoloCollect
  DEF Sync, WriteFile, Push
<1>3. CASE \E j \in Hooks, t \in Targets : GiveUp(j, t)
  BY <1>3, SoloPush DEF Jobs
<1>4. CASE Restart
  <2>1. /\ UNCHANGED met /\ \A j \in Jobs : job'[j] = IdleJob
        /\ \A t \in Targets : target'[t].healthy = FALSE
    BY <1>4 DEF Restart, files, IInv, Types
  <2>2. IdleJob.pc = "idle" /\ IdleJob.result # "ok" /\ \A t \in Targets : IdleJob.push[t] = "pending"
    BY NoneAssumption DEF IdleJob
  <2>3. \A j \in Jobs : JobInv(j)'
    BY <2>1, <2>2 DEF JobInv
  <2> QED
    BY <2>1, <2>3 DEF SoloInv, HealthyIsCurrent
<1> QED
  BY <1>1, <1>2, <1>3, <1>4 DEF Next

LEMMA SoloAlways == ASSUME OneAtATime PROVE Spec => [](IInv /\ AloneInv /\ SoloInv)
<1>1. Init => IInv /\ AloneInv /\ SoloInv
  BY InvInit, AloneInit, SoloInit
<1>2. IInv /\ AloneInv /\ SoloInv /\ [Next]_vars => (IInv /\ AloneInv /\ SoloInv)'
  BY InvStep, AloneStep, SoloStep
<1> QED
  BY <1>1, <1>2, PTL DEF Spec

(* With one sync at a time and atomic writes, whatever fails and whenever  *)
(* the syncer dies, the published file and what every redirector serves are*)
(* whole and have passed parsing and lint (main.go lines 730-756 and       *)
(* 856-864, server.go lines 899-905).                                      *)
THEOREM FileIsGood == ASSUME OneAtATime PROVE Spec => []OutputIsGood
<1>1. IInv /\ AloneInv /\ SoloInv => OutputIsGood
  BY DEF IInv, Types, NothingRefused, AloneInv, Alone, SoloInv, OneAtATime, OutputIsGood
<1> QED
  BY <1>1, SoloAlways, PTL

(* With one sync at a time that writes the file and pushes, a reported     *)
(* success means that the file and every redirector have its configuration *)
(* until the next sync starts (lines 835-839 and 891-928).                 *)
THEOREM SuccessIsTrue == ASSUME OneAtATime, Output = "both" PROVE Spec => []SuccessIsServed
<1>1. SoloInv => SuccessIsServed
  BY DEF SoloInv, JobInv, SuccessIsServed
<1> QED
  BY <1>1, SoloAlways, PTL

(* With one sync at a time, a redirector marked healthy serves what is in  *)
(* the file now, or is about to be told of it (lines 898-906).             *)
THEOREM HealthIsTrue == ASSUME OneAtATime PROVE Spec => []HealthyIsCurrent
<1>1. SoloInv => HealthyIsCurrent
  BY DEF SoloInv
<1> QED
  BY <1>1, SoloAlways, PTL
=============================================================================
