---------------------------- MODULE RequestPath -----------------------------
(***************************************************************************)
(* A request on its way through internal/ratelimit, the handler and        *)
(* internal/stats: concurrent requests, the limiter's cleanup, and an      *)
(* operator who enables, disables and resets the statistics.               *)
(* Which rule answers is left to Router: a request here carries the status *)
(* it gets.  Time passes in ticks that add tokens to every bucket.         *)
(* Reset replaces its sync.Maps while requests use them; that race is      *)
(* taken to lose what is counted at that moment and nothing worse.         *)
(***************************************************************************)
EXTENDS Integers, SequencesExt

CONSTANTS
  Requests,       \* the requests, each served once
  Inputs,         \* records [ip, path, exempt, host, status, rule, latency]
  Limits,         \* the patterns with a path limit, see PathLimiters
  GlobalBurst, PathBurst, PerIPBurst,
  PerIPRPS,       \* tokens a tick adds to a client's bucket
  IPTTL,
  RingSize,
  Interval,       \* one request in so many is kept for the live view
  MaxTime, OperationBound

ASSUME SizesAssumption ==
  /\ {GlobalBurst, PathBurst, PerIPBurst, PerIPRPS, RingSize, Interval} \subseteq Nat \ {0}
  /\ IPTTL \in Nat /\ MaxTime \in Nat /\ OperationBound \in Nat

ASSUME InputsAssumption ==
  /\ \A input \in Inputs : /\ input.status \in Nat /\ input.latency \in Nat
                            /\ input.exempt \in BOOLEAN /\ input.host \in BOOLEAN
  /\ 0 \notin Requests        \* an empty place of the ring is of no request

VARIABLES
  clock,
  global,         \* the tokens of globalLimiter
  pathTokens,     \* and of each path's limiter
  ipLimiters,     \* the map: a set of [ip, ref, lastAccess]
  tokens,         \* the buckets it refers to, by reference
  reqs,           \* their steps; "since" is history: when a limiter was found
  admitted,       \* requests let through so far, per client that is not exempt
  lag,            \* history: the longest a request held a limiter before using it
  enabled,
  stats,          \* the collector's counters
  ring,           \* ringBuffer
  ringHead,
  resetting,      \* the step Reset is at
  operations,     \* enabling, disabling and resetting so far
  taken,          \* the requests counted since the last Reset
  kept,           \* the records put into the ring since the last Reset
  disturbed       \* a Reset and a Record have overlapped

limiterVars == <<global, pathTokens, ipLimiters, tokens, admitted, lag>>
collectorVars == <<enabled, stats, ring, ringHead, resetting, operations, taken, kept, disturbed>>
vars == <<clock, limiterVars, reqs, collectorVars>>

Clients == {input.ip : input \in Inputs}
Statuses == {input.status : input \in Inputs}
RuleIDs == {input.rule : input \in Inputs} \ {""}
Buckets == 0 .. 5

Nothing == [rule |-> "", request |-> 0]

NoStats ==
  [total |-> 0, errors |-> 0, sampled |-> 0,
   status |-> [s \in Statuses |-> 0], hits |-> [r \in RuleIDs |-> 0],
   latency |-> [b \in Buckets |-> 0]]

Init ==
  /\ clock = 0
  /\ global = GlobalBurst
  /\ pathTokens = [p \in Limits |-> PathBurst]
  /\ ipLimiters = {}
  /\ tokens = <<>>
  /\ reqs \in [Requests -> {[at |-> "arrived", in |-> input, ref |-> 0, since |-> 0] : input \in Inputs}]
  /\ admitted = [c \in Clients |-> 0]
  /\ lag = 0
  /\ enabled \in BOOLEAN
  /\ stats = NoStats
  /\ ring = [i \in 0 .. RingSize - 1 |-> Nothing]
  /\ ringHead = 0
  /\ resetting = "no" /\ operations = 0
  /\ taken = {} /\ kept = <<>>
  /\ disturbed = FALSE

At(r, step) == reqs[r].at = step

Goto(r, step) == reqs' = [reqs EXCEPT ![r].at = step]

-----------------------------------------------------------------------------
(* The limiter                                                             *)

(* An exempt address skips the limiter.                                    *)
TakeGlobal(r) ==
  /\ At(r, "arrived")
  /\ CASE reqs[r].in.exempt -> Goto(r, "admitted") /\ UNCHANGED global
       [] ~reqs[r].in.exempt /\ global = 0 -> Goto(r, "429") /\ UNCHANGED global
       [] OTHER -> Goto(r, "path") /\ global' = global - 1
  /\ UNCHANGED <<clock, pathTokens, ipLimiters, tokens, admitted, lag, collectorVars>>

(* The limit of the very path, or any of the wildcards that match it: they *)
(* are looked up in the order of a map.  A pattern is a record [path, wild].*)
PathLimiters(path) ==
  LET exact == {p \in Limits : ~p.wild /\ p.path = path}
  IN  IF exact # {} THEN exact ELSE {p \in Limits : p.wild /\ IsPrefix(p.path, path)}

TakePath(r) ==
  /\ At(r, "path")
  /\ \/ PathLimiters(reqs[r].in.path) = {} /\ Goto(r, "client") /\ UNCHANGED pathTokens
     \/ \E p \in PathLimiters(reqs[r].in.path) :
          IF pathTokens[p] = 0
            THEN Goto(r, "429") /\ UNCHANGED pathTokens
            ELSE Goto(r, "client") /\ pathTokens' = [pathTokens EXCEPT ![p] = @ - 1]
  /\ UNCHANGED <<clock, global, ipLimiters, tokens, admitted, lag, collectorVars>>

LimitersOf(r) == {l \in ipLimiters : l.ip = reqs[r].in.ip}

Use(r, l) ==
  /\ ipLimiters' = (ipLimiters \ {l}) \union {[l EXCEPT !.lastAccess = clock]}
  /\ reqs' = [reqs EXCEPT ![r].at = "bucket", ![r].ref = l.ref, ![r].since = clock]
  /\ UNCHANGED tokens

Create(r) ==
  /\ tokens' = Append(tokens, PerIPBurst)
  /\ ipLimiters' = (ipLimiters \ LimitersOf(r)) \union
       {[ip |-> reqs[r].in.ip, ref |-> Len(tokens'), lastAccess |-> clock]}
  /\ reqs' = [reqs EXCEPT ![r].at = "bucket", ![r].ref = Len(tokens'), ![r].since = clock]

(* getIPLimiter under the read lock.                                       *)
LookUp(r) ==
  /\ At(r, "client")
  /\ \/ \E l \in LimitersOf(r) : Use(r, l)
     \/ LimitersOf(r) = {} /\ Goto(r, "create") /\ UNCHANGED <<ipLimiters, tokens>>
  /\ UNCHANGED <<clock, global, pathTokens, admitted, lag, collectorVars>>

(* A new bucket without another look.                                      *)
LookAgainBlind(r) ==
  /\ At(r, "create")
  /\ Create(r)
  /\ UNCHANGED <<clock, global, pathTokens, admitted, lag, collectorVars>>

(* And again under the write lock.                                         *)
LookAgain(r) ==
  /\ At(r, "create")
  /\ \/ \E l \in LimitersOf(r) : Use(r, l)
     \/ LimitersOf(r) = {} /\ Create(r)
  /\ UNCHANGED <<clock, global, pathTokens, admitted, lag, collectorVars>>

Lesser(a, b) == IF a < b THEN a ELSE b
Greater(a, b) == IF a < b THEN b ELSE a

(* Allow, after the lock of the map has been released.                     *)
TakeToken(r) ==
  LET ref == reqs[r].ref
  IN  /\ At(r, "bucket")
      /\ lag' = Greater(lag, clock - reqs[r].since)
      /\ IF tokens[ref] = 0
           THEN Goto(r, "429") /\ UNCHANGED <<tokens, admitted>>
           ELSE /\ Goto(r, "admitted")
                /\ tokens' = [tokens EXCEPT ![ref] = @ - 1]
                /\ admitted' = [admitted EXCEPT ![reqs[r].in.ip] = @ + 1]
      /\ UNCHANGED <<clock, global, pathTokens, ipLimiters, collectorVars>>

(* A tick fills the global and the path buckets and adds to the clients'.  *)
Tick ==
  /\ clock < MaxTime
  /\ clock' = clock + 1
  /\ global' = GlobalBurst
  /\ pathTokens' = [p \in Limits |-> PathBurst]
  /\ tokens' = [ref \in DOMAIN tokens |-> Lesser(tokens[ref] + PerIPRPS, PerIPBurst)]
  /\ UNCHANGED <<ipLimiters, reqs, admitted, lag, collectorVars>>

Cleanup ==
  /\ \E l \in ipLimiters : clock - l.lastAccess > IPTTL
  /\ ipLimiters' = {l \in ipLimiters : clock - l.lastAccess <= IPTTL}
  /\ UNCHANGED <<clock, global, pathTokens, tokens, admitted, lag, reqs, collectorVars>>

-----------------------------------------------------------------------------
(* The handler and the collector                                           *)

(* A Reset has overlapped this step.                                       *)
Disturbance == disturbed' = (disturbed \/ resetting # "no")

(* A host no rule names is turned away before anything is recorded; for the*)
(* others Record counts the total and the errors ...                       *)
Respond(r) ==
  /\ At(r, "admitted")
  /\ CASE ~reqs[r].in.host -> Goto(r, "421") /\ UNCHANGED <<stats, taken, disturbed>>
       [] reqs[r].in.host /\ ~enabled -> Goto(r, "done") /\ UNCHANGED <<stats, taken, disturbed>>
       [] OTHER ->
            /\ Goto(r, "totals")
            /\ stats' = [stats EXCEPT !.total = @ + 1,
                                      !.errors = IF reqs[r].in.status >= 400 THEN @ + 1 ELSE @]
            /\ taken' = taken \union {r}
            /\ Disturbance
  /\ UNCHANGED <<clock, limiterVars, enabled, ring, ringHead, resetting, operations, kept>>

IncrementStatus(s, in) == [s EXCEPT !.status[in.status] = @ + 1]

UpdateRuleStats(s, in) == IF in.rule = "" THEN s ELSE [s EXCEPT !.hits[in.rule] = @ + 1]

LatencyBounds == <<100, 500, 1000, 5000, 10000>>

(* LatencyBucket with the bounds part of the bucket below them.            *)
LatencyBucketClosed(us) == Cardinality({bound \in ToSet(LatencyBounds) : bound < us})

LatencyBucket(us) == Cardinality({bound \in ToSet(LatencyBounds) : bound <= us})

UpdateLatencyHistogram(s, in) == [s EXCEPT !.latency[LatencyBucket(in.latency)] = @ + 1]

(* ... then the counters that Reset replaces ...                           *)
Count(r) ==
  LET in == reqs[r].in
  IN  /\ At(r, "totals") /\ Goto(r, "counted")
      /\ stats' = UpdateLatencyHistogram(UpdateRuleStats(IncrementStatus(stats, in), in), in)
      /\ Disturbance
      /\ UNCHANGED <<clock, limiterVars, enabled, ring, ringHead, resetting, operations, taken, kept>>

(* ... and keeps every so many requests in the ring.                       *)
Keep(r) ==
  LET record == [rule |-> reqs[r].in.rule, request |-> r]
      keeps  == (stats.sampled + 1) % Interval = 0
  IN  /\ At(r, "counted") /\ Goto(r, "done")
      /\ stats' = [stats EXCEPT !.sampled = @ + 1]
      /\ ring' = IF keeps THEN [ring EXCEPT ![ringHead] = record] ELSE ring
      /\ ringHead' = IF keeps THEN (ringHead + 1) % RingSize ELSE ringHead
      /\ kept' = IF keeps THEN Append(kept, record) ELSE kept
      /\ Disturbance
      /\ UNCHANGED <<clock, limiterVars, enabled, resetting, operations, taken>>

(* handleStatsEnable and handleStatsDisable.                               *)
Switch ==
  /\ operations < OperationBound /\ operations' = operations + 1
  /\ enabled' = ~enabled
  /\ UNCHANGED <<clock, limiterVars, reqs, stats, ring, ringHead, resetting, taken, kept, disturbed>>

Recording == \E r \in Requests : reqs[r].at \in {"totals", "counted"}

(* Reset, its stores one after the other; sampleCount goes on.             *)
ResetTotals ==
  /\ resetting = "no" /\ operations < OperationBound
  /\ operations' = operations + 1
  /\ stats' = [stats EXCEPT !.total = 0, !.errors = 0]
  /\ resetting' = "maps"
  /\ taken' = {} /\ disturbed' = Recording
  /\ UNCHANGED <<clock, limiterVars, reqs, enabled, ring, ringHead, kept>>

ResetMaps ==
  /\ resetting = "maps"
  /\ stats' = [NoStats EXCEPT !.total = stats.total, !.errors = stats.errors,
                              !.sampled = stats.sampled]
  /\ resetting' = "ring"
  /\ UNCHANGED <<clock, limiterVars, reqs, enabled, ring, ringHead, operations, taken, kept, disturbed>>

(* Reset that leaves the records where they are.                           *)
ResetHead ==
  /\ resetting = "ring"
  /\ ringHead' = 0
  /\ kept' = <<>>
  /\ resetting' = "no"
  /\ UNCHANGED <<clock, limiterVars, reqs, enabled, stats, ring, operations, taken, disturbed>>

ResetRing ==
  /\ resetting = "ring"
  /\ ring' = [i \in 0 .. RingSize - 1 |-> Nothing]
  /\ ringHead' = 0
  /\ kept' = <<>>
  /\ resetting' = "no"
  /\ UNCHANGED <<clock, limiterVars, reqs, enabled, stats, operations, taken, disturbed>>

Serve(r) ==
  \/ TakeGlobal(r) \/ TakePath(r) \/ LookUp(r) \/ LookAgain(r) \/ TakeToken(r)
  \/ Respond(r) \/ Count(r) \/ Keep(r)

Next ==
  \/ \E r \in Requests : Serve(r)
  \/ Tick \/ Cleanup \/ Switch
  \/ ResetTotals \/ ResetMaps \/ ResetRing

Spec == Init /\ [][Next]_vars

-----------------------------------------------------------------------------
(* GetRecentRequests: newest first, up to the first empty place.           *)
RecentRequests(limit) ==
  LET read  == [i \in 1 .. limit |-> ring[(ringHead - i + RingSize) % RingSize]]
      empty == {i \in 1 .. limit : read[i] = Nothing}
  IN  CASE ~enabled              -> <<>>
        [] enabled /\ empty = {} -> read
        [] OTHER                 -> SubSeq(read, 1, Min(empty) - 1)

-----------------------------------------------------------------------------
(* However many goroutines look for the limiter of a new client at the     *)
(* same time, and whatever cleanup drops in between, a client gets no more *)
(* requests through than its burst and what time has added, if a limiter   *)
(* lives on until it is full again, counting from when those who found it  *)
(* have used it (ratelimit.go:148-164, 278-304).                           *)
RateIsBounded ==
  PerIPRPS * (IPTTL + 1 - lag) >= PerIPBurst =>
    \A c \in Clients : admitted[c] <= PerIPBurst + PerIPRPS * clock

(* With no request under way and none that a Reset overlapped, every       *)
(* counter says the same of the requests since: each is counted once, under*)
(* its status, its rule and the bucket its latency lies in, bounds going to *)
(* the bucket above; those the limiter or the host check refused are in    *)
(* none (stats.go:114-189, 368-384).                                       *)
CountersAgree ==
  ~Recording /\ resetting = "no" /\ ~disturbed =>
    LET Of(inputs) == Cardinality({r \in taken : reqs[r].in \in inputs})
    IN  /\ stats.total = Cardinality(taken)
        /\ stats.errors = Of({in \in Inputs : in.status >= 400})
        /\ \A s \in Statuses : stats.status[s] = Of({in \in Inputs : in.status = s})
        /\ \A id \in RuleIDs : stats.hits[id] = Of({in \in Inputs : in.rule = id})
        /\ \A b \in Buckets :
             stats.latency[b] =
               Of({in \in Inputs : /\ b > 0 => in.latency >= LatencyBounds[b]
                                   /\ b < Len(LatencyBounds) => in.latency < LatencyBounds[b + 1]})
        /\ \A r \in taken : reqs[r].at = "done"

(* While statistics are on, the live view shows the requests kept since    *)
(* the last Reset, the newest first, up to its limit or the size of the    *)
(* ring, those of earlier times on included (stats.go:140-149, 295-323).   *)
LiveViewIsNewest ==
  enabled => \A limit \in 1 .. RingSize :
    RecentRequests(limit) =
      LET newest == Reverse(kept)
      IN  SubSeq(newest, 1, Lesser(limit, Len(kept)))
=============================================================================
