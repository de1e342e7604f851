-------------------------- MODULE RequestPathProofs --------------------------
(***************************************************************************)
(* Theorems about RequestPath for any requests, clients, limits, rates and *)
(* sizes of the ring.                                                      *)
(***************************************************************************)
EXTENDS RequestPath, FiniteSetTheorems, SequenceTheorems, TLAPS

-----------------------------------------------------------------------------
(* Types                                                                   *)

Steps == {"arrived", "path", "client", "create", "bucket", "admitted", "429", "421",
          "totals", "counted", "done"}

RequestRecords == [at : Steps, in : Inputs, ref : Nat, since : Nat]

LimiterRecords == [ip : Clients, ref : Nat, lastAccess : Nat]

(* Who is about to use a bucket found it before, and it is still in the    *)
(* map unless it was found longer ago than the cleanup tolerates.          *)
LimiterInv ==
  /\ clock \in Nat /\ lag \in Nat
  /\ reqs \in [Requests -> RequestRecords]
  /\ tokens \in Seq(Nat) /\ admitted \in [Clients -> Nat]
  /\ ipLimiters \subseteq LimiterRecords
  /\ \A l \in ipLimiters : l.ref \in 1 .. Len(tokens) /\ l.lastAccess <= clock
  /\ \A l, m \in ipLimiters : l.ip = m.ip => l = m
  /\ \A r \in Requests :
       At(r, "bucket") =>
         /\ reqs[r].ref \in 1 .. Len(tokens) /\ reqs[r].since <= clock
         /\ \/ clock - reqs[r].since > IPTTL
            \/ \E l \in ipLimiters : /\ l.ip = reqs[r].in.ip /\ l.ref = reqs[r].ref
                                     /\ reqs[r].since <= l.lastAccess

(* The steps of the limiter that find a bucket, ...                        *)
Finds(r) ==
  /\ \E l \in LimitersOf(r) : Use(r, l)
  /\ UNCHANGED <<clock, admitted, lag>>

(* ... those that make one, ...                                            *)
Makes(r) ==
  /\ LimitersOf(r) = {} /\ Create(r)
  /\ UNCHANGED <<clock, admitted, lag>>

(* ... and the steps that do not touch the buckets.                        *)
Quiet ==
  /\ UNCHANGED <<clock, lag, ipLimiters, tokens, admitted>>
  /\ reqs' \in [Requests -> RequestRecords]
  /\ \A r \in Requests : reqs'[r].at = "bucket" => reqs'[r] = reqs[r]

LEMMA GotoIsQuiet ==
  ASSUME reqs \in [Requests -> RequestRecords], NEW r \in Requests,
         NEW step \in Steps \ {"bucket"}, Goto(r, step)
  PROVE  /\ reqs' \in [Requests -> RequestRecords]
         /\ \A x \in Requests : reqs'[x].at = "bucket" => reqs'[x] = reqs[x]
  BY DEF Goto, RequestRecords

LEMMA LimiterSteps ==
  ASSUME LimiterInv, [Next]_vars
  PROVE  \/ Quiet \/ Tick \/ Cleanup
         \/ \E r \in Requests : Finds(r) \/ Makes(r) \/ TakeToken(r)
<1>0. reqs \in [Requests -> RequestRecords]
  BY DEF LimiterInv
<1>1. ASSUME NEW r \in Requests, TakeGlobal(r) \/ TakePath(r) \/ Respond(r)
      PROVE  Quiet
  <2>1. UNCHANGED <<clock, lag, ipLimiters, tokens, admitted>>
    BY <1>1 DEF TakeGlobal, TakePath, Respond, limiterVars
  <2>2. \E step \in Steps \ {"bucket"} : Goto(r, step)
    <3>1. reqs[r].in \in Inputs
      BY <1>0 DEF RequestRecords
    <3>2. reqs[r].in.exempt \in BOOLEAN /\ reqs[r].in.host \in BOOLEAN
      BY <3>1, InputsAssumption
    <3>3. CASE TakeGlobal(r)
      BY <3>2, <3>3 DEF TakeGlobal, Steps
    <3>4. CASE TakePath(r)
      BY <3>4 DEF TakePath, Steps
    <3>5. CASE Respond(r)
      BY <3>2, <3>5 DEF Respond, Steps
    <3>6. QED
      BY <1>1, <3>3, <3>4, <3>5
  <2>3. QED
    BY <1>0, <2>1, <2>2, GotoIsQuiet DEF Quiet
<1>2. ASSUME NEW r \in Requests, Count(r) \/ Keep(r)
      PROVE  Quiet
  <2>1. UNCHANGED <<clock, lag, ipLimiters, tokens, admitted>>
    BY <1>2 DEF Count, Keep, limiterVars
  <2>2. \E step \in Steps \ {"bucket"} : Goto(r, step)
    BY <1>2 DEF Count, Keep, Steps
  <2>3. QED
    BY <1>0, <2>1, <2>2, GotoIsQuiet DEF Quiet
<1>3. ASSUME NEW r \in Requests, LookUp(r) \/ LookAgain(r)
      PROVE  Quiet \/ Finds(r) \/ Makes(r)
  <2>1. CASE \E l \in LimitersOf(r) : Use(r, l)
    BY <1>3, <2>1 DEF LookUp, LookAgain, Finds
  <2>2. CASE LimitersOf(r) = {} /\ Create(r)
    BY <1>3, <2>2 DEF LookUp, LookAgain, Makes
  <2>3. CASE Goto(r, "create") /\ UNCHANGED <<ipLimiters, tokens>> /\ LookUp(r)
    <3>1. "create" \in Steps \ {"bucket"}
      BY DEF Steps
    <3>2. QED
      BY <1>0, <2>3, <3>1, GotoIsQuiet DEF LookUp, Quiet
  <2>4. QED
    BY <1>3, <2>1, <2>2, <2>3 DEF LookUp, LookAgain
<1>4. ASSUME Switch \/ ResetTotals \/ ResetMaps \/ ResetRing \/ UNCHANGED vars
      PROVE  Quiet
  BY <1>0, <1>4 DEF Switch, ResetTotals, ResetMaps, ResetRing, vars, limiterVars, Quiet
<1>5. QED
  BY <1>1, <1>2, <1>3, <1>4 DEF Next, Serve

LEMMA LimiterInit == Init => LimiterInv
  BY DEF Init, LimiterInv, RequestRecords, Steps, At

LEMMA LimiterStep ==
  ASSUME LimiterInv, [Next]_vars
  PROVE  LimiterInv'
<1> USE SizesAssumption
<1>0. /\ clock \in Nat /\ lag \in Nat /\ reqs \in [Requests -> RequestRecords]
      /\ tokens \in Seq(Nat) /\ admitted \in [Clients -> Nat]
      /\ ipLimiters \subseteq LimiterRecords /\ Len(tokens) \in Nat
  BY DEF LimiterInv
<1>1. CASE Quiet
  BY <1>1 DEF Quiet, LimiterInv, At
<1>2. ASSUME NEW r \in Requests, Finds(r)
      PROVE  LimiterInv'
  <2>1. PICK l \in LimitersOf(r) : Use(r, l)
    BY <1>2 DEF Finds
  <2> DEFINE u == [l EXCEPT !.lastAccess = clock]
  <2>2. /\ UNCHANGED <<clock, admitted, lag, tokens>> /\ l \in ipLimiters /\ l.ip = reqs[r].in.ip
        /\ ipLimiters' = (ipLimiters \ {l}) \union {u}
        /\ reqs' = [reqs EXCEPT ![r].at = "bucket", ![r].ref = l.ref, ![r].since = clock]
    BY <1>2, <2>1 DEF Finds, Use, LimitersOf
  <2>3. /\ u \in LimiterRecords /\ u.ip = l.ip /\ u.ref = l.ref /\ u.lastAccess = clock
        /\ l \in LimiterRecords /\ l.lastAccess <= clock /\ l.ref \in 1 .. Len(tokens)
    BY <1>0, <2>2 DEF LimiterInv, LimiterRecords
  <2> HIDE DEF u
  <2> DEFINE q == [reqs[r] EXCEPT !.at = "bucket", !.ref = l.ref, !.since = clock]
  <2>4. reqs' \in [Requests -> RequestRecords] /\ reqs' = [reqs EXCEPT ![r] = q]
    <3>1. reqs[r] \in RequestRecords /\ l.ref \in Nat
      BY <1>0, <2>3 DEF LimiterRecords
    <3>2. q \in RequestRecords
      BY <1>0, <3>1 DEF RequestRecords, Steps
    <3>3. reqs' = [reqs EXCEPT ![r] = q]
      BY <1>0, <2>2
    <3>4. QED
      BY <1>0, <3>2, <3>3
  <2>5. \A m \in ipLimiters' : m.ref \in 1 .. Len(tokens') /\ m.lastAccess <= clock'
    BY <1>0, <2>2, <2>3 DEF LimiterInv
  <2>6. \A m, n \in ipLimiters' : m.ip = n.ip => m = n
    BY <2>2, <2>3 DEF LimiterInv
  <2>7. ASSUME NEW x \in Requests, reqs'[x].at = "bucket"
        PROVE  /\ reqs'[x].ref \in 1 .. Len(tokens') /\ reqs'[x].since <= clock'
               /\ \/ clock' - reqs'[x].since > IPTTL
                  \/ \E m \in ipLimiters' : /\ m.ip = reqs'[x].in.ip /\ m.ref = reqs'[x].ref
                                            /\ reqs'[x].since <= m.lastAccess
    <3>1. CASE x = r
      <4>1. /\ reqs'[x].ref = l.ref /\ reqs'[x].since = clock /\ reqs'[x].in = reqs[r].in
        BY <1>0, <2>4, <3>1 DEF RequestRecords
      <4>2. u \in ipLimiters'
        BY <2>2
      <4>3. /\ u.ip = reqs'[x].in.ip /\ u.ref = reqs'[x].ref
            /\ reqs'[x].since <= u.lastAccess /\ reqs'[x].since <= clock'
        BY <1>0, <2>2, <2>3, <4>1
      <4>4. reqs'[x].ref \in 1 .. Len(tokens')
        BY <2>2, <2>3, <4>1
      <4>5. QED
        BY <4>2, <4>3, <4>4
    <3>2. CASE x # r
      <4>1. reqs'[x] = reqs[x]
        BY <1>0, <2>4, <3>2
      <4>2. /\ reqs[x].ref \in 1 .. Len(tokens) /\ reqs[x].since <= clock
            /\ \/ clock - reqs[x].since > IPTTL
               \/ \E m \in ipLimiters : /\ m.ip = reqs[x].in.ip /\ m.ref = reqs[x].ref
                                        /\ reqs[x].since <= m.lastAccess
        BY <2>7, <4>1 DEF LimiterInv, At
      <4>3. CASE \E m \in ipLimiters : /\ m.ip = reqs[x].in.ip /\ m.ref = reqs[x].ref
                                       /\ reqs[x].since <= m.lastAccess
        <5>1. PICK m \in ipLimiters : /\ m.ip = reqs[x].in.ip /\ m.ref = reqs[x].ref
                                      /\ reqs[x].since <= m.lastAccess
          BY <4>3
        <5>2. CASE m = l
          BY <2>2, <2>3, <4>1, <4>2, <5>1, <5>2
        <5>3. CASE m # l
          BY <2>2, <4>1, <4>2, <5>1, <5>3
        <5>4. QED
          BY <5>2, <5>3
      <4>4. QED
        BY <2>2, <4>1, <4>2, <4>3
    <3>3. QED
      BY <3>1, <3>2
  <2>8. QED
    BY <1>0, <2>2, <2>3, <2>4, <2>5, <2>6, <2>7 DEF LimiterInv, At
<1>3. ASSUME NEW r \in Requests, Makes(r)
      PROVE  LimiterInv'
  <2> DEFINE n == Len(tokens) + 1
             u == [ip |-> reqs[r].in.ip, ref |-> n, lastAccess |-> clock]
  <2>1. tokens' = Append(tokens, PerIPBurst) /\ tokens' \in Seq(Nat) /\ Len(tokens') = n
    BY <1>0, <1>3 DEF Makes, Create
  <2>2. /\ UNCHANGED <<clock, admitted, lag>> /\ ipLimiters' = ipLimiters \union {u}
        /\ reqs' = [reqs EXCEPT ![r].at = "bucket", ![r].ref = n, ![r].since = clock]
        /\ \A l \in ipLimiters : l.ip # reqs[r].in.ip
    BY <1>3, <2>1 DEF Makes, Create, LimitersOf
  <2>3. reqs[r].in.ip \in Clients /\ n \in Nat /\ n \in 1 .. Len(tokens')
    BY <1>0, <2>1 DEF RequestRecords, Clients
  <2>3a. u \in LimiterRecords /\ u.ip = reqs[r].in.ip /\ u.ref = n /\ u.lastAccess = clock
    BY <1>0, <2>3 DEF LimiterRecords
  <2> HIDE DEF u
  <2> DEFINE q == [reqs[r] EXCEPT !.at = "bucket", !.ref = n, !.since = clock]
  <2>4. reqs' \in [Requests -> RequestRecords] /\ reqs' = [reqs EXCEPT ![r] = q]
    <3> HIDE DEF n
    <3>1. reqs[r] \in RequestRecords
      BY <1>0
    <3>2. q \in RequestRecords
      BY <1>0, <2>3, <3>1 DEF RequestRecords, Steps
    <3>3. reqs' = [reqs EXCEPT ![r] = q]
      BY <1>0, <2>2
    <3>4. QED
      BY <1>0, <3>2, <3>3
  <2>5. \A m \in ipLimiters' : m.ref \in 1 .. Len(tokens') /\ m.lastAccess <= clock'
    BY <1>0, <2>1, <2>2, <2>3a DEF LimiterInv
  <2>6. \A l, m \in ipLimiters' : l.ip = m.ip => l = m
    BY <2>2, <2>3a DEF LimiterInv
  <2>7. ASSUME NEW x \in Requests, reqs'[x].at = "bucket"
        PROVE  /\ reqs'[x].ref \in 1 .. Len(tokens') /\ reqs'[x].since <= clock'
               /\ \/ clock' - reqs'[x].since > IPTTL
                  \/ \E m \in ipLimiters' : /\ m.ip = reqs'[x].in.ip /\ m.ref = reqs'[x].ref
                                            /\ reqs'[x].since <= m.lastAccess
    <3>1. CASE x = r
      <4>1. /\ reqs'[x].ref = n /\ reqs'[x].since = clock /\ reqs'[x].in = reqs[r].in
        BY <1>0, <2>4, <3>1 DEF RequestRecords
      <4>2. u \in ipLimiters'
        BY <2>2
      <4>3. /\ u.ip = reqs'[x].in.ip /\ u.ref = reqs'[x].ref
            /\ reqs'[x].since <= u.lastAccess /\ reqs'[x].since <= clock'
        <5> HIDE DEF n
        <5>1. QED
          BY <1>0, <2>2, <2>3a, <4>1
      <4>4. reqs'[x].ref \in 1 .. Len(tokens')
        BY <2>3, <4>1
      <4>5. QED
        BY <4>2, <4>3, <4>4
    <3>2. CASE x # r
      <4>1. reqs'[x] = reqs[x]
        BY <1>0, <2>4, <3>2
      <4>2. /\ reqs[x].ref \in 1 .. Len(tokens) /\ reqs[x].since <= clock
            /\ \/ clock - reqs[x].since > IPTTL
               \/ \E m \in ipLimiters : /\ m.ip = reqs[x].in.ip /\ m.ref = reqs[x].ref
                                        /\ reqs[x].since <= m.lastAccess
        BY <2>7, <4>1 DEF LimiterInv, At
      <4>3. reqs[x].ref \in 1 .. Len(tokens')
        BY <1>0, <2>1, <4>2
      <4>4. ipLimiters \subseteq ipLimiters' /\ clock' = clock
        BY <2>2
      <4>5. QED
        BY <4>1, <4>2, <4>3, <4>4
    <3>3. QED
      BY <3>1, <3>2
  <2>8. QED
    BY <1>0, <2>1, <2>2, <2>3a, <2>4, <2>5, <2>6, <2>7 DEF LimiterInv, At
<1>4. ASSUME NEW r \in Requests, TakeToken(r)
      PROVE  LimiterInv'
  <2>1. /\ At(r, "bucket") /\ UNCHANGED <<clock, ipLimiters>>
        /\ lag' = Greater(lag, clock - reqs[r].since)
        /\ reqs[r].ref \in 1 .. Len(tokens) /\ reqs[r].since \in Nat
        /\ reqs[r].in.ip \in Clients
    BY <1>0, <1>4 DEF TakeToken, LimiterInv, RequestRecords, Clients
  <2>2. lag' \in Nat
    BY <1>0, <2>1 DEF Greater
  <2>3. \E step \in Steps \ {"bucket"} : Goto(r, step)
    BY <1>4 DEF TakeToken, Steps
  <2>4. /\ reqs' \in [Requests -> RequestRecords]
        /\ \A x \in Requests : reqs'[x].at = "bucket" => reqs'[x] = reqs[x]
    BY <1>0, <2>3, GotoIsQuiet
  <2>5. tokens' \in Seq(Nat) /\ Len(tokens') = Len(tokens) /\ admitted' \in [Clients -> Nat]
    <3>1. CASE tokens[reqs[r].ref] = 0
      BY <1>0, <1>4, <3>1 DEF TakeToken
    <3>2. CASE tokens[reqs[r].ref] # 0
      <4>1. /\ tokens' = [tokens EXCEPT ![reqs[r].ref] = tokens[reqs[r].ref] - 1]
            /\ admitted' = [admitted EXCEPT ![reqs[r].in.ip] = admitted[reqs[r].in.ip] + 1]
        BY <1>4, <3>2 DEF TakeToken
      <4>2. tokens[reqs[r].ref] - 1 \in Nat
        BY <1>0, <2>1, <3>2
      <4>3. tokens' \in Seq(Nat) /\ Len(tokens') = Len(tokens)
        BY <1>0, <2>1, <4>1, <4>2, ExceptSeq
      <4>4. admitted' \in [Clients -> Nat]
        <5>1. admitted \in [Clients -> Nat] /\ admitted[reqs[r].in.ip] + 1 \in Nat
          <6>1. reqs[r] \in RequestRecords
            BY <1>0
          <6>2. reqs[r].in.ip \in Clients
            BY <6>1 DEF RequestRecords, Clients
          <6>3. admitted[reqs[r].in.ip] \in Nat
            BY <1>0, <6>2
          <6>4. QED
            BY <1>0, <6>3
        <5>2. admitted' = [admitted EXCEPT ![reqs[r].in.ip] = admitted[reqs[r].in.ip] + 1]
          BY <4>1
        <5>3. QED
          BY <5>1, <5>2
      <4>5. QED
        BY <4>3, <4>4
    <3>3. QED
      BY <3>1, <3>2
  <2>6. QED
    BY <1>0, <2>1, <2>2, <2>4, <2>5 DEF LimiterInv, At
<1>5. CASE Tick
  <2>1. /\ clock' = clock + 1 /\ UNCHANGED <<ipLimiters, reqs, admitted, lag>>
        /\ tokens' = [ref \in DOMAIN tokens |-> Lesser(tokens[ref] + PerIPRPS, PerIPBurst)]
    BY <1>5 DEF Tick
  <2>2. tokens' \in Seq(Nat) /\ Len(tokens') = Len(tokens)
    <3>1. \A ref \in 1 .. Len(tokens) : Lesser(tokens[ref] + PerIPRPS, PerIPBurst) \in Nat
      BY <1>0 DEF Lesser
    <3>2. tokens' \in [1 .. Len(tokens) -> Nat]
      BY <1>0, <2>1, <3>1
    <3>3. QED
      BY <1>0, <3>2
  <2>3. \A r \in Requests : reqs[r].since \in Nat
    BY <1>0 DEF RequestRecords
  <2>4. \A l \in ipLimiters : l.lastAccess \in Nat
    BY <1>0 DEF LimiterRecords
  <2>5. ASSUME NEW r \in Requests, At(r, "bucket")
        PROVE  /\ reqs[r].ref \in 1 .. Len(tokens') /\ reqs[r].since <= clock'
               /\ \/ clock' - reqs[r].since > IPTTL
                  \/ \E l \in ipLimiters : /\ l.ip = reqs[r].in.ip /\ l.ref = reqs[r].ref
                                           /\ reqs[r].since <= l.lastAccess
    <3>1. /\ reqs[r].ref \in 1 .. Len(tokens) /\ reqs[r].since <= clock
          /\ \/ clock - reqs[r].since > IPTTL
             \/ \E l \in ipLimiters : /\ l.ip = reqs[r].in.ip /\ l.ref = reqs[r].ref
                                      /\ reqs[r].since <= l.lastAccess
      BY <2>5 DEF LimiterInv
    <3>2. clock - reqs[r].since > IPTTL => clock' - reqs[r].since > IPTTL
      BY <1>0, <2>1, <2>3
    <3>3. reqs[r].since <= clock' /\ reqs[r].ref \in 1 .. Len(tokens')
      BY <1>0, <2>1, <2>2, <2>3, <3>1
    <3>4. QED
      BY <3>1, <3>2, <3>3
  <2>6. \A l \in ipLimiters : l.ref \in 1 .. Len(tokens') /\ l.lastAccess <= clock'
    BY <1>0, <2>1, <2>2, <2>4 DEF LimiterInv
  <2>7. clock' \in Nat
    BY <1>0, <2>1
  <2>8. QED
    BY <1>0, <2>1, <2>2, <2>5, <2>6, <2>7 DEF LimiterInv, At
<1>6. CASE Cleanup
  <2>1. /\ UNCHANGED <<clock, lag, reqs, tokens, admitted>>
        /\ ipLimiters' = {l \in ipLimiters : clock - l.lastAccess <= IPTTL}
    BY <1>6 DEF Cleanup
  <2>2. ASSUME NEW r \in Requests, At(r, "bucket"), ~(clock - reqs[r].since > IPTTL)
        PROVE  \E l \in ipLimiters' : /\ l.ip = reqs[r].in.ip /\ l.ref = reqs[r].ref
                                      /\ reqs[r].since <= l.lastAccess
    <3>1. PICK l \in ipLimiters : /\ l.ip = reqs[r].in.ip /\ l.ref = reqs[r].ref
                                  /\ reqs[r].since <= l.lastAccess
      BY <2>2 DEF LimiterInv
    <3>2. clock - l.lastAccess <= IPTTL
      BY <1>0, <2>2, <3>1 DEF LimiterRecords, RequestRecords
    <3>3. QED
      BY <2>1, <3>1, <3>2
  <2>3. QED
    BY <1>0, <2>1, <2>2 DEF LimiterInv, At
<1>7. QED
  BY <1>1, <1>2, <1>3, <1>4, <1>5, <1>6, LimiterSteps

-----------------------------------------------------------------------------
(* The rate                                                                *)

(* What a bucket gets in so many ticks.                                    *)
Gained(ticks) == PerIPRPS * ticks

LEMMA GainedType ==
  /\ \A a \in Int : Gained(a) \in Int
  /\ \A a \in Nat : Gained(a) \in Nat
  /\ Gained(0) = 0
  BY SizesAssumption DEF Gained

LEMMA GainedAdds ==
  ASSUME NEW a \in Int, NEW b \in Int
  PROVE  Gained(a + b) = Gained(a) + Gained(b)
  BY SizesAssumption DEF Gained

LEMMA GainedMonotone ==
  ASSUME NEW a \in Int, NEW b \in Int, a <= b
  PROVE  Gained(a) <= Gained(b)
<1>1. b - a \in Nat /\ b = a + (b - a)
  OBVIOUS
<1>2. Gained(b) = Gained(a) + Gained(b - a)
  BY <1>1, GainedAdds
<1>3. QED
  BY <1>1, <1>2, GainedType

LEMMA ZeroOrWithin ==
  ASSUME NEW a \in Nat, NEW b \in Nat
  PROVE  a + 1 - b <= 0 \/ b <= a
  OBVIOUS

(* A limiter lives on until it is full again, ...                          *)
LivesLong == Gained(IPTTL + 1 - lag) >= PerIPBurst

(* ... so that what a client has had and what its bucket still holds are   *)
(* within the bound, what it had by the last look-up and shortly after     *)
(* too, and when its limiter has gone the burst may be granted anew.       *)
BoundInv ==
  LivesLong =>
    /\ \A l \in ipLimiters :
         /\ admitted[l.ip] + tokens[l.ref] <= PerIPBurst + Gained(clock)
         /\ admitted[l.ip] <= PerIPBurst + Gained(l.lastAccess + lag)
    /\ \A c \in Clients :
         (\A l \in ipLimiters : l.ip # c) => admitted[c] <= Gained(clock)

LEMMA BoundInit == Init => BoundInv
  BY GainedType DEF Init, BoundInv

LEMMA BoundStep ==
  ASSUME LimiterInv, BoundInv, [Next]_vars
  PROVE  BoundInv'
<1>0. /\ clock \in Nat /\ lag \in Nat /\ reqs \in [Requests -> RequestRecords]
      /\ tokens \in Seq(Nat) /\ admitted \in [Clients -> Nat]
      /\ Len(tokens) \in Nat /\ DOMAIN tokens = 1 .. Len(tokens)
      /\ PerIPRPS \in Nat /\ PerIPBurst \in Nat /\ PerIPBurst >= 1 /\ IPTTL \in Nat
  BY SizesAssumption DEF LimiterInv
<1>0a. \A l \in ipLimiters : /\ l.ip \in Clients /\ l.ref \in 1 .. Len(tokens)
                             /\ l.lastAccess \in Nat /\ l.lastAccess <= clock
                             /\ tokens[l.ref] \in Nat
  <2>1. \A l \in ipLimiters : /\ l.ip \in Clients /\ l.ref \in 1 .. Len(tokens)
                              /\ l.lastAccess \in Nat /\ l.lastAccess <= clock
    BY DEF LimiterInv, LimiterRecords
  <2>2. QED
    BY <1>0, <2>1
<1>0b. /\ clock \in Nat /\ lag \in Nat /\ IPTTL \in Nat /\ PerIPBurst \in Nat /\ PerIPRPS \in Nat
       /\ IPTTL + 1 - lag \in Int
  BY <1>0
<1>1. CASE Quiet
  BY <1>1 DEF Quiet, BoundInv, LivesLong
<1>2. ASSUME NEW r \in Requests, Finds(r)
      PROVE  BoundInv'
  <2>1. PICK l \in LimitersOf(r) : Use(r, l)
    BY <1>2 DEF Finds
  <2> DEFINE u == [l EXCEPT !.lastAccess = clock]
  <2>2. /\ UNCHANGED <<clock, admitted, lag, tokens>> /\ l \in ipLimiters
        /\ ipLimiters' = (ipLimiters \ {l}) \union {u}
    BY <1>2, <2>1 DEF Finds, Use, LimitersOf
  <2>3. u.ip = l.ip /\ u.ref = l.ref /\ u.lastAccess = clock
    <3>1. l \in LimiterRecords
      BY <2>2 DEF LimiterInv
    <3>2. QED
      BY <3>1 DEF LimiterRecords
  <2> HIDE DEF u
  <2>4. SUFFICES ASSUME LivesLong
                 PROVE  BoundInv'
    BY <2>2 DEF BoundInv, LivesLong
  <2>5. /\ admitted[u.ip] + tokens[u.ref] <= PerIPBurst + Gained(clock)
        /\ admitted[u.ip] <= PerIPBurst + Gained(u.lastAccess + lag)
    <3>1. admitted[l.ip] + tokens[l.ref] <= PerIPBurst + Gained(clock)
      BY <2>2, <2>4 DEF BoundInv
    <3>2. Gained(clock) <= Gained(clock + lag)
      BY <1>0, GainedMonotone
    <3>3. Gained(clock) \in Nat /\ Gained(clock + lag) \in Nat
      BY <1>0, GainedType
    <3>4. admitted[l.ip] \in Nat /\ tokens[l.ref] \in Nat
      BY <1>0, <1>0a, <2>2
    <3>5. QED
      BY <1>0, <2>3, <3>1, <3>2, <3>3, <3>4
  <2>6. \A c \in Clients : (\A m \in ipLimiters' : m.ip # c) => \A m \in ipLimiters : m.ip # c
    BY <2>2, <2>3
  <2>7. QED
    BY <2>2, <2>4, <2>5, <2>6 DEF BoundInv
<1>3. ASSUME NEW r \in Requests, Makes(r)
      PROVE  BoundInv'
  <2> DEFINE n == Len(tokens) + 1
             u == [ip |-> reqs[r].in.ip, ref |-> n, lastAccess |-> clock]
  <2>1. tokens' = Append(tokens, PerIPBurst) /\ Len(tokens') = n
        /\ tokens'[n] = PerIPBurst /\ \A i \in 1 .. Len(tokens) : tokens'[i] = tokens[i]
    BY <1>0, <1>3, AppendProperties DEF Makes, Create
  <2>2. /\ UNCHANGED <<clock, admitted, lag>> /\ ipLimiters' = ipLimiters \union {u}
        /\ \A l \in ipLimiters : l.ip # reqs[r].in.ip
    BY <1>3, <2>1 DEF Makes, Create, LimitersOf
  <2>3. SUFFICES ASSUME LivesLong
                 PROVE  BoundInv'
    BY <2>2 DEF BoundInv, LivesLong
  <2>4. reqs[r].in.ip \in Clients
    BY <1>0 DEF RequestRecords, Clients
  <2>5. admitted[reqs[r].in.ip] <= Gained(clock)
    BY <2>2, <2>3, <2>4 DEF BoundInv
  <2>6. u.ip = reqs[r].in.ip /\ u.ref = n /\ u.lastAccess = clock
    OBVIOUS
  <2> HIDE DEF u
  <2>7. /\ admitted[u.ip] + tokens'[u.ref] <= PerIPBurst + Gained(clock)
        /\ admitted[u.ip] <= PerIPBurst + Gained(u.lastAccess + lag)
    <3>1. Gained(clock) <= Gained(clock + lag)
      BY <1>0, GainedMonotone
    <3>2. Gained(clock) \in Nat /\ Gained(clock + lag) \in Nat
      BY <1>0, GainedType
    <3>3. admitted[u.ip] \in Nat /\ tokens'[u.ref] = PerIPBurst
      BY <1>0, <2>1, <2>4, <2>6
    <3>4. QED
      BY <1>0, <2>5, <2>6, <3>1, <3>2, <3>3
  <2>8. \A l \in ipLimiters : tokens'[l.ref] = tokens[l.ref]
    BY <1>0a, <2>1
  <2>9. \A c \in Clients : (\A m \in ipLimiters' : m.ip # c) => \A m \in ipLimiters : m.ip # c
    BY <2>2
  <2>10. QED
    BY <2>2, <2>3, <2>7, <2>8, <2>9 DEF BoundInv
<1>4. ASSUME NEW r \in Requests, TakeToken(r)
      PROVE  BoundInv'
  <2> DEFINE ref == reqs[r].ref
             ip  == reqs[r].in.ip
  <2>1. /\ At(r, "bucket") /\ UNCHANGED <<clock, ipLimiters>>
        /\ lag' = Greater(lag, clock - reqs[r].since)
        /\ ref \in 1 .. Len(tokens) /\ reqs[r].since \in Nat /\ reqs[r].since <= clock
        /\ ip \in Clients
    BY <1>0, <1>4 DEF TakeToken, LimiterInv, RequestRecords, Clients
  <2>2. lag' \in Nat /\ lag <= lag' /\ clock - reqs[r].since <= lag'
    BY <1>0, <2>1 DEF Greater
  <2>3. SUFFICES ASSUME LivesLong'
                 PROVE  BoundInv'
    BY DEF BoundInv
  <2>4. Gained(IPTTL + 1 - lag') >= PerIPBurst
    BY <2>3 DEF LivesLong
  <2>5. LivesLong
    <3>1. Gained(IPTTL + 1 - lag') <= Gained(IPTTL + 1 - lag)
      BY <1>0, <2>2, GainedMonotone
    <3>2. Gained(IPTTL + 1 - lag') \in Int /\ Gained(IPTTL + 1 - lag) \in Int
      <4>1. IPTTL + 1 - lag' \in Int
        BY <1>0b, <2>2
      <4>2. QED
        BY <1>0b, <4>1, GainedType
    <3>3. QED
      BY <1>0b, <2>4, <3>1, <3>2 DEF LivesLong
  <2>6. lag' <= IPTTL
    <3>1. IPTTL + 1 - lag' \in Int /\ lag' \in Nat
      BY <1>0b, <2>2
    <3>2. ASSUME IPTTL + 1 - lag' <= 0
          PROVE  FALSE
      <4>1. Gained(IPTTL + 1 - lag') <= Gained(0)
        BY <3>1, <3>2, GainedMonotone
      <4>2. Gained(IPTTL + 1 - lag') \in Int /\ Gained(0) = 0
        BY <3>1, GainedType
      <4>3. PerIPBurst >= 1 /\ PerIPBurst \in Nat
        BY <1>0
      <4>4. QED
        BY <2>4, <4>1, <4>2, <4>3
    <3>3. IPTTL \in Nat
      BY SizesAssumption
    <3>4. IPTTL + 1 - lag' <= 0 \/ lag' <= IPTTL
      BY <3>1, <3>3, ZeroOrWithin
    <3>5. QED
      BY <3>2, <3>4
  <2>7. PICK l \in ipLimiters : l.ip = ip /\ l.ref = ref /\ reqs[r].since <= l.lastAccess
    <3>1. ~(clock - reqs[r].since > IPTTL)
      BY <1>0, <2>1, <2>2, <2>6
    <3>2. QED
      BY <2>1, <3>1 DEF LimiterInv
  <2>8. /\ l.lastAccess \in Nat /\ tokens[ref] \in Nat /\ admitted[ip] \in Nat
        /\ admitted[ip] + tokens[ref] <= PerIPBurst + Gained(clock)
        /\ admitted[ip] <= PerIPBurst + Gained(l.lastAccess + lag)
    BY <1>0, <1>0a, <2>1, <2>5, <2>7 DEF BoundInv
  <2> HIDE DEF ref, ip
  <2>9. \A m \in ipLimiters :
          Gained(m.lastAccess + lag) <= Gained(m.lastAccess + lag')
    BY <1>0, <1>0a, <2>2, GainedMonotone
  <2>10. \A m \in ipLimiters : /\ Gained(m.lastAccess + lag) \in Nat
                               /\ Gained(m.lastAccess + lag') \in Nat
    <3>1. \A m \in ipLimiters : m.lastAccess + lag \in Nat /\ m.lastAccess + lag' \in Nat
      BY <1>0b, <1>0a, <2>2
    <3>2. QED
      BY <3>1, GainedType
  <2>11. Gained(clock) \in Nat
    BY <1>0, GainedType
  <2>12. CASE tokens[ref] = 0
    <3>1. UNCHANGED <<tokens, admitted>>
      BY <1>4, <2>12 DEF TakeToken, ref
    <3>2. ASSUME NEW m \in ipLimiters
          PROVE  admitted[m.ip] <= PerIPBurst + Gained(m.lastAccess + lag')
      <4>1. admitted[m.ip] <= PerIPBurst + Gained(m.lastAccess + lag) /\ admitted[m.ip] \in Nat
        BY <1>0, <1>0a, <2>5 DEF BoundInv
      <4>2. QED
        BY <1>0, <2>9, <2>10, <4>1
    <3>3. QED
      BY <2>1, <2>5, <3>1, <3>2 DEF BoundInv
  <2>13. CASE tokens[ref] # 0
    <3>1. /\ tokens' = [tokens EXCEPT ![ref] = tokens[ref] - 1]
          /\ admitted' = [admitted EXCEPT ![ip] = admitted[ip] + 1]
      BY <1>4, <2>13 DEF TakeToken, ref, ip
    <3>2. /\ tokens'[ref] = tokens[ref] - 1 /\ admitted'[ip] = admitted[ip] + 1
          /\ \A i \in 1 .. Len(tokens) : tokens'[i] \in Int /\ tokens'[i] <= tokens[i]
          /\ \A c \in Clients : c # ip => admitted'[c] = admitted[c]
      <4>1. \A i \in 1 .. Len(tokens) : tokens[i] \in Nat
        BY <1>0
      <4>2. \A i \in 1 .. Len(tokens) : tokens'[i] = IF i = ref THEN tokens[ref] - 1 ELSE tokens[i]
        BY <1>0, <3>1
      <4>3. ref \in 1 .. Len(tokens) /\ ip \in Clients
        BY <2>1 DEF ref, ip
      <4>4. QED
        BY <1>0, <3>1, <4>1, <4>2, <4>3
    <3>3. ASSUME NEW m \in ipLimiters
          PROVE  /\ admitted'[m.ip] + tokens'[m.ref] <= PerIPBurst + Gained(clock)
                 /\ admitted'[m.ip] <= PerIPBurst + Gained(m.lastAccess + lag')
      <4>1. CASE m.ip = ip
        <5>1. m = l
          BY <2>7, <4>1 DEF LimiterInv
        <5>2. admitted'[m.ip] + tokens'[m.ref] = admitted[ip] + tokens[ref]
          <6>1. admitted'[m.ip] = admitted[ip] + 1 /\ tokens'[m.ref] = tokens[ref] - 1
            BY <2>7, <3>2, <5>1
          <6>2. QED
            BY <2>8, <6>1
        <5>3. clock <= l.lastAccess + lag'
          BY <1>0, <2>1, <2>2, <2>7, <2>8
        <5>4. Gained(clock) <= Gained(l.lastAccess + lag')
          BY <1>0, <2>2, <2>8, <5>3, GainedMonotone
        <5>5. admitted[ip] + 1 <= PerIPBurst + Gained(clock)
          BY <1>0, <2>8, <2>11, <2>13
        <5>6. admitted'[m.ip] <= PerIPBurst + Gained(m.lastAccess + lag')
          BY <1>0, <2>8, <2>10, <2>11, <3>2, <4>1, <5>1, <5>4, <5>5
        <5>7. QED
          BY <2>8, <5>2, <5>6
      <4>2. CASE m.ip # ip
        <5>1. /\ admitted[m.ip] + tokens[m.ref] <= PerIPBurst + Gained(clock)
              /\ admitted[m.ip] <= PerIPBurst + Gained(m.lastAccess + lag)
          BY <2>5 DEF BoundInv
        <5>2. /\ admitted'[m.ip] = admitted[m.ip] /\ admitted[m.ip] \in Nat
              /\ tokens'[m.ref] <= tokens[m.ref] /\ tokens'[m.ref] \in Int /\ tokens[m.ref] \in Nat
          BY <1>0, <1>0a, <3>2, <4>2
        <5>3. admitted'[m.ip] + tokens'[m.ref] <= PerIPBurst + Gained(clock)
          BY <1>0, <2>11, <5>1, <5>2
        <5>4. admitted'[m.ip] <= PerIPBurst + Gained(m.lastAccess + lag')
          BY <1>0, <2>9, <2>10, <5>1, <5>2
        <5>5. QED
          BY <5>3, <5>4
      <4>3. QED
        BY <4>1, <4>2
    <3>4. ASSUME NEW c \in Clients, \A m \in ipLimiters : m.ip # c
          PROVE  admitted'[c] <= Gained(clock)
      BY <2>5, <2>7, <3>2, <3>4 DEF BoundInv
    <3>5. QED
      BY <2>1, <3>3, <3>4 DEF BoundInv
  <2>14. QED
    BY <2>12, <2>13
<1>5. CASE Tick
  <2>1. /\ clock' = clock + 1 /\ UNCHANGED <<ipLimiters, reqs, admitted, lag>>
        /\ tokens' = [ref \in DOMAIN tokens |-> Lesser(tokens[ref] + PerIPRPS, PerIPBurst)]
    BY <1>5 DEF Tick
  <2>2. SUFFICES ASSUME LivesLong
                 PROVE  BoundInv'
    BY <2>1 DEF BoundInv, LivesLong
  <2>3. Gained(clock') = Gained(clock) + PerIPRPS /\ Gained(clock) \in Nat
    <3>1. Gained(clock + 1) = Gained(clock) + Gained(1)
      BY <1>0, GainedAdds
    <3>2. Gained(1) = PerIPRPS
      BY <1>0 DEF Gained
    <3>3. QED
      BY <1>0, <2>1, <3>1, <3>2, GainedType
  <2>4. ASSUME NEW l \in ipLimiters
        PROVE  admitted[l.ip] + tokens'[l.ref] <= PerIPBurst + Gained(clock')
    <3>1. tokens'[l.ref] = Lesser(tokens[l.ref] + PerIPRPS, PerIPBurst)
      BY <1>0, <1>0a, <2>1
    <3>2. tokens'[l.ref] \in Nat /\ tokens'[l.ref] <= tokens[l.ref] + PerIPRPS
      BY <1>0, <1>0a, <3>1 DEF Lesser
    <3>3. admitted[l.ip] + tokens[l.ref] <= PerIPBurst + Gained(clock) /\ admitted[l.ip] \in Nat
      BY <1>0, <1>0a, <2>2 DEF BoundInv
    <3>4. tokens[l.ref] \in Nat
      BY <1>0a
    <3> DEFINE a == admitted[l.ip]
               t == tokens[l.ref]
               u == tokens'[l.ref]
    <3>5. a \in Nat /\ t \in Nat /\ u \in Nat /\ u <= t + PerIPRPS /\ a + t <= PerIPBurst + Gained(clock)
      BY <3>2, <3>3, <3>4
    <3> HIDE DEF a, t, u
    <3>6. a + u <= PerIPBurst + Gained(clock')
      BY <1>0b, <2>3, <3>5
    <3>7. QED
      BY <3>6 DEF a, u
  <2>5. ASSUME NEW c \in Clients, \A l \in ipLimiters : l.ip # c
        PROVE  admitted[c] <= Gained(clock')
    <3>1. admitted[c] <= Gained(clock) /\ admitted[c] \in Nat
      BY <1>0, <2>2, <2>5 DEF BoundInv
    <3>2. QED
      BY <1>0, <2>3, <3>1
  <2>6. QED
    BY <2>1, <2>2, <2>4, <2>5 DEF BoundInv
<1>6. CASE Cleanup
  <2>1. /\ UNCHANGED <<clock, lag, reqs, tokens, admitted>>
        /\ ipLimiters' = {l \in ipLimiters : clock - l.lastAccess <= IPTTL}
    BY <1>6 DEF Cleanup
  <2>2. SUFFICES ASSUME LivesLong
                 PROVE  BoundInv'
    BY <2>1 DEF BoundInv, LivesLong
  <2>3. ASSUME NEW c \in Clients, \A l \in ipLimiters' : l.ip # c
        PROVE  admitted[c] <= Gained(clock)
    <3>1. CASE \A l \in ipLimiters : l.ip # c
      BY <2>2, <3>1 DEF BoundInv
    <3>2. CASE \E l \in ipLimiters : l.ip = c
      <4>1. PICK l \in ipLimiters : l.ip = c
        BY <3>2
      <4>2. ~(clock - l.lastAccess <= IPTTL)
        BY <2>1, <2>3, <4>1
      <4>3. l.lastAccess \in Nat /\ admitted[c] \in Nat
            /\ admitted[c] <= PerIPBurst + Gained(l.lastAccess + lag)
        BY <1>0, <1>0a, <2>2, <4>1 DEF BoundInv
      <4>4. (IPTTL + 1 - lag) + (l.lastAccess + lag) <= clock
        BY <1>0, <4>2, <4>3
      <4>5. Gained((IPTTL + 1 - lag) + (l.lastAccess + lag)) <= Gained(clock)
        BY <1>0, <4>3, <4>4, GainedMonotone
      <4>6. Gained((IPTTL + 1 - lag) + (l.lastAccess + lag))
              = Gained(IPTTL + 1 - lag) + Gained(l.lastAccess + lag)
        <5>1. IPTTL + 1 - lag \in Int /\ l.lastAccess + lag \in Int
          BY <1>0b, <4>3
        <5>2. QED
          BY <5>1, GainedAdds
      <4>7. PerIPBurst <= Gained(IPTTL + 1 - lag)
        BY <2>2 DEF LivesLong
      <4>8. /\ Gained(IPTTL + 1 - lag) \in Int /\ Gained(l.lastAccess + lag) \in Int
            /\ Gained(clock) \in Int
        <5>1. l.lastAccess + lag \in Int /\ clock \in Int
          BY <1>0b, <4>3
        <5>2. QED
          BY <1>0b, <5>1, GainedType
      <4>9. QED
        BY <1>0, <4>3, <4>5, <4>6, <4>7, <4>8
    <3>3. QED
      BY <3>1, <3>2
  <2>4. QED
    BY <2>1, <2>2, <2>3 DEF BoundInv
<1>7. QED
  BY <1>1, <1>2, <1>3, <1>4, <1>5, <1>6, LimiterSteps

(* However many goroutines look for a client's limiter at once and         *)
(* whatever cleanup drops, no client gets more through than its burst and  *)
(* what time has added, provided a limiter lives on until it is full again *)
(* (ratelimit.go:148-164, 278-304).                                        *)
THEOREM RateLimited == Spec => []RateIsBounded
<1>1. LimiterInv /\ BoundInv => RateIsBounded
  <2> SUFFICES ASSUME LimiterInv, BoundInv, LivesLong, NEW c \in Clients
               PROVE  admitted[c] <= PerIPBurst + Gained(clock)
    BY DEF RateIsBounded, LivesLong, Gained
  <2>1. /\ clock \in Nat /\ admitted[c] \in Nat /\ tokens \in Seq(Nat)
        /\ PerIPRPS \in Nat /\ PerIPBurst \in Nat
    BY SizesAssumption DEF LimiterInv
  <2>2. Gained(clock) \in Nat
    BY <2>1, GainedType
  <2>3. CASE \E l \in ipLimiters : l.ip = c
    <3>1. PICK l \in ipLimiters : l.ip = c
      BY <2>3
    <3>2. tokens[l.ref] \in Nat /\ admitted[c] + tokens[l.ref] <= PerIPBurst + Gained(clock)
      BY <2>1, <3>1 DEF LimiterInv, BoundInv
    <3>3. QED
      BY <2>1, <2>2, <3>2
  <2>4. CASE \A l \in ipLimiters : l.ip # c
    <3>1. admitted[c] <= Gained(clock)
      BY <2>4 DEF BoundInv
    <3>2. QED
      BY <2>1, <2>2, <3>1
  <2>5. QED
    BY <2>3, <2>4
<1>2. LimiterInv /\ BoundInv /\ [Next]_vars => (LimiterInv /\ BoundInv)'
  BY LimiterStep, BoundStep
<1>3. QED
  BY <1>1, <1>2, LimiterInit, BoundInit, PTL DEF Spec

-----------------------------------------------------------------------------
(* The counters                                                            *)

(* The members of S whose request is one of these inputs.                  *)
Of(S, served, inputs) == Cardinality({r \in S : served[r] \in inputs})

LEMMA OfNone == \A served, inputs : Of({}, served, inputs) = 0
<1>1. \A served, inputs : {r \in {} : served[r] \in inputs} = {}
  OBVIOUS
<1>2. QED
  BY <1>1, FS_EmptySet DEF Of

LEMMA OfOneMore ==
  ASSUME NEW S, IsFiniteSet(S), NEW r, r \notin S, NEW served, NEW inputs
  PROVE  Of(S \union {r}, served, inputs)
           = IF served[r] \in inputs THEN Of(S, served, inputs) + 1 ELSE Of(S, served, inputs)
<1> DEFINE T == {x \in S : served[x] \in inputs}
<1>1. IsFiniteSet(T) /\ r \notin T
  BY FS_Subset
<1>2. Cardinality(T \union {r}) = Cardinality(T) + 1
  BY <1>1, FS_AddElement
<1>3. CASE served[r] \in inputs
  <2>1. {x \in S \union {r} : served[x] \in inputs} = T \union {r}
    BY <1>3
  <2>2. QED
    BY <1>2, <1>3, <2>1 DEF Of
<1>4. CASE served[r] \notin inputs
  <2>1. {x \in S \union {r} : served[x] \in inputs} = T
    BY <1>4
  <2>2. QED
    BY <1>4, <2>1 DEF Of
<1>5. QED
  BY <1>3, <1>4

(* The bounds split the latencies into the buckets.                        *)
Within(b) ==
  {in \in Inputs : /\ b > 0 => in.latency >= LatencyBounds[b]
                   /\ b < Len(LatencyBounds) => in.latency < LatencyBounds[b + 1]}

LEMMA BucketIsWithin ==
  ASSUME NEW in \in Inputs
  PROVE  /\ LatencyBucket(in.latency) \in Buckets
         /\ \A b \in Buckets : in \in Within(b) <=> b = LatencyBucket(in.latency)
<1> DEFINE us == in.latency
           below == {bound \in ToSet(LatencyBounds) : bound <= us}
<1>1. us \in Nat
  BY InputsAssumption
<1>2. ToSet(LatencyBounds) = {100, 500, 1000, 5000, 10000}
  BY DEF ToSet, LatencyBounds
<1>3. /\ IsFiniteSet({}) /\ Cardinality({}) = 0
      /\ IsFiniteSet({100}) /\ Cardinality({100}) = 1
      /\ IsFiniteSet({100, 500}) /\ Cardinality({100, 500}) = 2
      /\ IsFiniteSet({100, 500, 1000}) /\ Cardinality({100, 500, 1000}) = 3
      /\ IsFiniteSet({100, 500, 1000, 5000}) /\ Cardinality({100, 500, 1000, 5000}) = 4
      /\ Cardinality({100, 500, 1000, 5000, 10000}) = 5
  <2>1. IsFiniteSet({}) /\ Cardinality({}) = 0
    BY FS_EmptySet
  <2>2. IsFiniteSet({100}) /\ Cardinality({100}) = 1
    <3>1. 100 \notin {} /\ {} \union {100} = {100}
      OBVIOUS
    <3>2. IsFiniteSet({} \union {100}) /\ Cardinality({} \union {100}) = Cardinality({}) + 1
      BY <2>1, <3>1, FS_AddElement
    <3>3. QED
      BY <2>1, <3>1, <3>2
  <2>3. IsFiniteSet({100, 500}) /\ Cardinality({100, 500}) = 2
    <3>1. 500 \notin {100} /\ {100} \union {500} = {100, 500}
      OBVIOUS
    <3>2. IsFiniteSet({100} \union {500}) /\ Cardinality({100} \union {500}) = Cardinality({100}) + 1
      BY <2>2, <3>1, FS_AddElement
    <3>3. QED
      BY <2>2, <3>1, <3>2
  <2>4. IsFiniteSet({100, 500, 1000}) /\ Cardinality({100, 500, 1000}) = 3
    <3>1. 1000 \notin {100, 500} /\ {100, 500} \union {1000} = {100, 500, 1000}
      OBVIOUS
    <3>2. /\ IsFiniteSet({100, 500} \union {1000})
          /\ Cardinality({100, 500} \union {1000}) = Cardinality({100, 500}) + 1
      BY <2>3, <3>1, FS_AddElement
    <3>3. QED
      BY <2>3, <3>1, <3>2
  <2>5. IsFiniteSet({100, 500, 1000, 5000}) /\ Cardinality({100, 500, 1000, 5000}) = 4
    <3>1. 5000 \notin {100, 500, 1000} /\ {100, 500, 1000} \union {5000} = {100, 500, 1000, 5000}
      OBVIOUS
    <3>2. /\ IsFiniteSet({100, 500, 1000} \union {5000})
          /\ Cardinality({100, 500, 1000} \union {5000}) = Cardinality({100, 500, 1000}) + 1
      BY <2>4, <3>1, FS_AddElement
    <3>3. QED
      BY <2>4, <3>1, <3>2
  <2>6. Cardinality({100, 500, 1000, 5000, 10000}) = 5
    <3>1. /\ 10000 \notin {100, 500, 1000, 5000}
          /\ {100, 500, 1000, 5000} \union {10000} = {100, 500, 1000, 5000, 10000}
      OBVIOUS
    <3>2. Cardinality({100, 500, 1000, 5000} \union {10000}) = Cardinality({100, 500, 1000, 5000}) + 1
      BY <2>5, <3>1, FS_AddElement
    <3>3. QED
      BY <2>5, <3>1, <3>2
  <2>7. QED
    BY <2>1, <2>2, <2>3, <2>4, <2>5, <2>6
<1>4. below = {bound \in {100, 500, 1000, 5000, 10000} : bound <= us}
  BY <1>2
<1>5. LatencyBucket(us) = Cardinality(below)
  BY DEF LatencyBucket
<1>6. /\ us < 100 => below = {}
      /\ 100 <= us /\ us < 500 => below = {100}
      /\ 500 <= us /\ us < 1000 => below = {100, 500}
      /\ 1000 <= us /\ us < 5000 => below = {100, 500, 1000}
      /\ 5000 <= us /\ us < 10000 => below = {100, 500, 1000, 5000}
      /\ 10000 <= us => below = {100, 500, 1000, 5000, 10000}
  BY <1>1, <1>4
<1> HIDE DEF below
<1>7. /\ us < 100 => LatencyBucket(us) = 0
      /\ 100 <= us /\ us < 500 => LatencyBucket(us) = 1
      /\ 500 <= us /\ us < 1000 => LatencyBucket(us) = 2
      /\ 1000 <= us /\ us < 5000 => LatencyBucket(us) = 3
      /\ 5000 <= us /\ us < 10000 => LatencyBucket(us) = 4
      /\ 10000 <= us => LatencyBucket(us) = 5
  BY <1>3, <1>5, <1>6
<1>8. /\ in \in Within(0) <=> us < 100
      /\ in \in Within(1) <=> 100 <= us /\ us < 500
      /\ in \in Within(2) <=> 500 <= us /\ us < 1000
      /\ in \in Within(3) <=> 1000 <= us /\ us < 5000
      /\ in \in Within(4) <=> 5000 <= us /\ us < 10000
      /\ in \in Within(5) <=> 10000 <= us
  <2>1. /\ Len(LatencyBounds) = 5 /\ LatencyBounds[1] = 100 /\ LatencyBounds[2] = 500
        /\ LatencyBounds[3] = 1000 /\ LatencyBounds[4] = 5000 /\ LatencyBounds[5] = 10000
    BY DEF LatencyBounds
  <2>2. QED
    BY <1>1, <2>1 DEF Within
<1>9. LatencyBucket(us) \in Buckets
  BY <1>1, <1>7 DEF Buckets
<1>10. ASSUME NEW b \in Buckets
       PROVE  in \in Within(b) <=> b = LatencyBucket(us)
  <2>1. b \in {0, 1, 2, 3, 4, 5}
    BY DEF Buckets
  <2>2. QED
    BY <1>1, <1>7, <1>8, <2>1
<1>11. QED
  BY <1>9, <1>10

StatsType ==
  [total : Nat, errors : Nat, sampled : Nat,
   status : [Statuses -> Nat], hits : [RuleIDs -> Nat], latency : [Buckets -> Nat]]

Failed == {in \in Inputs : in.status >= 400}
Answered(s) == {in \in Inputs : in.status = s}
ByRule(id) == {in \in Inputs : in.rule = id}

(* Counting a request adds one under its status, its rule and its bucket.  *)
LEMMA CountAddsOne ==
  ASSUME NEW s \in StatsType, NEW in \in Inputs,
         NEW t, t = UpdateLatencyHistogram(UpdateRuleStats(IncrementStatus(s, in), in), in)
  PROVE  /\ t \in StatsType
         /\ t.total = s.total /\ t.errors = s.errors /\ t.sampled = s.sampled
         /\ \A c \in Statuses :
              t.status[c] = IF in \in Answered(c) THEN s.status[c] + 1 ELSE s.status[c]
         /\ \A id \in RuleIDs :
              t.hits[id] = IF in \in ByRule(id) THEN s.hits[id] + 1 ELSE s.hits[id]
         /\ \A b \in Buckets :
              t.latency[b] = IF in \in Within(b) THEN s.latency[b] + 1 ELSE s.latency[b]
<1> DEFINE u == IncrementStatus(s, in)
           v == UpdateRuleStats(u, in)
           k == LatencyBucket(in.latency)
<1>1. /\ u \in StatsType /\ u.total = s.total /\ u.errors = s.errors /\ u.sampled = s.sampled
      /\ u.hits = s.hits /\ u.latency = s.latency
      /\ \A c \in Statuses :
           u.status[c] = IF in \in Answered(c) THEN s.status[c] + 1 ELSE s.status[c]
  <2>1. in.status \in Statuses
    BY DEF Statuses
  <2>2. u = [s EXCEPT !.status = [s.status EXCEPT ![in.status] = s.status[in.status] + 1]]
    BY DEF IncrementStatus, StatsType
  <2> DEFINE f == [s.status EXCEPT ![in.status] = s.status[in.status] + 1]
  <2>3. s.status \in [Statuses -> Nat]
    BY DEF StatsType
  <2>4. f \in [Statuses -> Nat]
    BY <2>1, <2>3
  <2>5. \A c \in Statuses : f[c] = IF in \in Answered(c) THEN s.status[c] + 1 ELSE s.status[c]
    BY <2>1, <2>3 DEF Answered
  <2> HIDE DEF f, u
  <2>6. u.status = f
    BY <2>2 DEF StatsType, f
  <2>7. /\ u \in StatsType /\ u.total = s.total /\ u.errors = s.errors /\ u.sampled = s.sampled
        /\ u.hits = s.hits /\ u.latency = s.latency
    BY <2>2, <2>4 DEF StatsType, f
  <2>8. QED
    BY <2>5, <2>6, <2>7
<1> HIDE DEF u
<1>2. /\ v \in StatsType /\ v.total = u.total /\ v.errors = u.errors /\ v.sampled = u.sampled
      /\ v.status = u.status /\ v.latency = u.latency
      /\ \A id \in RuleIDs :
           v.hits[id] = IF in \in ByRule(id) THEN u.hits[id] + 1 ELSE u.hits[id]
  <2>1. CASE in.rule = ""
    BY <1>1, <2>1 DEF UpdateRuleStats, RuleIDs, ByRule
  <2>2. CASE in.rule # ""
    <3>1. in.rule \in RuleIDs
      BY <2>2 DEF RuleIDs
    <3> DEFINE f == [u.hits EXCEPT ![in.rule] = u.hits[in.rule] + 1]
    <3>2. v = [u EXCEPT !.hits = f]
      BY <1>1, <2>2 DEF UpdateRuleStats, StatsType
    <3>3. u.hits \in [RuleIDs -> Nat]
      BY <1>1 DEF StatsType
    <3>4. f \in [RuleIDs -> Nat]
      BY <3>1, <3>3
    <3>5. \A id \in RuleIDs : f[id] = IF in \in ByRule(id) THEN u.hits[id] + 1 ELSE u.hits[id]
      BY <3>1, <3>3 DEF ByRule
    <3> HIDE DEF f, v
    <3>6. v.hits = f
      BY <1>1, <3>2 DEF StatsType
    <3>7. /\ v \in StatsType /\ v.total = u.total /\ v.errors = u.errors /\ v.sampled = u.sampled
          /\ v.status = u.status /\ v.latency = u.latency
      BY <1>1, <3>2, <3>4 DEF StatsType
    <3>8. QED
      BY <3>5, <3>6, <3>7
  <2>3. QED
    BY <2>1, <2>2
<1> HIDE DEF v
<1>3. /\ t \in StatsType /\ t.total = v.total /\ t.errors = v.errors /\ t.sampled = v.sampled
      /\ t.status = v.status /\ t.hits = v.hits
      /\ \A b \in Buckets :
           t.latency[b] = IF in \in Within(b) THEN v.latency[b] + 1 ELSE v.latency[b]
  <2>1. k \in Buckets /\ \A b \in Buckets : in \in Within(b) <=> b = k
    BY BucketIsWithin
  <2> DEFINE f == [v.latency EXCEPT ![k] = v.latency[k] + 1]
  <2>2. t = [v EXCEPT !.latency = f]
    BY <1>2 DEF UpdateLatencyHistogram, StatsType, u, v
  <2>3. v.latency \in [Buckets -> Nat]
    BY <1>2 DEF StatsType
  <2> HIDE DEF k
  <2>4. f \in [Buckets -> Nat]
    BY <2>1, <2>3
  <2>5. \A b \in Buckets : f[b] = IF in \in Within(b) THEN v.latency[b] + 1 ELSE v.latency[b]
    BY <2>1, <2>3
  <2> HIDE DEF f
  <2>6. t.latency = f
    BY <1>2, <2>2 DEF StatsType
  <2>7. /\ t \in StatsType /\ t.total = v.total /\ t.errors = v.errors /\ t.sampled = v.sampled
        /\ t.status = v.status /\ t.hits = v.hits
    BY <1>2, <2>2, <2>4 DEF StatsType
  <2>8. QED
    BY <2>5, <2>6, <2>7
<1>4. QED
  BY <1>1, <1>2, <1>3

(* Who asked for what never changes.                                       *)
Served == [r \in Requests |-> reqs[r].in]

Recorded == {"totals", "counted", "done"}

LEMMA GotoMoves ==
  ASSUME reqs \in [Requests -> RequestRecords], NEW r \in Requests, NEW step \in Steps,
         Goto(r, step)
  PROVE  /\ reqs' \in [Requests -> RequestRecords]
         /\ Served' = Served
         /\ reqs'[r].at = step
         /\ \A x \in Requests : x # r => reqs'[x] = reqs[x]
<1>1. \A x \in Requests : reqs'[x].in = reqs[x].in
  BY DEF Goto, RequestRecords
<1>2. Served' = Served
  BY <1>1 DEF Served
<1>3. QED
  BY <1>2 DEF Goto, RequestRecords

(* The steps that leave the counters and the requests counted alone.       *)
Elsewhere ==
  /\ UNCHANGED <<stats, taken, resetting, ring, ringHead, kept, disturbed>>
  /\ Served' = Served
  /\ \A x \in Requests :
       /\ reqs[x].at \in Recorded => reqs'[x].at = reqs[x].at
       /\ reqs'[x].at \in {"totals", "counted"} => reqs'[x].at = reqs[x].at

LEMMA GotoIsElsewhere ==
  ASSUME reqs \in [Requests -> RequestRecords], NEW r \in Requests,
         reqs[r].at \notin Recorded, NEW step \in Steps \ {"totals", "counted"},
         Goto(r, step), UNCHANGED <<stats, taken, resetting, ring, ringHead, kept, disturbed>>
  PROVE  Elsewhere
<1>1. /\ Served' = Served /\ reqs'[r].at = step
      /\ \A x \in Requests : x # r => reqs'[x] = reqs[x]
  BY GotoMoves
<1>2. QED
  BY <1>1 DEF Elsewhere

(* Respond counts the total and the errors.                                *)
Totals(r) ==
  /\ At(r, "admitted") /\ Goto(r, "totals")
  /\ stats' = [stats EXCEPT !.total = @ + 1,
                            !.errors = IF reqs[r].in.status >= 400 THEN @ + 1 ELSE @]
  /\ taken' = taken \union {r}
  /\ Disturbance
  /\ UNCHANGED <<resetting, ring, ringHead, kept>>

LEMMA CollectorSteps ==
  ASSUME LimiterInv, [Next]_vars
  PROVE  \/ Elsewhere \/ ResetTotals \/ ResetMaps \/ ResetRing
         \/ \E r \in Requests : Totals(r) \/ Count(r) \/ Keep(r)
<1>0. reqs \in [Requests -> RequestRecords]
  BY DEF LimiterInv
<1>1. ASSUME NEW r \in Requests, TakeGlobal(r) \/ TakePath(r) \/ TakeToken(r)
      PROVE  Elsewhere
  <2>1. UNCHANGED <<stats, taken, resetting, ring, ringHead, kept, disturbed>>
    BY <1>1 DEF TakeGlobal, TakePath, TakeToken, collectorVars
  <2>2. reqs[r].at \notin Recorded
    BY <1>1 DEF TakeGlobal, TakePath, TakeToken, At, Recorded
  <2>3. reqs[r].in.exempt \in BOOLEAN
    <3>1. reqs[r].in \in Inputs
      BY <1>0 DEF RequestRecords
    <3>2. QED
      BY <3>1, InputsAssumption
  <2>4. \E step \in Steps \ {"totals", "counted"} : Goto(r, step)
    <3>1. CASE TakeGlobal(r)
      BY <2>3, <3>1 DEF TakeGlobal, Steps
    <3>2. CASE TakePath(r)
      BY <3>2 DEF TakePath, Steps
    <3>3. CASE TakeToken(r)
      BY <3>3 DEF TakeToken, Steps
    <3>4. QED
      BY <1>1, <3>1, <3>2, <3>3
  <2>5. QED
    BY <1>0, <2>1, <2>2, <2>4, GotoIsElsewhere
<1>2. ASSUME NEW r \in Requests, LookUp(r) \/ LookAgain(r)
      PROVE  Elsewhere
  <2>1. UNCHANGED <<stats, taken, resetting, ring, ringHead, kept, disturbed>>
    BY <1>2 DEF LookUp, LookAgain, collectorVars
  <2>2. reqs[r].at \notin Recorded
    BY <1>2 DEF LookUp, LookAgain, At, Recorded
  <2>3. CASE Goto(r, "create")
    <3>1. "create" \in Steps \ {"totals", "counted"}
      BY DEF Steps
    <3>2. QED
      BY <1>0, <2>1, <2>2, <2>3, <3>1, GotoIsElsewhere
  <2>4. CASE \E ref : reqs' = [reqs EXCEPT ![r].at = "bucket", ![r].ref = ref, ![r].since = clock]
    <3>1. PICK ref : reqs' = [reqs EXCEPT ![r].at = "bucket", ![r].ref = ref, ![r].since = clock]
      BY <2>4
    <3> DEFINE q == [reqs[r] EXCEPT !.at = "bucket", !.ref = ref, !.since = clock]
    <3>2. reqs' = [reqs EXCEPT ![r] = q]
      BY <1>0, <3>1
    <3>3. q.at = "bucket" /\ q.in = reqs[r].in
      BY <1>0 DEF RequestRecords
    <3> HIDE DEF q
    <3>4. reqs'[r] = q /\ \A x \in Requests : x # r => reqs'[x] = reqs[x]
      BY <1>0, <3>2
    <3>5. \A x \in Requests : reqs'[x].in = reqs[x].in
      BY <3>3, <3>4
    <3>6. Served' = Served
      BY <3>5 DEF Served
    <3>7. QED
      BY <2>1, <2>2, <3>3, <3>4, <3>6 DEF Elsewhere
  <2>5. QED
    BY <1>2, <2>3, <2>4 DEF LookUp, LookAgain, Use, Create
<1>3. ASSUME NEW r \in Requests, Respond(r)
      PROVE  Elsewhere \/ Totals(r)
  <2>1. /\ At(r, "admitted") /\ UNCHANGED <<resetting, ring, ringHead, kept>>
        /\ CASE ~reqs[r].in.host -> Goto(r, "421") /\ UNCHANGED <<stats, taken, disturbed>>
             [] reqs[r].in.host /\ ~enabled -> Goto(r, "done") /\ UNCHANGED <<stats, taken, disturbed>>
             [] OTHER ->
                  /\ Goto(r, "totals")
                  /\ stats' = [stats EXCEPT !.total = @ + 1,
                                            !.errors = IF reqs[r].in.status >= 400 THEN @ + 1 ELSE @]
                  /\ taken' = taken \union {r}
                  /\ Disturbance
    BY <1>3 DEF Respond
  <2>2. reqs[r].at \notin Recorded
    BY <2>1 DEF At, Recorded
  <2>3. "421" \in Steps \ {"totals", "counted"} /\ "done" \in Steps \ {"totals", "counted"}
    BY DEF Steps
  <2>4. CASE \E step \in {"421", "done"} : Goto(r, step) /\ UNCHANGED <<stats, taken, disturbed>>
    BY <1>0, <2>1, <2>2, <2>3, <2>4, GotoIsElsewhere
  <2>5. CASE /\ Goto(r, "totals")
             /\ stats' = [stats EXCEPT !.total = @ + 1,
                                       !.errors = IF reqs[r].in.status >= 400 THEN @ + 1 ELSE @]
             /\ taken' = taken \union {r}
             /\ Disturbance
    BY <2>1, <2>5 DEF Totals
  <2>6. QED
    BY <2>1, <2>4, <2>5
<1>4. ASSUME Tick \/ Cleanup \/ Switch \/ UNCHANGED vars
      PROVE  Elsewhere
  <2>1. UNCHANGED <<reqs, stats, taken, resetting, ring, ringHead, kept, disturbed>>
    BY <1>4 DEF Tick, Cleanup, Switch, vars, collectorVars
  <2>2. QED
    BY <2>1 DEF Elsewhere, Served
<1>5. QED
  BY <1>1, <1>2, <1>3, <1>4 DEF Next, Serve

Counted == {r \in taken : ~At(r, "totals")}

TotalsAgree ==
  stats.total = Cardinality(taken) /\ stats.errors = Of(taken, Served, Failed)

MapsAgree ==
  /\ \A s \in Statuses : stats.status[s] = Of(Counted, Served, Answered(s))
  /\ \A id \in RuleIDs : stats.hits[id] = Of(Counted, Served, ByRule(id))
  /\ \A b \in Buckets : stats.latency[b] = Of(Counted, Served, Within(b))

(* While no Reset has overlapped a Record, the totals are of the requests  *)
(* counted so far and the maps of those among them that are past the       *)
(* totals; a Reset under way finds no request that is being counted.       *)
CountersInv ==
  /\ stats \in StatsType /\ resetting \in {"no", "maps", "ring"} /\ disturbed \in BOOLEAN
  /\ IsFiniteSet(taken) /\ taken \subseteq Requests
  /\ \A r \in taken : reqs[r].at \in Recorded
  /\ ~disturbed =>
       /\ \A r \in Requests :
            reqs[r].at \in {"totals", "counted"} => r \in taken /\ resetting = "no"
       /\ resetting # "no" => taken = {}
       /\ TotalsAgree
       /\ resetting # "maps" => MapsAgree

LEMMA CountersInit == Init => CountersInv
<1> SUFFICES ASSUME Init
             PROVE  CountersInv
  OBVIOUS
<1>1. /\ stats = NoStats /\ resetting = "no" /\ taken = {} /\ disturbed = FALSE
      /\ \A r \in Requests : reqs[r].at = "arrived"
  BY DEF Init
<1>2. IsFiniteSet(taken) /\ Cardinality(taken) = 0 /\ Counted = {}
  BY <1>1, FS_EmptySet DEF Counted
<1>3. \A inputs : Of(taken, Served, inputs) = 0 /\ Of(Counted, Served, inputs) = 0
  BY <1>1, <1>2, OfNone
<1>4. stats \in StatsType
  BY <1>1 DEF NoStats, StatsType
<1>5. TotalsAgree /\ MapsAgree
  BY <1>1, <1>2, <1>3 DEF NoStats, TotalsAgree, MapsAgree
<1>6. QED
  BY <1>1, <1>2, <1>4, <1>5 DEF CountersInv

LEMMA CountersStep ==
  ASSUME LimiterInv, CountersInv, [Next]_vars
  PROVE  CountersInv'
<1>0. /\ reqs \in [Requests -> RequestRecords] /\ stats \in StatsType /\ IsFiniteSet(taken)
      /\ taken \subseteq Requests /\ IsFiniteSet(Counted) /\ Counted \subseteq taken
  <2>1. Counted \subseteq taken
    BY DEF Counted
  <2>2. QED
    BY <2>1, FS_Subset DEF LimiterInv, CountersInv
<1>1. CASE Elsewhere
  <2>1. UNCHANGED <<stats, taken, resetting, disturbed>> /\ Served' = Served
    BY <1>1 DEF Elsewhere
  <2>2. \A r \in taken : reqs'[r].at = reqs[r].at
    BY <1>0, <1>1 DEF Elsewhere, CountersInv
  <2>3. Counted' = Counted
    BY <1>0, <2>1, <2>2 DEF Counted, At
  <2>4. TotalsAgree' = TotalsAgree /\ MapsAgree' = MapsAgree
    BY <2>1, <2>3 DEF TotalsAgree, MapsAgree
  <2>5. \A r \in Requests : reqs'[r].at \in {"totals", "counted"} => reqs'[r].at = reqs[r].at
    BY <1>1 DEF Elsewhere
  <2>6. QED
    BY <2>1, <2>2, <2>4, <2>5 DEF CountersInv
<1>2. ASSUME NEW r \in Requests, Totals(r)
      PROVE  CountersInv'
  <2>1. /\ At(r, "admitted") /\ taken' = taken \union {r} /\ resetting' = resetting
        /\ stats' = [stats EXCEPT !.total = @ + 1,
                                  !.errors = IF reqs[r].in.status >= 400 THEN @ + 1 ELSE @]
        /\ Served' = Served /\ reqs'[r].at = "totals"
        /\ \A x \in Requests : x # r => reqs'[x] = reqs[x]
    <3>1. "totals" \in Steps
      BY DEF Steps
    <3>2. QED
      BY <1>0, <1>2, <3>1, GotoMoves DEF Totals
  <2>2. disturbed' = (disturbed \/ resetting # "no") /\ disturbed' \in BOOLEAN
    BY <1>2 DEF Totals, Disturbance
  <2>3. r \notin taken
    BY <2>1 DEF CountersInv, At, Recorded
  <2>4. reqs[r].in \in Inputs /\ reqs[r].in.status \in Nat /\ Served[r] = reqs[r].in
    BY <1>0, InputsAssumption DEF RequestRecords, Served
  <2>5. /\ stats' \in StatsType /\ stats'.total = stats.total + 1
        /\ stats'.errors = IF reqs[r].in.status >= 400 THEN stats.errors + 1 ELSE stats.errors
        /\ stats'.status = stats.status /\ stats'.hits = stats.hits /\ stats'.latency = stats.latency
    <3> DEFINE n == stats.total + 1
               e == IF reqs[r].in.status >= 400 THEN stats.errors + 1 ELSE stats.errors
    <3>1. n \in Nat /\ e \in Nat
      BY <1>0 DEF StatsType
    <3>2. stats' = [stats EXCEPT !.total = n, !.errors = e]
      BY <2>1
    <3> HIDE DEF n, e
    <3>3. /\ stats' \in StatsType /\ stats'.total = n /\ stats'.errors = e
          /\ stats'.status = stats.status /\ stats'.hits = stats.hits
          /\ stats'.latency = stats.latency
      BY <1>0, <3>1, <3>2 DEF StatsType
    <3>4. QED
      BY <3>3 DEF n, e
  <2>6. /\ IsFiniteSet(taken') /\ Cardinality(taken') = Cardinality(taken) + 1
        /\ taken' \subseteq Requests
    BY <1>0, <2>1, <2>3, FS_AddElement
  <2>7. Counted' = Counted
    BY <1>0, <2>1, <2>3 DEF Counted, At
  <2>8. \A x \in taken' : reqs'[x].at \in Recorded
    BY <1>0, <2>1, <2>3 DEF CountersInv, Recorded
  <2>9. TotalsAgree => TotalsAgree'
    <3>1. Of(taken', Served', Failed)
            = IF Served[r] \in Failed THEN Of(taken, Served, Failed) + 1 ELSE Of(taken, Served, Failed)
      <4>1. IsFiniteSet(taken)
        BY <1>0
      <4>2. Of(taken \union {r}, Served, Failed)
              = IF Served[r] \in Failed THEN Of(taken, Served, Failed) + 1
                ELSE Of(taken, Served, Failed)
        BY <2>3, <4>1, OfOneMore
      <4>3. QED
        BY <2>1, <4>2
    <3>2. Served[r] \in Failed <=> reqs[r].in.status >= 400
      BY <2>4 DEF Failed
    <3>3. QED
      BY <2>5, <2>6, <3>1, <3>2 DEF TotalsAgree
  <2>10. MapsAgree' = MapsAgree
    BY <2>1, <2>5, <2>7 DEF MapsAgree
  <2>11. ASSUME ~disturbed'
         PROVE  /\ \A x \in Requests :
                     reqs'[x].at \in {"totals", "counted"} => x \in taken' /\ resetting' = "no"
                /\ resetting' # "no" => taken' = {}
                /\ TotalsAgree'
                /\ resetting' # "maps" => MapsAgree'
    BY <2>1, <2>2, <2>9, <2>10, <2>11 DEF CountersInv
  <2>12. resetting' \in {"no", "maps", "ring"}
    BY <2>1 DEF CountersInv
  <2>13. QED
    BY <2>2, <2>5, <2>6, <2>8, <2>11, <2>12 DEF CountersInv
<1>3. ASSUME NEW r \in Requests, Count(r)
      PROVE  CountersInv'
  <2> DEFINE in == reqs[r].in
  <2>1. /\ At(r, "totals") /\ UNCHANGED <<taken, resetting>>
        /\ stats' = UpdateLatencyHistogram(UpdateRuleStats(IncrementStatus(stats, in), in), in)
        /\ Served' = Served /\ reqs'[r].at = "counted"
        /\ \A x \in Requests : x # r => reqs'[x] = reqs[x]
    <3>1. "counted" \in Steps
      BY DEF Steps
    <3>2. QED
      BY <1>0, <1>3, <3>1, GotoMoves DEF Count
  <2>2. disturbed' = (disturbed \/ resetting # "no") /\ disturbed' \in BOOLEAN
    BY <1>3 DEF Count, Disturbance
  <2>3. in \in Inputs /\ Served[r] = in
    BY <1>0 DEF RequestRecords, Served
  <2>4. /\ stats' \in StatsType /\ stats'.total = stats.total /\ stats'.errors = stats.errors
        /\ \A c \in Statuses :
             stats'.status[c] = IF in \in Answered(c) THEN stats.status[c] + 1 ELSE stats.status[c]
        /\ \A id \in RuleIDs :
             stats'.hits[id] = IF in \in ByRule(id) THEN stats.hits[id] + 1 ELSE stats.hits[id]
        /\ \A b \in Buckets :
             stats'.latency[b] = IF in \in Within(b) THEN stats.latency[b] + 1 ELSE stats.latency[b]
    BY <1>0, <2>1, <2>3, CountAddsOne
  <2>5. \A x \in taken' : reqs'[x].at \in Recorded
    BY <1>0, <2>1 DEF CountersInv, Recorded
  <2>6. TotalsAgree' = TotalsAgree
    BY <2>1, <2>4 DEF TotalsAgree
  <2>7. ASSUME r \in taken, MapsAgree
        PROVE  MapsAgree'
    <3>1. r \notin Counted /\ Counted' = Counted \union {r}
      BY <1>0, <2>1, <2>7 DEF Counted, At
    <3>2. \A inputs : Of(Counted', Served', inputs)
                        = IF in \in inputs THEN Of(Counted, Served, inputs) + 1
                          ELSE Of(Counted, Served, inputs)
      <4>1. ASSUME NEW inputs
            PROVE  Of(Counted \union {r}, Served, inputs)
                     = IF Served[r] \in inputs THEN Of(Counted, Served, inputs) + 1
                       ELSE Of(Counted, Served, inputs)
        <5>1. IsFiniteSet(Counted) /\ r \notin Counted
          BY <1>0, <3>1
        <5>2. QED
          BY <5>1, OfOneMore
      <4>2. QED
        BY <2>1, <2>3, <3>1, <4>1
    <3>3. \A s \in Statuses : stats'.status[s] = Of(Counted', Served', Answered(s))
      BY <2>4, <2>7, <3>2 DEF MapsAgree
    <3>4. \A id \in RuleIDs : stats'.hits[id] = Of(Counted', Served', ByRule(id))
      BY <2>4, <2>7, <3>2 DEF MapsAgree
    <3>5. \A b \in Buckets : stats'.latency[b] = Of(Counted', Served', Within(b))
      BY <2>4, <2>7, <3>2 DEF MapsAgree
    <3>6. QED
      BY <3>3, <3>4, <3>5 DEF MapsAgree
  <2>8. ASSUME ~disturbed'
        PROVE  /\ \A x \in Requests :
                    reqs'[x].at \in {"totals", "counted"} => x \in taken' /\ resetting' = "no"
               /\ resetting' # "no" => taken' = {}
               /\ TotalsAgree'
               /\ resetting' # "maps" => MapsAgree'
    <3>1. ~disturbed /\ resetting = "no"
      BY <2>2, <2>8 DEF CountersInv
    <3>2. r \in taken /\ MapsAgree /\ TotalsAgree
      BY <2>1, <3>1 DEF CountersInv, At
    <3>3. \A x \in Requests : reqs'[x].at \in {"totals", "counted"} => x \in taken
      BY <2>1, <3>1, <3>2 DEF CountersInv
    <3>4. QED
      BY <2>1, <2>6, <2>7, <3>1, <3>2, <3>3
  <2>9. QED
    BY <1>0, <2>1, <2>2, <2>4, <2>5, <2>8 DEF CountersInv
<1>4. ASSUME NEW r \in Requests, Keep(r)
      PROVE  CountersInv'
  <2>1. /\ At(r, "counted") /\ UNCHANGED <<taken, resetting>>
        /\ stats' = [stats EXCEPT !.sampled = @ + 1]
        /\ Served' = Served /\ reqs'[r].at = "done"
        /\ \A x \in Requests : x # r => reqs'[x] = reqs[x]
    <3>1. "done" \in Steps
      BY DEF Steps
    <3>2. QED
      BY <1>0, <1>4, <3>1, GotoMoves DEF Keep
  <2>2. disturbed' = (disturbed \/ resetting # "no") /\ disturbed' \in BOOLEAN
    BY <1>4 DEF Keep, Disturbance
  <2>3. /\ stats' \in StatsType /\ stats'.total = stats.total /\ stats'.errors = stats.errors
        /\ stats'.status = stats.status /\ stats'.hits = stats.hits /\ stats'.latency = stats.latency
    BY <1>0, <2>1 DEF StatsType
  <2>4. Counted' = Counted
    BY <1>0, <2>1 DEF Counted, At
  <2>5. TotalsAgree' = TotalsAgree /\ MapsAgree' = MapsAgree
    BY <2>1, <2>3, <2>4 DEF TotalsAgree, MapsAgree
  <2>6. \A x \in taken' : reqs'[x].at \in Recorded
    BY <1>0, <2>1 DEF CountersInv, Recorded
  <2>7. \A x \in Requests : reqs'[x].at \in {"totals", "counted"} => reqs'[x].at = reqs[x].at
    BY <2>1
  <2>8. QED
    BY <1>0, <2>1, <2>2, <2>3, <2>5, <2>6, <2>7 DEF CountersInv
<1>5. CASE ResetTotals
  <2>1. /\ resetting = "no" /\ UNCHANGED reqs /\ resetting' = "maps" /\ taken' = {}
        /\ disturbed' = Recording /\ stats' = [stats EXCEPT !.total = 0, !.errors = 0]
    BY <1>5 DEF ResetTotals
  <2>2. stats' \in StatsType /\ stats'.total = 0 /\ stats'.errors = 0
    BY <1>0, <2>1 DEF StatsType
  <2>3. IsFiniteSet(taken') /\ Cardinality(taken') = 0 /\ Of(taken', Served', Failed) = 0
    BY <2>1, FS_EmptySet, OfNone
  <2>4. TotalsAgree'
    BY <2>2, <2>3 DEF TotalsAgree
  <2>5. disturbed' \in BOOLEAN
    BY <2>1 DEF Recording
  <2>6. ~disturbed' => \A r \in Requests : reqs'[r].at \notin {"totals", "counted"}
    BY <2>1 DEF Recording
  <2>7. QED
    BY <2>1, <2>2, <2>3, <2>4, <2>5, <2>6 DEF CountersInv
<1>6. CASE ResetMaps
  <2>1. /\ resetting = "maps" /\ resetting' = "ring" /\ UNCHANGED <<reqs, taken, disturbed>>
        /\ stats' = [NoStats EXCEPT !.total = stats.total, !.errors = stats.errors,
                                    !.sampled = stats.sampled]
    BY <1>6 DEF ResetMaps
  <2>2. /\ stats' \in StatsType /\ stats'.total = stats.total /\ stats'.errors = stats.errors
        /\ \A s \in Statuses : stats'.status[s] = 0
        /\ \A id \in RuleIDs : stats'.hits[id] = 0
        /\ \A b \in Buckets : stats'.latency[b] = 0
    BY <1>0, <2>1 DEF StatsType, NoStats
  <2>3. Served' = Served
    BY <2>1 DEF Served
  <2>4. TotalsAgree' = TotalsAgree
    BY <2>1, <2>2, <2>3 DEF TotalsAgree
  <2>5. taken = {} => MapsAgree'
    <3>1. taken = {} => Counted' = {}
      BY <2>1 DEF Counted
    <3>2. QED
      BY <2>2, <3>1, OfNone DEF MapsAgree
  <2>6. QED
    BY <2>1, <2>2, <2>4, <2>5 DEF CountersInv
<1>7. CASE ResetRing
  <2>1. resetting = "ring" /\ resetting' = "no" /\ UNCHANGED <<reqs, taken, stats, disturbed>>
    BY <1>7 DEF ResetRing
  <2>2. TotalsAgree' = TotalsAgree /\ MapsAgree' = MapsAgree
    BY <2>1 DEF TotalsAgree, MapsAgree, Served, Counted, At
  <2>3. QED
    BY <2>1, <2>2 DEF CountersInv
<1>8. QED
  BY <1>1, <1>2, <1>3, <1>4, <1>5, <1>6, <1>7, CollectorSteps

(* With no request being counted and none that a Reset overlapped, every   *)
(* counter says the same of the requests since the last Reset              *)
(* (stats.go:114-189, 368-384).                                            *)
THEOREM CountersAreExact == Spec => []CountersAgree
<1>1. LimiterInv /\ CountersInv => CountersAgree
  <2> SUFFICES ASSUME LimiterInv, CountersInv, ~Recording, resetting = "no", ~disturbed
               PROVE  CountersAgree
    BY DEF CountersAgree
  <2>1. \A r \in taken : reqs[r].at = "done"
    BY DEF CountersInv, Recording, Recorded
  <2>2. Counted = taken
    BY <2>1 DEF Counted, At
  <2>3. TotalsAgree /\ MapsAgree
    BY DEF CountersInv
  <2>4. \A inputs : Of(taken, Served, inputs) = Cardinality({r \in taken : reqs[r].in \in inputs})
    <3>1. \A r \in taken : Served[r] = reqs[r].in
      BY DEF Served, CountersInv
    <3>2. \A inputs : {r \in taken : Served[r] \in inputs} = {r \in taken : reqs[r].in \in inputs}
      BY <3>1
    <3>3. QED
      BY <3>2 DEF Of
  <2>5. stats.total = Cardinality(taken)
        /\ stats.errors = Cardinality({r \in taken : reqs[r].in \in Failed})
    BY <2>3, <2>4 DEF TotalsAgree
  <2>6. /\ \A s \in Statuses :
             stats.status[s] = Cardinality({r \in taken : reqs[r].in \in Answered(s)})
        /\ \A id \in RuleIDs :
             stats.hits[id] = Cardinality({r \in taken : reqs[r].in \in ByRule(id)})
        /\ \A b \in Buckets :
             stats.latency[b] = Cardinality({r \in taken : reqs[r].in \in Within(b)})
    BY <2>2, <2>3, <2>4 DEF MapsAgree
  <2>7. QED
    BY <2>1, <2>5, <2>6 DEF CountersAgree, Failed, Answered, ByRule, Within
<1>2. LimiterInv /\ CountersInv /\ [Next]_vars => (LimiterInv /\ CountersInv)'
  BY LimiterStep, CountersStep
<1>3. QED
  BY <1>1, <1>2, LimiterInit, CountersInit, PTL DEF Spec

-----------------------------------------------------------------------------
(* The live view                                                           *)

KeptRecords == {[rule |-> in.rule, request |-> r] : in \in Inputs, r \in Requests}

(* The place of the i-th newest record.                                    *)
PlaceOf(head, i) == (head - i + RingSize) % RingSize

(* The ring holds the newest of the records kept, the newest before the    *)
(* head; the places not yet written are empty.                             *)
RingInv ==
  /\ ring \in [0 .. RingSize - 1 -> KeptRecords \union {Nothing}]
  /\ ringHead \in 0 .. RingSize - 1
  /\ kept \in Seq(KeptRecords)
  /\ \A i \in 1 .. RingSize :
       ring[PlaceOf(ringHead, i)] = IF i <= Len(kept) THEN kept[Len(kept) + 1 - i] ELSE Nothing

(* A number below twice the modulus is reduced by at most one subtraction; *)
(* the statistics ring wraps around no more than that.                     *)
LEMMA ModTwice ==
  ASSUME NEW cap \in Nat \ {0}, NEW n \in 0 .. 2 * cap - 1
  PROVE  n % cap = IF n < cap THEN n ELSE n - cap
<1>1. CASE n < cap
  BY <1>1
<1>2. CASE ~(n < cap)
  <2>1. n = (n - cap) + cap * 1 /\ n - cap \in 0 .. cap - 1
    BY <1>2
  <2>2. QED
    BY <1>2, <2>1
<1>3. QED
  BY <1>1, <1>2

LEMMA PlaceWraps ==
  ASSUME NEW head \in 0 .. RingSize - 1, NEW i \in 1 .. RingSize
  PROVE  /\ PlaceOf(head, i) = IF i <= head THEN head - i ELSE head - i + RingSize
         /\ PlaceOf(head, i) \in 0 .. RingSize - 1
<1>1. RingSize \in Nat \ {0}
  BY SizesAssumption
<1>2. head - i + RingSize \in 0 .. 2 * RingSize - 1
  BY <1>1
<1>3. (head - i + RingSize) % RingSize
        = IF head - i + RingSize < RingSize THEN head - i + RingSize
          ELSE (head - i + RingSize) - RingSize
  BY <1>1, <1>2, ModTwice, Zenon
<1>4. QED
  BY <1>1, <1>3 DEF PlaceOf

(* The head moves by one place, round the end of the ring.                 *)
LEMMA HeadWraps ==
  ASSUME NEW head \in 0 .. RingSize - 1
  PROVE  (head + 1) % RingSize = IF head + 1 < RingSize THEN head + 1 ELSE 0
<1>1. RingSize \in Nat \ {0}
  BY SizesAssumption
<1>2. head + 1 \in 0 .. 2 * RingSize - 1
  BY <1>1
<1>3. (head + 1) % RingSize = IF head + 1 < RingSize THEN head + 1 ELSE (head + 1) - RingSize
  BY <1>1, <1>2, ModTwice, Zenon
<1>4. QED
  BY <1>1, <1>3

LEMMA NothingIsNotKept == Nothing \notin KeptRecords
<1>1. \A k \in KeptRecords : k.request \in Requests
  BY DEF KeptRecords
<1>2. Nothing.request = 0
  BY DEF Nothing
<1>3. QED
  BY <1>1, <1>2, InputsAssumption

LEMMA RingInit == Init => RingInv
<1> SUFFICES ASSUME Init
             PROVE  RingInv
  OBVIOUS
<1>1. ring = [i \in 0 .. RingSize - 1 |-> Nothing] /\ ringHead = 0 /\ kept = <<>>
  BY DEF Init
<1>2. RingSize \in Nat \ {0}
  BY SizesAssumption
<1>3. ringHead \in 0 .. RingSize - 1
  BY <1>1, <1>2
<1>4. \A i \in 1 .. RingSize : ring[PlaceOf(ringHead, i)] = Nothing
  BY <1>1, <1>3, PlaceWraps
<1>5. kept \in Seq(KeptRecords) /\ Len(kept) = 0
  BY <1>1
<1>6. ring \in [0 .. RingSize - 1 -> KeptRecords \union {Nothing}]
  BY <1>1
<1>7. \A i \in 1 .. RingSize : ~(i <= Len(kept))
  BY <1>2, <1>5
<1>8. QED
  BY <1>3, <1>4, <1>5, <1>6, <1>7 DEF RingInv

LEMMA RingStep ==
  ASSUME LimiterInv, RingInv, [Next]_vars
  PROVE  RingInv'
<1>0. /\ reqs \in [Requests -> RequestRecords] /\ RingSize \in Nat \ {0}
      /\ ring \in [0 .. RingSize - 1 -> KeptRecords \union {Nothing}]
      /\ ringHead \in 0 .. RingSize - 1 /\ kept \in Seq(KeptRecords) /\ Len(kept) \in Nat
  BY SizesAssumption DEF LimiterInv, RingInv
<1>1. CASE UNCHANGED <<ring, ringHead, kept>>
  BY <1>1 DEF RingInv
<1>2. ASSUME NEW r \in Requests, Keep(r)
      PROVE  RingInv'
  <2> DEFINE record == [rule |-> reqs[r].in.rule, request |-> r]
  <2>1. CASE (stats.sampled + 1) % Interval = 0
    <3>1. /\ ring' = [ring EXCEPT ![ringHead] = record]
          /\ ringHead' = (ringHead + 1) % RingSize
          /\ kept' = Append(kept, record)
      BY <1>2, <2>1 DEF Keep
    <3>2. record \in KeptRecords
      BY <1>0 DEF RequestRecords, KeptRecords
    <3> HIDE DEF record
    <3>3. ringHead' = IF ringHead + 1 < RingSize THEN ringHead + 1 ELSE 0
      BY <1>0, <3>1, HeadWraps
    <3>4. ringHead' \in 0 .. RingSize - 1
      BY <1>0, <3>3
    <3>5. ring' \in [0 .. RingSize - 1 -> KeptRecords \union {Nothing}]
      BY <1>0, <3>1, <3>2
    <3>6. /\ kept' \in Seq(KeptRecords) /\ Len(kept') = Len(kept) + 1
          /\ kept'[Len(kept) + 1] = record
          /\ \A j \in 1 .. Len(kept) : kept'[j] = kept[j]
      BY <1>0, <3>1, <3>2, AppendProperties
    <3>7. ASSUME NEW i \in 1 .. RingSize
          PROVE  ring'[PlaceOf(ringHead', i)]
                   = IF i <= Len(kept') THEN kept'[Len(kept') + 1 - i] ELSE Nothing
      <4>1. PlaceOf(ringHead', i) = IF i <= ringHead' THEN ringHead' - i ELSE ringHead' - i + RingSize
        BY <3>4, PlaceWraps
      <4>2. CASE i = 1
        <5>1. PlaceOf(ringHead', i) = ringHead
          BY <1>0, <3>3, <4>1, <4>2
        <5>2. ring'[ringHead] = record
          BY <1>0, <3>1
        <5>3. i <= Len(kept') /\ kept'[Len(kept') + 1 - i] = record
          BY <1>0, <3>6, <4>2
        <5>4. QED
          BY <5>1, <5>2, <5>3
      <4>3. CASE i # 1
        <5>1. i - 1 \in 1 .. RingSize /\ i - 1 < RingSize
          BY <1>0, <4>3
        <5>2. /\ PlaceOf(ringHead, i - 1)
                   = IF i - 1 <= ringHead THEN ringHead - (i - 1) ELSE ringHead - (i - 1) + RingSize
              /\ PlaceOf(ringHead, i - 1) \in 0 .. RingSize - 1
          BY <1>0, <5>1, PlaceWraps
        <5>3. PlaceOf(ringHead', i) = PlaceOf(ringHead, i - 1) /\ PlaceOf(ringHead, i - 1) # ringHead
          BY <1>0, <3>3, <4>1, <5>1, <5>2
        <5>4. ring'[PlaceOf(ringHead', i)] = ring[PlaceOf(ringHead, i - 1)]
          BY <1>0, <3>1, <5>2, <5>3
        <5>5. ring[PlaceOf(ringHead, i - 1)]
                = IF i - 1 <= Len(kept) THEN kept[Len(kept) + 1 - (i - 1)] ELSE Nothing
          BY <5>1 DEF RingInv
        <5>6. i <= Len(kept') <=> i - 1 <= Len(kept)
          BY <1>0, <3>6
        <5>7. ASSUME i - 1 <= Len(kept)
              PROVE  kept'[Len(kept') + 1 - i] = kept[Len(kept) + 1 - (i - 1)]
          <6>1. /\ Len(kept') + 1 - i = Len(kept) + 1 - (i - 1)
                /\ Len(kept) + 1 - (i - 1) \in 1 .. Len(kept)
            BY <1>0, <3>6, <5>1, <5>7
          <6>2. QED
            BY <3>6, <6>1
        <5>8. QED
          BY <5>4, <5>5, <5>6, <5>7
      <4>4. QED
        BY <4>2, <4>3
    <3>8. QED
      BY <3>4, <3>5, <3>6, <3>7 DEF RingInv
  <2>2. CASE (stats.sampled + 1) % Interval # 0
    <3>1. UNCHANGED <<ring, ringHead, kept>>
      BY <1>2, <2>2 DEF Keep
    <3>2. QED
      BY <1>1, <3>1
  <2>3. QED
    BY <2>1, <2>2
<1>3. CASE ResetRing
  <2>1. ring' = [i \in 0 .. RingSize - 1 |-> Nothing] /\ ringHead' = 0 /\ kept' = <<>>
    BY <1>3 DEF ResetRing
  <2>2. ringHead' \in 0 .. RingSize - 1
    BY <1>0, <2>1
  <2>3. \A i \in 1 .. RingSize : ring'[PlaceOf(ringHead', i)] = Nothing
    BY <2>1, <2>2, PlaceWraps
  <2>4. kept' \in Seq(KeptRecords) /\ Len(kept') = 0
    BY <2>1
  <2>5. ring' \in [0 .. RingSize - 1 -> KeptRecords \union {Nothing}]
    BY <2>1
  <2>6. \A i \in 1 .. RingSize : ~(i <= Len(kept'))
    BY <1>0, <2>4
  <2>7. QED
    BY <2>2, <2>3, <2>4, <2>5, <2>6 DEF RingInv
<1>4. QED
  BY <1>1, <1>2, <1>3, CollectorSteps
  DEF Elsewhere, Totals, Count, ResetTotals, ResetMaps

(* The n newest records, newest first.                                     *)
LEMMA NewestOf ==
  ASSUME NEW n \in Nat, n <= Len(kept), kept \in Seq(KeptRecords)
  PROVE  SubSeq(Reverse(kept), 1, n) = [i \in 1 .. n |-> kept[Len(kept) + 1 - i]]
<1>1. Len(kept) \in Nat /\ Reverse(kept) = [i \in 1 .. Len(kept) |-> kept[(Len(kept) - i) + 1]]
  BY DEF Reverse
<1>2. \A i \in 1 .. Len(kept) : kept[(Len(kept) - i) + 1] \in KeptRecords
  BY <1>1
<1>3. Reverse(kept) \in Seq(KeptRecords) /\ Len(Reverse(kept)) = Len(kept)
  BY <1>1, <1>2
<1>4. SubSeq(Reverse(kept), 1, n) = [i \in 1 .. n |-> Reverse(kept)[i]]
  BY <1>1, <1>3
<1>5. \A i \in 1 .. n : Reverse(kept)[i] = kept[Len(kept) + 1 - i]
  BY <1>1
<1>6. QED
  BY <1>4, <1>5

(* While statistics are on, the live view shows the requests kept since    *)
(* the last Reset, the newest first, up to its limit or the size of the    *)
(* ring (stats.go:140-149, 295-323).                                       *)
THEOREM LiveViewIsRight == Spec => []LiveViewIsNewest
<1>1. RingInv => LiveViewIsNewest
  <2> SUFFICES ASSUME RingInv, enabled, NEW limit \in 1 .. RingSize
               PROVE  RecentRequests(limit) = SubSeq(Reverse(kept), 1, Lesser(limit, Len(kept)))
    BY DEF LiveViewIsNewest
  <2> DEFINE n     == Len(kept)
             read  == [i \in 1 .. limit |-> ring[(ringHead - i + RingSize) % RingSize]]
             empty == {i \in 1 .. limit : read[i] = Nothing}
  <2>1. RingSize \in Nat \ {0} /\ n \in Nat /\ kept \in Seq(KeptRecords) /\ limit \in Nat
    BY SizesAssumption DEF RingInv
  <2>2. \A i \in 1 .. limit : read[i] = IF i <= n THEN kept[n + 1 - i] ELSE Nothing
    BY <2>1 DEF RingInv, PlaceOf
  <2>3. \A i \in 1 .. limit : i <= n => kept[n + 1 - i] # Nothing
    <3>1. \A i \in 1 .. limit : i <= n => n + 1 - i \in 1 .. n
      BY <2>1
    <3>2. QED
      BY <2>1, <3>1, NothingIsNotKept
  <2>4. \A i \in 1 .. limit : i \in empty <=> i > n
    BY <2>1, <2>2, <2>3
  <2>5. RecentRequests(limit) = IF empty = {} THEN read ELSE SubSeq(read, 1, Min(empty) - 1)
    BY DEF RecentRequests
  <2>6. CASE limit <= n
    <3>1. empty = {}
      BY <2>1, <2>4, <2>6
    <3>2. Lesser(limit, n) = limit
      BY <2>1, <2>6 DEF Lesser
    <3>3. SubSeq(Reverse(kept), 1, limit) = [i \in 1 .. limit |-> kept[n + 1 - i]]
      BY <2>1, <2>6, NewestOf
    <3>4. read = [i \in 1 .. limit |-> kept[n + 1 - i]]
      BY <2>1, <2>2, <2>6
    <3>5. QED
      BY <2>5, <3>1, <3>2, <3>3, <3>4
  <2>7. CASE ~(limit <= n)
    <3>1. n + 1 \in empty /\ \A i \in empty : n + 1 <= i /\ i \in Nat
      BY <2>1, <2>4, <2>7
    <3>2. Min(empty) = n + 1
      BY <2>1, <3>1 DEF Min
    <3>3. Lesser(limit, n) = n
      BY <2>1, <2>7 DEF Lesser
    <3>4. SubSeq(Reverse(kept), 1, n) = [i \in 1 .. n |-> kept[n + 1 - i]]
      BY <2>1, NewestOf
    <3>5. SubSeq(read, 1, n) = [i \in 1 .. n |-> kept[n + 1 - i]]
      <4>1. read \in Seq(KeptRecords \union {Nothing}) /\ Len(read) = limit
        BY <2>1, <2>2
      <4>2. SubSeq(read, 1, n) = [i \in 1 .. n |-> read[i]]
        BY <2>1, <2>7, <4>1
      <4>3. \A i \in 1 .. n : read[i] = kept[n + 1 - i]
        BY <2>1, <2>2, <2>7
      <4>4. QED
        BY <4>2, <4>3
    <3>6. Min(empty) - 1 = n /\ empty # {}
      BY <2>1, <3>1, <3>2
    <3>7. QED
      BY <2>5, <3>3, <3>4, <3>5, <3>6
  <2>8. QED
    BY <2>6, <2>7
<1>2. LimiterInv /\ RingInv /\ [Next]_vars => (LimiterInv /\ RingInv)'
  BY LimiterStep, RingStep
<1>3. QED
  BY <1>1, <1>2, LimiterInit, RingInit, PTL DEF Spec
=============================================================================
