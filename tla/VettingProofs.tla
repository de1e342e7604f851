---------------------------- MODULE VettingProofs ----------------------------
(***************************************************************************)
(* What the linter says, for any directory of configuration files.  The    *)
(* search: a cycle it reports is one, and silence means that there is none.*)
(* The checks: what loops for a client that follows the router's answers   *)
(* is reported, a pattern that redirects into itself and a rule silenced   *)
(* by an earlier one are warned of, and a directory loads like one file.   *)
(*                                                                         *)
(* VettingInv says what each stage of the command has made of the          *)
(* directory.  A client that never comes to an end repeats a rule          *)
(* (Repeats), the rules in between are a ring of the graph (LoopIsRing),   *)
(* and a search that reports no cycle of a ring contradicts the finishing  *)
(* times it leaves (CircleIsReported).                                     *)
(***************************************************************************)
EXTENDS Vetting, SequenceTheorems, FiniteSetTheorems, WellFoundedInduction, TLAPS

svars == <<adj, searchVars>>

SearchTypeOK ==
  /\ adj \in [Nodes -> Seq(Nodes)]
  /\ color \in [Nodes -> {"white", "gray", "black"}]
  /\ stack \in Seq(Nodes)
  /\ next \in [Nodes -> Nat \ {0}]
  /\ finished \in [Nodes -> Nat]
  /\ clock \in Nat
  /\ cycles \in SUBSET Seq(Nodes)

(* The gray nodes are on the stack, each once.                             *)
GrayOnStack ==
  /\ \A u \in Nodes : color[u] = "gray" <=> \E k \in DOMAIN stack : stack[k] = u
  /\ \A k, l \in DOMAIN stack : stack[k] = stack[l] => k = l

(* Node k of the stack has called node k + 1 over the edge it looked at.   *)
CalledFrom(k) ==
  /\ next[stack[k]] - 1 \in DOMAIN adj[stack[k]]
  /\ adj[stack[k]][next[stack[k]] - 1] = stack[k + 1]

StackIsPath == \A k \in 1 .. Len(stack) - 1 : CalledFrom(k)

Progress ==
  \A u \in Nodes :
    /\ next[u] <= Len(adj[u]) + 1
    /\ color[u] = "white" => next[u] = 1
    /\ color[u] = "black" => next[u] = Len(adj[u]) + 1 /\ finished[u] < clock

(* Edge number k of u leads to a node finished before u, or is the one u   *)
(* is calling over.                                                        *)
EdgeSettled(u, k) ==
  \/ /\ color[adj[u][k]] = "black"
     /\ color[u] = "black" => finished[adj[u][k]] < finished[u]
  \/ \E j \in 1 .. Len(stack) - 1 :
       stack[j] = u /\ stack[j + 1] = adj[u][k] /\ k = next[u] - 1

(* A cycle has been reported among the nodes that u shares a cycle with.   *)
Mutual(u, v) == Leads(u, v) /\ Leads(v, u)

ReportedAround(u) == \E c \in cycles : Mutual(u, c[1])

LookedAtIsSettled ==
  \A u \in Nodes : \A k \in 1 .. next[u] - 1 : EdgeSettled(u, k) \/ ReportedAround(u)

SearchInv ==
  /\ SearchTypeOK /\ GrayOnStack /\ StackIsPath /\ Progress
  /\ LookedAtIsSettled /\ ReportedIsCycle

-----------------------------------------------------------------------------
(* The least of a set of natural numbers, for proofs by least              *)
(* counterexample.                                                         *)
LEMMA LeastNatural ==
  ASSUME NEW S \in SUBSET Nat, S # {}
  PROVE  \E m \in S : \A k \in S : m <= k
<1>1. PICK m \in S : \A k \in S : ~(<<k, m>> \in OpToRel(<, Nat))
  BY NatLessThanWellFounded, WFMin
<1>2. \A k \in S : ~(k < m)
  BY <1>1 DEF OpToRel
<1>3. QED
  BY <1>2

-----------------------------------------------------------------------------
(* What leads where                                                        *)

LEMMA LeadsSteps ==
  ASSUME NEW u \in Nodes, NEW v \in Nodes
  PROVE  /\ Leads(u, u)
         /\ Edge(u, v) => Leads(u, v)
         /\ \A w \in Nodes : Leads(u, v) /\ Leads(v, w) => Leads(u, w)
<1>1. Leads(u, u)
  BY DEF Leads
<1>2. Edge(u, v) => Leads(u, v)
  BY DEF Leads
<1>3. \A w \in Nodes : Leads(u, v) /\ Leads(v, w) => Leads(u, w)
  BY DEF Leads
<1>4. QED
  BY <1>1, <1>2, <1>3

(* A walk that may also stay where it is.                                  *)
Walk(c) ==
  /\ c \in Seq(Nodes)
  /\ \A k \in 1 .. Len(c) - 1 : c[k] = c[k + 1] \/ Edge(c[k], c[k + 1])

LEMMA WalkLeads ==
  ASSUME NEW c, Walk(c), NEW k \in 1 .. Len(c), NEW l \in k .. Len(c)
  PROVE  Leads(c[k], c[l])
<1> DEFINE S == {m \in Nat : m \in k .. Len(c) /\ ~Leads(c[k], c[m])}
<1>0. c \in Seq(Nodes) /\ Len(c) \in Nat
  BY DEF Walk
<1>1. SUFFICES ASSUME S # {} PROVE FALSE
  BY <1>0
<1>2. PICK m \in S : \A n \in S : m <= n
  <2>1. S \in SUBSET Nat
    OBVIOUS
  <2>2. QED
    BY <1>1, <2>1, LeastNatural
<1>3. m \in k .. Len(c) /\ ~Leads(c[k], c[m])
  BY <1>2
<1>4. c[k] \in Nodes /\ c[m] \in Nodes
  BY <1>0, <1>3
<1>5. m # k
  BY <1>3, <1>4, LeadsSteps
<1>6. m - 1 \in k .. Len(c) /\ m - 1 \in 1 .. Len(c) - 1 /\ m - 1 \in Nat /\ (m - 1) + 1 = m
  BY <1>0, <1>3, <1>5
<1>7. m - 1 \notin S
  BY <1>2, <1>6
<1>8. Leads(c[k], c[m - 1])
  BY <1>6, <1>7
<1>9. c[m - 1] \in Nodes
  BY <1>0, <1>6
<1>10. c[m - 1] = c[m] \/ Edge(c[m - 1], c[m])
  BY <1>6 DEF Walk
<1>11. CASE c[m - 1] = c[m]
  BY <1>3, <1>8, <1>11
<1>12. CASE Edge(c[m - 1], c[m])
  <2>1. Leads(c[m - 1], c[m])
    BY <1>4, <1>9, <1>12, LeadsSteps
  <2>2. QED
    BY <1>3, <1>4, <1>8, <1>9, <2>1, LeadsSteps
<1>13. QED
  BY <1>10, <1>11, <1>12

(* On a walk that ends where it began everything leads everywhere.         *)
LEMMA ClosedWalkLeads ==
  ASSUME NEW c, Walk(c), Len(c) > 0, c[1] = c[Len(c)],
         NEW k \in 1 .. Len(c), NEW l \in 1 .. Len(c)
  PROVE  Leads(c[k], c[l])
<1>0. c \in Seq(Nodes) /\ Len(c) \in Nat \ {0}
  BY DEF Walk
<1>1. c[1] \in Nodes /\ c[k] \in Nodes /\ c[l] \in Nodes
  BY <1>0
<1>2. Leads(c[k], c[Len(c)])
  BY <1>0, WalkLeads
<1>3. Leads(c[1], c[l])
  BY <1>0, WalkLeads
<1>4. QED
  BY <1>1, <1>2, <1>3, LeadsSteps

-----------------------------------------------------------------------------
(* The search                                                              *)

LEMMA InitInv == SearchInit => SearchInv
<1> SUFFICES ASSUME SearchInit PROVE SearchInv
  OBVIOUS
<1> USE DEF SearchInit, StartSearch
<1>1. SearchTypeOK
  BY DEF SearchTypeOK
<1>2. GrayOnStack /\ StackIsPath /\ LookedAtIsSettled /\ ReportedIsCycle
  BY DEF GrayOnStack, StackIsPath, LookedAtIsSettled, ReportedIsCycle
<1>3. Progress
  BY DEF Progress
<1>4. QED
  BY <1>1, <1>2, <1>3 DEF SearchInv

(* The node on top of a stack in use.                                      *)
LEMMA TopFacts ==
  ASSUME SearchInv, stack # <<>>
  PROVE  /\ Len(stack) \in DOMAIN stack /\ Len(stack) \in Nat \ {0}
         /\ DOMAIN stack = 1 .. Len(stack)
         /\ Top \in Nodes /\ color[Top] = "gray"
         /\ adj[Top] \in Seq(Nodes)
         /\ \A j \in 1 .. Len(stack) - 1 : stack[j] # Top
<1>1. stack \in Seq(Nodes) /\ adj \in [Nodes -> Seq(Nodes)]
  BY DEF SearchInv, SearchTypeOK
<1>2. Len(stack) \in Nat \ {0} /\ DOMAIN stack = 1 .. Len(stack)
  BY <1>1
<1>3. Len(stack) \in DOMAIN stack /\ Top \in Nodes
  BY <1>1, <1>2 DEF Top
<1>4. color[Top] = "gray"
  BY <1>3 DEF Top, SearchInv, GrayOnStack
<1>5. \A j \in 1 .. Len(stack) - 1 : stack[j] # Top
  BY <1>2, <1>3 DEF Top, SearchInv, GrayOnStack
<1>6. QED
  BY <1>1, <1>2, <1>3, <1>4, <1>5

(* The successor looked at, and what looking at it changes.                *)
LEMMA LookFacts ==
  ASSUME SearchInv, NEW v, Looking(v)
  PROVE  /\ v \in Nodes /\ Top \in Nodes
         /\ next[Top] \in DOMAIN adj[Top] /\ v = adj[Top][next[Top]]
         /\ next' \in [Nodes -> Nat \ {0}]
         /\ next'[Top] = next[Top] + 1 /\ next'[Top] <= Len(adj[Top]) + 1
         /\ \A u \in Nodes : u # Top => next'[u] = next[u]
<1>1. next \in [Nodes -> Nat \ {0}] /\ adj[Top] \in Seq(Nodes) /\ Top \in Nodes
  BY TopFacts DEF Looking, SearchInv, SearchTypeOK
<1>2. Len(adj[Top]) \in Nat /\ next[Top] \in Nat \ {0} /\ next[Top] <= Len(adj[Top])
  BY <1>1 DEF Looking
<1>3. next[Top] \in DOMAIN adj[Top] /\ v \in Nodes /\ v = adj[Top][next[Top]]
  BY <1>1, <1>2 DEF Looking
<1>4. next' = [next EXCEPT ![Top] = next[Top] + 1]
  BY DEF Looking
<1>5. QED
  BY <1>1, <1>2, <1>3, <1>4

(* An action that leaves the stack and the colors alone and moves the loop *)
(* of the top node on keeps the shape of the stack.                        *)
LEMMA LookKeepsStack ==
  ASSUME SearchInv, NEW v, Looking(v), UNCHANGED <<color, stack>>,
         cycles' \in SUBSET Seq(Nodes)
  PROVE  SearchTypeOK' /\ GrayOnStack' /\ StackIsPath' /\ Progress'
<1>1. SearchTypeOK'
  BY LookFacts DEF SearchInv, SearchTypeOK, Looking, Nodes
<1>2. GrayOnStack'
  BY DEF SearchInv, GrayOnStack
<1>3. StackIsPath'
  <2>1. ASSUME NEW k \in 1 .. Len(stack) - 1 PROVE CalledFrom(k)'
    <3>0. stack # <<>> /\ stack \in Seq(Nodes)
      BY DEF Looking, SearchInv, SearchTypeOK
    <3>1. stack[k] # Top /\ stack[k] \in Nodes
      <4>1. stack[k] # Top
        BY <3>0, TopFacts, Zenon
      <4>2. stack[k] \in Nodes
        BY <3>0
      <4>3. QED
        BY <4>1, <4>2
    <3>2. next'[stack[k]] = next[stack[k]]
      BY <3>1, LookFacts
    <3>3. CalledFrom(k)
      BY DEF SearchInv, StackIsPath
    <3>4. QED
      BY <3>2, <3>3 DEF CalledFrom, Looking
  <2>2. QED
    BY <2>1 DEF StackIsPath
<1>4. Progress'
  <2>1. color[Top] = "gray"
    BY TopFacts DEF Looking
  <2>2. QED
    BY <2>1, LookFacts DEF SearchInv, Progress, Looking
<1>5. QED
  BY <1>1, <1>2, <1>3, <1>4

(* While the graph stays and cycles are only added, what has been reported *)
(* around a node remains reported.                                         *)
LEMMA AroundStays ==
  ASSUME adj' = adj, cycles \subseteq cycles', NEW u
  PROVE  ReportedAround(u) => ReportedAround(u)'
BY DEF ReportedAround, Mutual, Leads, Edge, Nodes

(* What is settled stays settled while the top node's loop moves on, if    *)
(* the edge it has just looked at is settled too.                          *)
LEMMA SkipSettles ==
  ASSUME SearchInv, NEW v, Skip(v)
  PROVE  LookedAtIsSettled'
<1> SUFFICES ASSUME NEW u \in Nodes, NEW k \in 1 .. next'[u] - 1, ~ReportedAround(u)'
             PROVE  EdgeSettled(u, k)'
  BY DEF LookedAtIsSettled, Nodes
<1>1. Looking(v) /\ color[v] = "black" /\ UNCHANGED <<color, stack, cycles, adj, finished>>
  BY DEF Skip, Looking
<1>0. ~ReportedAround(u)
  BY <1>1, AroundStays
<1>2. Top \in Nodes /\ color[Top] = "gray" /\ \A j \in 1 .. Len(stack) - 1 : stack[j] # Top
  BY <1>1, TopFacts DEF Looking
<1>3. CASE u = Top /\ k = next[Top]
  BY <1>1, <1>2, <1>3, LookFacts DEF EdgeSettled
<1>4. CASE ~(u = Top /\ k = next[Top])
  <2>1. next[u] \in Nat \ {0}
    BY DEF SearchInv, SearchTypeOK
  <2>2. k \in 1 .. next[u] - 1
    BY <1>1, <1>4, <2>1, LookFacts
  <2>3. EdgeSettled(u, k)
    BY <1>0, <2>2 DEF SearchInv, LookedAtIsSettled
  <2>4. CASE u = Top
    BY <1>1, <1>2, <2>3, <2>4 DEF EdgeSettled
  <2>5. CASE u # Top
    <3>1. next'[u] = next[u]
      BY <1>1, <2>5, LookFacts
    <3>2. QED
      BY <1>1, <2>3, <3>1 DEF EdgeSettled
  <2>6. QED
    BY <2>4, <2>5
<1>5. QED
  BY <1>3, <1>4

LEMMA SkipInv ==
  ASSUME SearchInv, NEW v \in Nodes, Skip(v)
  PROVE  SearchInv'
<1>1. Looking(v) /\ UNCHANGED <<color, stack, cycles, adj>>
  BY DEF Skip, Looking
<1>2. ReportedIsCycle'
  BY <1>1 DEF SearchInv, ReportedIsCycle, Edge
<1>3. QED
  BY <1>1, <1>2, LookKeepsStack, SkipSettles DEF SearchInv, SearchTypeOK

(* A path of the graph that ends where it began.                           *)
ClosedPath(c) ==
  /\ Len(c) > 1 /\ c[1] = c[Len(c)]
  /\ \A k \in 1 .. Len(c) - 1 : Edge(c[k], c[k + 1])

(* The gray node v closes the stack above it to a cycle.                   *)
LEMMA ExtractIsClosed ==
  ASSUME SearchInv, NEW v, Looking(v), color[v] = "gray"
  PROVE  /\ ClosedPath(ExtractCycle(v)) /\ ExtractCycle(v) \in Seq(Nodes)
         /\ ExtractCycle(v)[1] = v /\ ExtractCycle(v)[Len(ExtractCycle(v)) - 1] = Top
<1> DEFINE i == CHOOSE k \in DOMAIN stack : stack[k] = v
           s == SubSeq(stack, i, Len(stack))
           c == ExtractCycle(v)
<1>1. stack \in Seq(Nodes) /\ stack # <<>> /\ v \in Nodes
  BY LookFacts DEF Looking, SearchInv, SearchTypeOK
<1>2. i \in DOMAIN stack /\ stack[i] = v
  <2>1. \E k \in DOMAIN stack : stack[k] = v
    BY <1>1 DEF SearchInv, GrayOnStack
  <2>2. QED
    BY <2>1
<1> HIDE DEF i
<1>3. Len(stack) \in Nat \ {0} /\ i \in 1 .. Len(stack)
  BY <1>1, <1>2
<1>4. /\ s \in Seq(Nodes) /\ Len(s) = Len(stack) - i + 1
      /\ \A k \in 1 .. Len(s) : s[k] = stack[i + k - 1]
  BY <1>1, <1>3
<1>5. c = s \o <<v>>
  BY DEF ExtractCycle, i
<1> HIDE DEF s, c
<1>6. /\ Len(c) = Len(s) + 1 /\ c[Len(c)] = v
      /\ \A k \in 1 .. Len(s) : c[k] = s[k]
  BY <1>1, <1>4, <1>5
<1>7. Len(s) \in Nat \ {0} /\ Len(c) = Len(s) + 1 /\ i \in Nat \ {0}
  BY <1>3, <1>4, <1>6
<1>8. Len(c) > 1 /\ c[1] = v
  BY <1>2, <1>3, <1>4, <1>6
<1>9. ASSUME NEW k \in 1 .. Len(c) - 1
      PROVE  Edge(c[k], c[k + 1])
  <2>1. c[k] = stack[i + k - 1] /\ i + k - 1 \in 1 .. Len(stack)
    BY <1>3, <1>4, <1>6
  <2>2. CASE k = Len(s)
    <3>1. c[k] = Top /\ c[k + 1] = v
      BY <1>3, <1>4, <1>6, <2>1, <2>2 DEF Top
    <3>2. QED
      BY <3>1, LookFacts DEF Edge
  <2>3. CASE k # Len(s)
    <3>0. k \in Nat /\ k + 1 \in 1 .. Len(s) /\ i + (k + 1) - 1 = i + k
      BY <1>7, <2>3
    <3>1. i + k - 1 \in 1 .. Len(stack) - 1 /\ c[k + 1] = stack[i + k]
      <4>1. c[k + 1] = s[k + 1] /\ s[k + 1] = stack[i + (k + 1) - 1]
        BY <1>4, <1>6, <3>0
      <4>2. i + k - 1 \in 1 .. Len(stack) - 1
        BY <1>3, <1>4, <3>0
      <4>3. QED
        BY <3>0, <4>1, <4>2
    <3>2. CalledFrom(i + k - 1)
      BY <3>1 DEF SearchInv, StackIsPath
    <3>3. (i + k - 1) + 1 = i + k
      BY <1>3
    <3>4. QED
      BY <2>1, <3>1, <3>2, <3>3 DEF CalledFrom, Edge
  <2>4. QED
    BY <2>2, <2>3
<1>10. c \in Seq(Nodes)
  BY <1>1, <1>4, <1>5
<1>11. c[Len(c) - 1] = Top
  <2>1. Len(c) - 1 = Len(s) /\ Len(s) \in 1 .. Len(s) /\ i + Len(s) - 1 = Len(stack)
    BY <1>3, <1>4, <1>7
  <2>2. QED
    BY <1>4, <1>6, <2>1 DEF Top
<1>12. QED
  BY <1>6, <1>8, <1>9, <1>10, <1>11 DEF ClosedPath, c

(* The key of a cycle is made of its nodes, the first among them.          *)
LEMMA KeyFacts ==
  ASSUME NEW c \in Seq(Nodes), NEW n \in Nat \ {0}, Len(c) = n + 1
  PROVE  /\ DOMAIN CycleKey(c) = 1 .. n
         /\ \A k \in 1 .. n : \E l \in 1 .. n : CycleKey(c)[k] = c[l]
         /\ \E k \in 1 .. n : CycleKey(c)[k] = c[1]
<1> DEFINE least == CHOOSE k \in 1 .. n : \A l \in 1 .. n : c[k] <= c[l]
<1>1. \A k \in 1 .. n : c[k] \in Nat
  <2>1. \A k \in 1 .. n : c[k] \in Nodes
    OBVIOUS
  <2>2. QED
    BY <2>1, NAssumption DEF Nodes
<1>2. \E k \in 1 .. n : \A l \in 1 .. n : c[k] <= c[l]
  <2> DEFINE V == {c[k] : k \in 1 .. n}
  <2>1. V \in SUBSET Nat /\ c[1] \in V
    BY <1>1
  <2>2. PICK m \in V : \A k \in V : m <= k
    BY <2>1, LeastNatural
  <2>3. QED
    BY <2>2
<1>3. least \in 1 .. n
  BY <1>2
<1>4. CycleKey(c) = [k \in 1 .. n |-> c[((k + least - 2) % n) + 1]]
  <2>1. Len(c) - 1 = n
    OBVIOUS
  <2>2. QED
    BY <2>1 DEF CycleKey
<1> HIDE DEF least
<1>5. \A k \in 1 .. n : ((k + least - 2) % n) + 1 \in 1 .. n
  <2>1. ASSUME NEW k \in 1 .. n PROVE (k + least - 2) % n \in 0 .. n - 1
    <3>1. k + least - 2 \in Int
      BY <1>3
    <3>2. QED
      BY <3>1
  <2>2. QED
    BY <2>1
<1>6. \E k \in 1 .. n : (k + least - 2) % n = 0
  <2>1. CASE least = 1
    <3>1. (1 + least - 2) % n = 0 /\ 1 \in 1 .. n
      BY <2>1
    <3>2. QED
      BY <3>1
  <2>2. CASE least # 1
    <3> DEFINE k == n - least + 2
    <3>1. k \in 1 .. n /\ k + least - 2 = n
      BY <1>3, <2>2
    <3>2. n % n = 0
      OBVIOUS
    <3>3. QED
      BY <3>1, <3>2
  <2>3. QED
    BY <2>1, <2>2
<1>7. PICK k \in 1 .. n : (k + least - 2) % n = 0
  BY <1>6
<1>8. CycleKey(c)[k] = c[1]
  BY <1>4, <1>7
<1>9. QED
  BY <1>4, <1>5, <1>8

(* Whether or not the cycle is reported already, one around it is.         *)
LEMMA ReportIsAround ==
  ASSUME SearchInv, NEW v \in Nodes, Report(v)
  PROVE  ReportedAround(Top)'
<1>1. Looking(v) /\ color[v] = "gray" /\ stack' = stack /\ adj' = adj
  BY DEF Report, Looking
<1> DEFINE e == ExtractCycle(v)
<1>2. /\ ClosedPath(e) /\ e \in Seq(Nodes) /\ e[1] = v /\ e[Len(e) - 1] = Top
      /\ Len(e) \in Nat /\ Len(e) > 1
  BY <1>1, ExtractIsClosed DEF ClosedPath
<1>3. Walk(e) /\ e[1] = e[Len(e)]
  BY <1>2 DEF ClosedPath, Walk
<1> HIDE DEF e
<1>4. \A l \in 1 .. Len(e) : Mutual(Top, e[l])
  <2>1. Len(e) - 1 \in 1 .. Len(e)
    BY <1>2
  <2>2. QED
    BY <1>2, <1>3, <2>1, ClosedWalkLeads DEF Mutual
<1>5. \E c \in cycles' : Mutual(Top, c[1])
  <2>1. CASE \E c \in cycles : CycleKey(c) = CycleKey(e)
    <3>1. PICK c \in cycles : CycleKey(c) = CycleKey(e)
      BY <2>1
    <3>2. c \in Seq(Nodes) /\ Len(c) > 1
      BY DEF SearchInv, SearchTypeOK, ReportedIsCycle
    <3>3. PICK n \in Nat \ {0} : Len(c) = n + 1
      <4>1. Len(c) \in Nat /\ Len(c) > 1
        BY <3>2
      <4>2. PICK n \in Nat : n = Len(c)
        BY <4>1
      <4>3. n - 1 \in Nat \ {0} /\ n = (n - 1) + 1
        BY <4>1, <4>2
      <4>4. QED
        BY <4>2, <4>3
    <3>4. PICK m \in Nat \ {0} : Len(e) = m + 1
      <4>1. Len(e) - 1 \in Nat \ {0} /\ Len(e) = (Len(e) - 1) + 1
        BY <1>2
      <4>2. QED
        BY <4>1
    <3>5. DOMAIN CycleKey(c) = 1 .. n /\ \E k \in 1 .. n : CycleKey(c)[k] = c[1]
      BY <3>2, <3>3, KeyFacts
    <3>6. /\ DOMAIN CycleKey(e) = 1 .. m
          /\ \A k \in 1 .. m : \E l \in 1 .. m : CycleKey(e)[k] = e[l]
      BY <1>2, <3>4, KeyFacts
    <3>7. \E l \in 1 .. m : c[1] = e[l]
      BY <3>1, <3>5, <3>6
    <3>8. Mutual(Top, c[1])
      BY <1>4, <3>4, <3>7
    <3>9. cycles \subseteq cycles'
      BY DEF Report
    <3>10. QED
      BY <3>8, <3>9
  <2>2. CASE ~\E c \in cycles : CycleKey(c) = CycleKey(e)
    <3>1. e \in cycles'
      BY <2>2 DEF Report, e
    <3>2. 1 \in 1 .. Len(e)
      BY <1>2
    <3>3. QED
      BY <1>4, <3>1, <3>2
  <2>3. QED
    BY <2>1, <2>2
<1>6. QED
  BY <1>1, <1>5 DEF ReportedAround, Mutual, Leads, Edge, Nodes, Top

(* Reporting settles the edge looked at in this sense, and no other.       *)
LEMMA ReportSettles ==
  ASSUME SearchInv, NEW v \in Nodes, Report(v)
  PROVE  LookedAtIsSettled'
<1> SUFFICES ASSUME NEW u \in Nodes, NEW k \in 1 .. next'[u] - 1, ~ReportedAround(u)'
             PROVE  EdgeSettled(u, k)'
  BY DEF LookedAtIsSettled, Nodes
<1>1. /\ Looking(v) /\ UNCHANGED <<color, stack, adj, finished>>
      /\ cycles \subseteq cycles' /\ Top' = Top
  BY DEF Report, Looking, Top
<1>2. u # Top /\ ~ReportedAround(u)
  BY <1>1, AroundStays, ReportIsAround
<1>3. next'[u] = next[u]
  BY <1>1, <1>2, LookFacts
<1>4. EdgeSettled(u, k)
  BY <1>2, <1>3 DEF SearchInv, LookedAtIsSettled
<1>5. QED
  BY <1>1, <1>3, <1>4 DEF EdgeSettled

LEMMA ReportInv ==
  ASSUME SearchInv, NEW v \in Nodes, Report(v)
  PROVE  SearchInv'
<1>1. Looking(v) /\ color[v] = "gray" /\ UNCHANGED <<color, stack, adj>>
  BY DEF Report, Looking
<1>2. cycles' \subseteq cycles \union {ExtractCycle(v)} /\ cycles' # {}
  BY DEF Report
<1>3. ReportedIsCycle'
  <2>1. ASSUME NEW c \in cycles' PROVE ClosedPath(c)
    <3>1. CASE c \in cycles
      BY <3>1 DEF SearchInv, ReportedIsCycle, ClosedPath
    <3>2. CASE c = ExtractCycle(v)
      BY <1>1, <3>2, ExtractIsClosed
    <3>3. QED
      BY <1>2, <3>1, <3>2
  <2>2. QED
    BY <1>1, <2>1 DEF ReportedIsCycle, ClosedPath, Edge
<1>4. LookedAtIsSettled'
  BY ReportSettles
<1>5. cycles' \in SUBSET Seq(Nodes)
  <2>1. ExtractCycle(v) \in Seq(Nodes) /\ cycles \in SUBSET Seq(Nodes)
    BY <1>1, ExtractIsClosed DEF SearchInv, SearchTypeOK
  <2>2. QED
    BY <1>2, <2>1
<1>6. QED
  BY <1>1, <1>3, <1>4, <1>5, LookKeepsStack DEF SearchInv

(* A white node is in no call, and entering it puts it on top.             *)
LEMMA EnterFacts ==
  ASSUME SearchInv, NEW v \in Nodes, color[v] = "white", Enter(v)
  PROVE  /\ stack' \in Seq(Nodes) /\ Len(stack') = Len(stack) + 1 /\ Len(stack) \in Nat
         /\ stack'[Len(stack) + 1] = v
         /\ \A k \in 1 .. Len(stack) : stack'[k] = stack[k] /\ stack[k] # v
         /\ color' \in [Nodes -> {"white", "gray", "black"}]
         /\ color'[v] = "gray" /\ \A u \in Nodes : u # v => color'[u] = color[u]
         /\ GrayOnStack'
<1>1. stack \in Seq(Nodes) /\ color \in [Nodes -> {"white", "gray", "black"}]
  BY DEF SearchInv, SearchTypeOK
<1>2. /\ stack' \in Seq(Nodes) /\ Len(stack') = Len(stack) + 1 /\ Len(stack) \in Nat
      /\ stack'[Len(stack) + 1] = v
      /\ \A k \in 1 .. Len(stack) : stack'[k] = stack[k]
  BY <1>1 DEF Enter
<1>3. \A k \in 1 .. Len(stack) : stack[k] # v
  BY <1>1 DEF SearchInv, GrayOnStack
<1>4. /\ color' \in [Nodes -> {"white", "gray", "black"}]
      /\ color'[v] = "gray" /\ \A u \in Nodes : u # v => color'[u] = color[u]
  BY <1>1 DEF Enter
<1>5. DOMAIN stack = 1 .. Len(stack) /\ DOMAIN stack' = 1 .. Len(stack) + 1
  BY <1>1, <1>2
<1>6. ASSUME NEW u \in Nodes
      PROVE  color'[u] = "gray" <=> \E k \in DOMAIN stack' : stack'[k] = u
  <2>1. CASE u = v
    BY <1>2, <1>4, <1>5, <2>1
  <2>2. CASE u # v
    <3>1. color[u] = "gray" <=> \E k \in DOMAIN stack : stack[k] = u
      BY DEF SearchInv, GrayOnStack
    <3>2. (\E k \in DOMAIN stack : stack[k] = u) <=> \E k \in DOMAIN stack' : stack'[k] = u
      BY <1>2, <1>5, <2>2
    <3>3. QED
      BY <1>4, <2>2, <3>1, <3>2
  <2>3. QED
    BY <2>1, <2>2
<1>7. \A k, l \in DOMAIN stack : stack[k] = stack[l] => k = l
  BY DEF SearchInv, GrayOnStack
<1>8. \A k, l \in DOMAIN stack' : stack'[k] = stack'[l] => k = l
  BY <1>2, <1>3, <1>5, <1>7
<1>9. QED
  BY <1>2, <1>3, <1>4, <1>6, <1>8 DEF GrayOnStack

(* Entering a white node settles no edge and unsettles none.               *)
LEMMA EnterSettles ==
  ASSUME SearchInv, NEW v \in Nodes, color[v] = "white", Enter(v),
         UNCHANGED <<adj, finished>>,
         NEW u \in Nodes, NEW k \in 1 .. next[u] - 1, EdgeSettled(u, k),
         next'[u] = next[u] \/ color[adj[u][k]] = "black"
  PROVE  EdgeSettled(u, k)'
<1>1. adj[u][k] \in Nodes
  <2>1. adj[u] \in Seq(Nodes) /\ next[u] \in Nat \ {0} /\ next[u] <= Len(adj[u]) + 1
    BY DEF SearchInv, SearchTypeOK, Progress
  <2>2. k \in 1 .. Len(adj[u])
    BY <2>1
  <2>3. QED
    BY <2>1, <2>2
<1>2. color[u] # "white"
  BY DEF SearchInv, Progress
<1>3. CASE color[adj[u][k]] = "black"
  <2>1. color'[adj[u][k]] = "black" /\ color'[u] = color[u]
    BY <1>1, <1>2, <1>3, EnterFacts
  <2>2. color[u] = "black" => finished[adj[u][k]] < finished[u]
    <3>1. CASE \E j \in 1 .. Len(stack) - 1 : stack[j] = u
      <4>1. stack \in Seq(Nodes) /\ DOMAIN stack = 1 .. Len(stack) /\ Len(stack) \in Nat
        BY DEF SearchInv, SearchTypeOK
      <4>2. \E j \in DOMAIN stack : stack[j] = u
        BY <3>1, <4>1
      <4>3. color[u] = "gray"
        BY <4>2 DEF SearchInv, GrayOnStack
      <4>4. QED
        BY <4>3
    <3>2. QED
      BY <3>1 DEF EdgeSettled
  <2>3. QED
    BY <2>1, <2>2 DEF EdgeSettled
<1>4. CASE color[adj[u][k]] # "black"
  <2>1. PICK j \in 1 .. Len(stack) - 1 : stack[j] = u /\ stack[j + 1] = adj[u][k] /\ k = next[u] - 1
    BY <1>4 DEF EdgeSettled
  <2>2. /\ Len(stack') = Len(stack) + 1 /\ Len(stack) \in Nat
        /\ \A l \in 1 .. Len(stack) : stack'[l] = stack[l]
    BY EnterFacts
  <2>3. j \in 1 .. Len(stack') - 1 /\ stack'[j] = u /\ stack'[j + 1] = adj[u][k]
    BY <2>1, <2>2
  <2>4. QED
    BY <1>4, <2>1, <2>3 DEF EdgeSettled
<1>5. QED
  BY <1>3, <1>4

LEMMA RootInv ==
  ASSUME SearchInv, NEW v \in Nodes, Root(v)
  PROVE  SearchInv'
<1>1. /\ stack = <<>> /\ color[v] = "white" /\ Enter(v)
      /\ UNCHANGED <<adj, next, cycles, finished, clock>>
  BY DEF Root
<1>2. SearchTypeOK'
  BY <1>1, EnterFacts DEF SearchInv, SearchTypeOK, Nodes
<1>3. GrayOnStack'
  BY <1>1, EnterFacts
<1>4. StackIsPath'
  <2>1. Len(stack') = 1
    BY <1>1, EnterFacts
  <2>2. QED
    BY <2>1 DEF StackIsPath
<1>5. Progress'
  BY <1>1, EnterFacts DEF SearchInv, Progress
<1>6. LookedAtIsSettled'
  <2> SUFFICES ASSUME NEW u \in Nodes, NEW k \in 1 .. next[u] - 1, ~ReportedAround(u)'
               PROVE  EdgeSettled(u, k)'
    BY <1>1 DEF LookedAtIsSettled, Nodes
  <2>1. EdgeSettled(u, k)
    BY <1>1, AroundStays DEF SearchInv, LookedAtIsSettled
  <2>2. QED
    BY <1>1, <2>1, EnterSettles
<1>7. ReportedIsCycle'
  BY <1>1 DEF SearchInv, ReportedIsCycle, Edge
<1>8. QED
  BY <1>2, <1>3, <1>4, <1>5, <1>6, <1>7 DEF SearchInv

LEMMA DescendInv ==
  ASSUME SearchInv, NEW v \in Nodes, Descend(v)
  PROVE  SearchInv'
<1>1. /\ Looking(v) /\ color[v] = "white" /\ Enter(v) /\ stack # <<>>
      /\ UNCHANGED <<adj, cycles, finished, clock>>
  BY DEF Descend, Looking
<1>2. /\ Top \in Nodes /\ color[Top] = "gray" /\ stack[Len(stack)] = Top
      /\ Len(stack) \in Nat \ {0}
      /\ \A j \in 1 .. Len(stack) - 1 : stack[j] # Top
  BY <1>1, TopFacts DEF Top
<1>3. SearchTypeOK'
  BY <1>1, EnterFacts, LookFacts DEF SearchInv, SearchTypeOK, Nodes
<1>4. GrayOnStack'
  BY <1>1, EnterFacts
<1>5. /\ Len(stack') = Len(stack) + 1 /\ stack'[Len(stack) + 1] = v
      /\ \A k \in 1 .. Len(stack) : stack'[k] = stack[k]
  BY <1>1, EnterFacts
<1>6. /\ next[Top] \in DOMAIN adj[Top] /\ v = adj[Top][next[Top]]
      /\ next'[Top] = next[Top] + 1 /\ next[Top] \in Nat \ {0}
      /\ \A u \in Nodes : u # Top => next'[u] = next[u]
  BY <1>1, <1>2, LookFacts DEF SearchInv, SearchTypeOK
<1>7. StackIsPath'
  <2> SUFFICES ASSUME NEW k \in 1 .. Len(stack) PROVE CalledFrom(k)'
    BY <1>2, <1>5 DEF StackIsPath
  <2>1. CASE k = Len(stack)
    <3>1. stack'[k] = Top /\ stack'[k + 1] = v
      BY <1>2, <1>5, <2>1
    <3>2. next'[Top] - 1 = next[Top]
      BY <1>6
    <3>3. next'[Top] - 1 \in DOMAIN adj'[Top] /\ adj'[Top][next'[Top] - 1] = v
      BY <1>1, <1>6, <3>2
    <3>4. QED
      BY <3>1, <3>3 DEF CalledFrom
  <2>2. CASE k # Len(stack)
    <3>1. k \in 1 .. Len(stack) - 1 /\ k + 1 \in 1 .. Len(stack)
      BY <1>2, <2>2
    <3>2. stack[k] # Top /\ stack[k] \in Nodes
      <4>1. stack \in Seq(Nodes)
        BY DEF SearchInv, SearchTypeOK
      <4>2. QED
        BY <1>2, <3>1, <4>1
    <3>3. CalledFrom(k)
      BY <3>1 DEF SearchInv, StackIsPath
    <3>4. next'[stack[k]] = next[stack[k]] /\ stack'[k] = stack[k] /\ stack'[k + 1] = stack[k + 1]
      BY <1>5, <1>6, <3>1, <3>2
    <3>5. QED
      BY <1>1, <3>3, <3>4 DEF CalledFrom
  <2>3. QED
    BY <2>1, <2>2
<1>8. Progress'
  <2>1. v # Top
    BY <1>1, <1>2
  <2>2. color'[v] = "gray" /\ \A u \in Nodes : u # v => color'[u] = color[u]
    BY <1>1, EnterFacts
  <2>3. next'[Top] <= Len(adj[Top]) + 1
    BY <1>1, LookFacts
  <2>4. QED
    BY <1>1, <1>2, <1>6, <2>1, <2>2, <2>3 DEF SearchInv, Progress
<1>9. LookedAtIsSettled'
  <2> SUFFICES ASSUME NEW u \in Nodes, NEW k \in 1 .. next'[u] - 1, ~ReportedAround(u)'
               PROVE  EdgeSettled(u, k)'
    BY <1>1 DEF LookedAtIsSettled, Nodes
  <2>0. ~ReportedAround(u)
    BY <1>1, AroundStays
  <2>1. CASE u = Top /\ k = next[Top]
    <3>1. Len(stack) \in 1 .. Len(stack') - 1 /\ stack'[Len(stack)] = u
      BY <1>2, <1>5, <2>1
    <3>2. stack'[Len(stack) + 1] = adj'[u][k] /\ k = next'[u] - 1
      BY <1>1, <1>5, <1>6, <2>1
    <3>3. QED
      BY <3>1, <3>2 DEF EdgeSettled
  <2>2. CASE ~(u = Top /\ k = next[Top])
    <3>1. next[u] \in Nat \ {0}
      BY DEF SearchInv, SearchTypeOK
    <3>2. k \in 1 .. next[u] - 1
      BY <1>6, <2>2, <3>1
    <3>3. EdgeSettled(u, k)
      BY <2>0, <3>2 DEF SearchInv, LookedAtIsSettled
    <3>4. next'[u] = next[u] \/ color[adj[u][k]] = "black"
      BY <1>2, <1>6, <3>3 DEF EdgeSettled
    <3>5. QED
      BY <1>1, <3>2, <3>3, <3>4, EnterSettles
  <2>3. QED
    BY <2>1, <2>2
<1>10. ReportedIsCycle'
  BY <1>1 DEF SearchInv, ReportedIsCycle, Edge
<1>11. QED
  BY <1>3, <1>4, <1>7, <1>8, <1>9, <1>10 DEF SearchInv

(* What returning from the call of the top node changes.                   *)
LEMMA ReturnFacts ==
  ASSUME SearchInv, Return
  PROVE  /\ Len(stack) \in Nat \ {0} /\ Top \in Nodes /\ stack[Len(stack)] = Top
         /\ color[Top] = "gray" /\ \A j \in 1 .. Len(stack) - 1 : stack[j] # Top
         /\ stack' \in Seq(Nodes) /\ Len(stack') = Len(stack) - 1
         /\ \A k \in 1 .. Len(stack) - 1 : stack'[k] = stack[k]
         /\ color' \in [Nodes -> {"white", "gray", "black"}] /\ color'[Top] = "black"
         /\ finished' \in [Nodes -> Nat] /\ finished'[Top] = clock /\ clock' = clock + 1
         /\ clock \in Nat
         /\ \A u \in Nodes : u # Top => color'[u] = color[u] /\ finished'[u] = finished[u]
         /\ next[Top] = Len(adj[Top]) + 1
         /\ UNCHANGED <<adj, next, cycles>>
<1>1. stack # <<>>
  BY DEF Return
<1>2. /\ Len(stack) \in Nat \ {0} /\ Top \in Nodes /\ stack[Len(stack)] = Top
      /\ color[Top] = "gray" /\ \A j \in 1 .. Len(stack) - 1 : stack[j] # Top
      /\ adj[Top] \in Seq(Nodes)
  BY <1>1, TopFacts DEF Top
<1>3. stack \in Seq(Nodes) /\ stack' = SubSeq(stack, 1, Len(stack) - 1)
  BY DEF Return, SearchInv, SearchTypeOK
<1>4. /\ stack' \in Seq(Nodes) /\ Len(stack') = Len(stack) - 1
      /\ \A k \in 1 .. Len(stack) - 1 : stack'[k] = stack[k]
  <2> DEFINE n == Len(stack) - 1
  <2>1. n \in Nat /\ 1 \in 1 .. Len(stack) + 1 /\ n \in 1 - 1 .. Len(stack)
    BY <1>2
  <2>2. n - 1 + 1 = n /\ \A k \in 1 .. n : 1 + k - 1 = k
    BY <2>1
  <2>3. /\ SubSeq(stack, 1, n) \in Seq(Nodes) /\ Len(SubSeq(stack, 1, n)) = n
        /\ \A k \in 1 .. n : SubSeq(stack, 1, n)[k] = stack[k]
    BY <1>3, <2>1, <2>2, SubSeqProperties
  <2>4. QED
    BY <1>3, <2>3
<1>5. /\ color' \in [Nodes -> {"white", "gray", "black"}] /\ color'[Top] = "black"
      /\ finished' \in [Nodes -> Nat] /\ finished'[Top] = clock /\ clock' = clock + 1
      /\ clock \in Nat
      /\ \A u \in Nodes : u # Top => color'[u] = color[u] /\ finished'[u] = finished[u]
  BY <1>2 DEF Return, SearchInv, SearchTypeOK
<1>6. next[Top] = Len(adj[Top]) + 1
  <2>1. next[Top] <= Len(adj[Top]) + 1 /\ next[Top] > Len(adj[Top]) /\ next[Top] \in Nat
    BY <1>2 DEF Return, SearchInv, SearchTypeOK, Progress
  <2>2. Len(adj[Top]) \in Nat
    BY <1>2
  <2>3. QED
    BY <2>1, <2>2
<1>7. UNCHANGED <<adj, next, cycles>>
  BY DEF Return
<1>8. QED
  BY <1>2, <1>4, <1>5, <1>6, <1>7

LEMMA ReturnGray ==
  ASSUME SearchInv, Return
  PROVE  GrayOnStack'
<1>1. DOMAIN stack = 1 .. Len(stack) /\ DOMAIN stack' = 1 .. Len(stack) - 1
  BY ReturnFacts DEF SearchInv, SearchTypeOK
<1>2. /\ Len(stack) \in Nat \ {0} /\ stack[Len(stack)] = Top
      /\ \A k \in 1 .. Len(stack) - 1 : stack'[k] = stack[k]
  BY ReturnFacts
<1>3. ASSUME NEW u \in Nodes
      PROVE  color'[u] = "gray" <=> \E k \in DOMAIN stack' : stack'[k] = u
  <2>1. color[u] = "gray" <=> \E k \in DOMAIN stack : stack[k] = u
    BY DEF SearchInv, GrayOnStack
  <2>2. CASE u = Top
    BY <1>1, <2>2, ReturnFacts
  <2>3. CASE u # Top
    <3>1. (\E k \in DOMAIN stack : stack[k] = u) <=> \E k \in DOMAIN stack' : stack'[k] = u
      BY <1>1, <1>2, <2>3
    <3>2. QED
      BY <2>1, <2>3, <3>1, ReturnFacts
  <2>4. QED
    BY <2>2, <2>3
<1>4. \A k, l \in DOMAIN stack : stack[k] = stack[l] => k = l
  BY DEF SearchInv, GrayOnStack
<1>5. \A k, l \in DOMAIN stack' : stack'[k] = stack'[l] => k = l
  BY <1>1, <1>4, <1>2
<1>6. QED
  BY <1>3, <1>5 DEF GrayOnStack

(* A returning node has all its edges settled by nodes finished before it, *)
(* and settles the edge it was called over.                                *)
LEMMA ReturnSettles ==
  ASSUME SearchInv, Return,
         NEW u \in Nodes, NEW k \in 1 .. next[u] - 1, ~ReportedAround(u)
  PROVE  EdgeSettled(u, k)'
<1> DEFINE v == adj[u][k]
<1>1. EdgeSettled(u, k)
  BY DEF SearchInv, LookedAtIsSettled
<1>2. v \in Nodes
  <2>1. adj[u] \in Seq(Nodes) /\ next[u] \in Nat \ {0} /\ next[u] <= Len(adj[u]) + 1
    BY DEF SearchInv, SearchTypeOK, Progress
  <2>2. k \in 1 .. Len(adj[u])
    BY <2>1
  <2>3. QED
    BY <2>1, <2>2
<1>3. adj' = adj /\ next' = next
  BY ReturnFacts
<1>4. CASE color[v] = "black"
  <2>1. v # Top /\ color'[v] = "black" /\ finished'[v] = finished[v]
    BY <1>2, <1>4, ReturnFacts
  <2>2. finished[v] < clock
    BY <1>2, <1>4 DEF SearchInv, Progress
  <2>3. CASE u = Top
    BY <1>3, <2>1, <2>2, <2>3, ReturnFacts DEF EdgeSettled
  <2>4. CASE u # Top
    <3>1. color'[u] = color[u] /\ finished'[u] = finished[u]
      BY <2>4, ReturnFacts
    <3>2. color[u] = "black" => finished[v] < finished[u]
      <4>1. CASE \E j \in 1 .. Len(stack) - 1 : stack[j] = u
        <5>1. stack \in Seq(Nodes) /\ DOMAIN stack = 1 .. Len(stack) /\ Len(stack) \in Nat
          BY DEF SearchInv, SearchTypeOK
        <5>2. \E j \in DOMAIN stack : stack[j] = u
          BY <4>1, <5>1
        <5>3. color[u] = "gray"
          BY <5>2 DEF SearchInv, GrayOnStack
        <5>4. QED
          BY <5>3
      <4>2. QED
        BY <1>1, <4>1 DEF EdgeSettled
    <3>3. QED
      BY <1>3, <2>1, <3>1, <3>2 DEF EdgeSettled
  <2>5. QED
    BY <2>3, <2>4
<1>5. CASE color[v] # "black"
  <2>1. PICK j \in 1 .. Len(stack) - 1 : stack[j] = u /\ stack[j + 1] = v /\ k = next[u] - 1
    BY <1>1, <1>5 DEF EdgeSettled
  <2>2. u # Top
    BY <2>1, ReturnFacts
  <2>3. CASE j = Len(stack) - 1
    <3>1. v = Top
      BY <2>1, <2>3, ReturnFacts
    <3>2. color[u] = "gray"
      <4>1. stack \in Seq(Nodes) /\ DOMAIN stack = 1 .. Len(stack) /\ Len(stack) \in Nat
        BY DEF SearchInv, SearchTypeOK
      <4>2. j \in DOMAIN stack
        BY <2>1, <4>1
      <4>3. QED
        BY <2>1, <4>2 DEF SearchInv, GrayOnStack
    <3>3. color'[v] = "black" /\ color'[u] = "gray"
      BY <2>2, <3>1, <3>2, ReturnFacts
    <3>4. QED
      BY <1>3, <3>3 DEF EdgeSettled
  <2>4. CASE j # Len(stack) - 1
    <3>1. Len(stack') = Len(stack) - 1 /\ Len(stack) \in Nat
          /\ \A l \in 1 .. Len(stack) - 1 : stack'[l] = stack[l]
      BY ReturnFacts
    <3>2. j \in 1 .. Len(stack') - 1 /\ j \in 1 .. Len(stack) - 1 /\ j + 1 \in 1 .. Len(stack) - 1
      BY <2>4, <3>1
    <3>3. stack'[j] = u /\ stack'[j + 1] = v
      BY <2>1, <3>1, <3>2
    <3>4. QED
      BY <1>3, <2>1, <3>2, <3>3 DEF EdgeSettled
  <2>5. QED
    BY <2>3, <2>4
<1>6. QED
  BY <1>4, <1>5

LEMMA ReturnInv ==
  ASSUME SearchInv, Return
  PROVE  SearchInv'
<1>1. SearchTypeOK'
  BY ReturnFacts DEF SearchInv, SearchTypeOK, Nodes
<1>2. StackIsPath'
  <2> SUFFICES ASSUME NEW k \in 1 .. Len(stack') - 1 PROVE CalledFrom(k)'
    BY DEF StackIsPath
  <2>1. /\ Len(stack') = Len(stack) - 1 /\ Len(stack) \in Nat
        /\ \A l \in 1 .. Len(stack) - 1 : stack'[l] = stack[l]
    BY ReturnFacts
  <2>2. k \in 1 .. Len(stack) - 1 /\ k + 1 \in 1 .. Len(stack) - 1
    BY <2>1
  <2>3. CalledFrom(k)
    BY <2>2 DEF SearchInv, StackIsPath
  <2>4. stack'[k] = stack[k] /\ stack'[k + 1] = stack[k + 1]
    BY <2>1, <2>2
  <2>5. adj' = adj /\ next' = next
    BY ReturnFacts
  <2>6. QED
    BY <2>3, <2>4, <2>5 DEF CalledFrom
<1>3. Progress'
  <2> SUFFICES ASSUME NEW u \in Nodes
               PROVE  /\ next'[u] <= Len(adj'[u]) + 1
                      /\ color'[u] = "white" => next'[u] = 1
                      /\ color'[u] = "black" => next'[u] = Len(adj'[u]) + 1 /\ finished'[u] < clock'
    BY DEF Progress, Nodes
  <2>1. /\ next[u] <= Len(adj[u]) + 1
        /\ color[u] = "white" => next[u] = 1
        /\ color[u] = "black" => next[u] = Len(adj[u]) + 1 /\ finished[u] < clock
    BY DEF SearchInv, Progress
  <2>2. adj' = adj /\ next' = next /\ clock' = clock + 1 /\ clock \in Nat
    BY ReturnFacts
  <2>3. CASE u = Top
    BY <2>1, <2>2, <2>3, ReturnFacts
  <2>4. CASE u # Top
    <3>1. color'[u] = color[u] /\ finished'[u] = finished[u] /\ finished[u] \in Nat
      BY <2>4, ReturnFacts DEF SearchInv, SearchTypeOK
    <3>2. QED
      BY <2>1, <2>2, <3>1
  <2>5. QED
    BY <2>3, <2>4
<1>4. LookedAtIsSettled'
  <2>1. cycles' = cycles /\ next' = next /\ adj' = adj
    BY ReturnFacts
  <2>2. ASSUME NEW u \in Nodes, NEW k \in 1 .. next[u] - 1, ~ReportedAround(u)'
        PROVE  EdgeSettled(u, k)'
    BY <2>1, <2>2, AroundStays, ReturnSettles
  <2>3. QED
    BY <2>1, <2>2 DEF LookedAtIsSettled, Nodes
<1>5. ReportedIsCycle'
  <2>1. adj' = adj /\ cycles' = cycles
    BY ReturnFacts
  <2>2. QED
    BY <2>1 DEF SearchInv, ReportedIsCycle, Edge
<1>6. QED
  BY <1>1, <1>2, <1>3, <1>4, <1>5, ReturnGray DEF SearchInv

LEMMA StutterInv ==
  ASSUME SearchInv, UNCHANGED svars
  PROVE  SearchInv'
<1>1. UNCHANGED <<adj, color, stack, next, cycles, finished, clock>>
  BY DEF svars, searchVars
<1>2. SearchTypeOK' /\ GrayOnStack' /\ StackIsPath' /\ Progress' /\ ReportedIsCycle'
  BY <1>1 DEF SearchInv, SearchTypeOK, GrayOnStack, StackIsPath, CalledFrom, Progress,
              ReportedIsCycle, Edge, Nodes
<1>3. LookedAtIsSettled'
  <2>1. ASSUME NEW u \in Nodes, NEW k \in 1 .. next[u] - 1, ~ReportedAround(u)'
        PROVE  EdgeSettled(u, k)'
    <3>1. EdgeSettled(u, k)
      BY <1>1, <2>1, AroundStays DEF SearchInv, LookedAtIsSettled
    <3>2. QED
      BY <1>1, <3>1 DEF EdgeSettled
  <2>2. QED
    BY <1>1, <2>1 DEF LookedAtIsSettled, Nodes
<1>4. QED
  BY <1>2, <1>3 DEF SearchInv

LEMMA StepInv == SearchInv /\ [Search]_svars => SearchInv'
<1> SUFFICES ASSUME SearchInv, [Search]_svars PROVE SearchInv'
  OBVIOUS
<1>1. CASE Return
  BY <1>1, ReturnInv
<1>2. ASSUME NEW v \in Nodes, Root(v) PROVE SearchInv'
  BY <1>2, RootInv
<1>3. ASSUME NEW v \in Nodes, Report(v) PROVE SearchInv'
  BY <1>3, ReportInv
<1>4. ASSUME NEW v \in Nodes, Descend(v) PROVE SearchInv'
  BY <1>4, DescendInv
<1>5. ASSUME NEW v \in Nodes, Skip(v) PROVE SearchInv'
  BY <1>5, SkipInv
<1>6. CASE UNCHANGED svars
  BY <1>6, StutterInv
<1>7. QED
  BY <1>1, <1>2, <1>3, <1>4, <1>5, <1>6 DEF Search

(* At the end every node is black with all its edges looked at.            *)
LEMMA DoneIsSettled ==
  ASSUME SearchInv, SearchDone, NEW u \in Nodes, NEW v \in Nodes, Edge(u, v),
         ~ReportedAround(u)
  PROVE  finished[v] < finished[u]
<1>1. \A w \in Nodes : color[w] = "black"
  BY DEF SearchInv, SearchTypeOK, GrayOnStack, SearchDone
<1>2. PICK k \in DOMAIN adj[u] : adj[u][k] = v
  BY DEF Edge
<1>3. adj[u] \in Seq(Nodes) /\ next[u] = Len(adj[u]) + 1
  BY <1>1 DEF SearchInv, SearchTypeOK, Progress
<1>4. k \in 1 .. next[u] - 1
  BY <1>3
<1>5. EdgeSettled(u, k)
  BY <1>4 DEF SearchInv, LookedAtIsSettled
<1>6. Len(stack) - 1 = -1
  BY DEF SearchDone
<1>7. QED
  BY <1>1, <1>2, <1>5, <1>6 DEF EdgeSettled

LEMMA InvSilent == SearchInv => SilentIsAcyclic
BY DoneIsSettled DEF SilentIsAcyclic, ReportedAround

(* On a walk around which nothing is reported each node is finished before *)
(* those that come earlier.                                                *)
LEMMA WalkFinishesBackwards ==
  ASSUME SearchInv, SearchDone, NEW c, Walk(c),
         \A k \in 1 .. Len(c) : ~ReportedAround(c[k]),
         NEW k \in 1 .. Len(c), NEW l \in k .. Len(c)
  PROVE  finished[c[l]] <= finished[c[k]]
<1> DEFINE S == {m \in Nat : m \in k .. Len(c) /\ ~(finished[c[m]] <= finished[c[k]])}
<1>0. c \in Seq(Nodes) /\ Len(c) \in Nat /\ finished \in [Nodes -> Nat]
  BY DEF Walk, SearchInv, SearchTypeOK
<1>1. SUFFICES ASSUME S # {} PROVE FALSE
  BY <1>0
<1>2. PICK m \in S : \A n \in S : m <= n
  <2>1. S \in SUBSET Nat
    OBVIOUS
  <2>2. QED
    BY <1>1, <2>1, LeastNatural
<1>3. m \in k .. Len(c) /\ ~(finished[c[m]] <= finished[c[k]])
  BY <1>2
<1>4. /\ c[k] \in Nodes /\ c[m] \in Nodes
      /\ finished[c[k]] \in Nat /\ finished[c[m]] \in Nat
  <2>1. c[k] \in Nodes /\ c[m] \in Nodes
    BY <1>0, <1>3
  <2>2. QED
    BY <1>0, <2>1
<1>5. m # k
  BY <1>3, <1>4
<1>6. m - 1 \in k .. Len(c) /\ m - 1 \in 1 .. Len(c) - 1 /\ m - 1 \in Nat /\ (m - 1) + 1 = m
  BY <1>0, <1>3, <1>5
<1>7. m - 1 \notin S
  BY <1>2, <1>6
<1>8. finished[c[m - 1]] <= finished[c[k]]
  BY <1>6, <1>7
<1>9. c[m - 1] \in Nodes /\ finished[c[m - 1]] \in Nat
  <2>1. c[m - 1] \in Nodes
    BY <1>0, <1>6
  <2>2. QED
    BY <1>0, <2>1
<1>10. c[m - 1] = c[m] \/ Edge(c[m - 1], c[m])
  BY <1>6 DEF Walk
<1>11. finished[c[m]] <= finished[c[m - 1]]
  <2>1. CASE c[m - 1] = c[m]
    BY <1>4, <2>1
  <2>2. CASE Edge(c[m - 1], c[m])
    <3>1. ~ReportedAround(c[m - 1])
      BY <1>0, <1>6
    <3>2. finished[c[m]] < finished[c[m - 1]]
      BY <1>4, <1>9, <2>2, <3>1, DoneIsSettled
    <3>3. QED
      BY <1>4, <1>9, <3>2
  <2>3. QED
    BY <1>10, <2>1, <2>2
<1>12. QED
  BY <1>3, <1>4, <1>8, <1>9, <1>11

(* Around a walk in a circle through at least two nodes a cycle has been   *)
(* reported at the end.                                                    *)
LEMMA CircleIsReported ==
  ASSUME SearchInv, SearchDone, NEW c, Walk(c), Len(c) > 0, c[1] = c[Len(c)],
         \E a \in 1 .. Len(c) : c[a] # c[1]
  PROVE  \E d \in cycles : \A k \in 1 .. Len(c) : Leads(c[k], d[1]) /\ Leads(d[1], c[k])
<1>0. c \in Seq(Nodes) /\ Len(c) \in Nat \ {0} /\ \A k \in 1 .. Len(c) : c[k] \in Nodes
  BY DEF Walk
<1>1. CASE \E k \in 1 .. Len(c) : ReportedAround(c[k])
  <2>1. PICK k \in 1 .. Len(c) : ReportedAround(c[k])
    BY <1>1
  <2>2. PICK d \in cycles : Leads(c[k], d[1]) /\ Leads(d[1], c[k])
    BY <2>1 DEF ReportedAround, Mutual
  <2>3. d[1] \in Nodes
    <3>1. d \in Seq(Nodes) /\ Len(d) > 1
      BY DEF SearchInv, SearchTypeOK, ReportedIsCycle
    <3>2. QED
      BY <3>1
  <2>4. ASSUME NEW l \in 1 .. Len(c) PROVE Leads(c[l], d[1]) /\ Leads(d[1], c[l])
    <3>1. Leads(c[l], c[k]) /\ Leads(c[k], c[l])
      BY ClosedWalkLeads
    <3>2. QED
      BY <1>0, <2>2, <2>3, <3>1, LeadsSteps
  <2>5. QED
    BY <2>4
<1>2. CASE \A k \in 1 .. Len(c) : ~ReportedAround(c[k])
  <2> DEFINE S == {m \in Nat : m \in 1 .. Len(c) /\ c[m] # c[1]}
  <2>1. S \in SUBSET Nat /\ S # {}
    BY <1>0
  <2>2. PICK m \in S : \A n \in S : m <= n
    BY <2>1, LeastNatural
  <2>3. m \in 1 .. Len(c) /\ c[m] # c[1]
    BY <2>2
  <2>4. m - 1 \in 1 .. Len(c) - 1 /\ m - 1 \in Nat /\ (m - 1) + 1 = m
    BY <1>0, <2>3
  <2>5. m - 1 \notin S
    BY <2>2, <2>4
  <2>6. c[m - 1] = c[1]
    BY <1>0, <2>4, <2>5
  <2>7. Edge(c[1], c[m])
    BY <2>3, <2>4, <2>6 DEF Walk
  <2>8. 1 \in 1 .. Len(c) /\ Len(c) \in m .. Len(c)
    BY <1>0, <2>3
  <2>9. finished[c[m]] < finished[c[1]]
    BY <1>0, <1>2, <2>3, <2>7, <2>8, DoneIsSettled
  <2>10. finished[c[1]] <= finished[c[m]]
    BY <1>2, <2>3, <2>8, WalkFinishesBackwards
  <2>11. finished[c[1]] \in Nat /\ finished[c[m]] \in Nat
    BY <1>0, <2>3, <2>8 DEF SearchInv, SearchTypeOK
  <2>12. QED
    BY <2>9, <2>10, <2>11
<1>3. QED
  BY <1>1, <1>2

LEMMA InvAlways == SearchSpec => []SearchInv
BY InitInv, StepInv, PTL DEF SearchSpec, svars

(* Whatever the rules redirect to, every cycle findCycles reports is one.  *)
THEOREM ReportedCyclesAreReal == SearchSpec => []ReportedIsCycle
<1>1. SearchInv => ReportedIsCycle
  BY DEF SearchInv
<1>2. QED
  BY <1>1, InvAlways, PTL

(* Whatever the rules redirect to, if findCycles reports no cycle then the *)
(* graph has none.                                                         *)
THEOREM SilenceIsJustified == SearchSpec => []SilentIsAcyclic
BY InvSilent, InvAlways, PTL
-----------------------------------------------------------------------------
(* The loops are defined by their rounds                                   *)

MergeStages(list, n, f) ==
  f = [k \in 0 .. n |-> IF k = 0 THEN NoConfig ELSE Merge(f[k - 1], list[k])]

LEMMA MergeStagesExist ==
  ASSUME NEW list, NEW n \in Nat
  PROVE  \E f : MergeStages(list, n, f)
<1> DEFINE S == {m \in Nat : ~\E f : MergeStages(list, m, f)}
<1>1. SUFFICES ASSUME S # {} PROVE FALSE
  OBVIOUS
<1>2. PICK m \in S : \A k \in S : m <= k
  <2>1. S \in SUBSET Nat
    OBVIOUS
  <2> HIDE DEF S
  <2>2. QED
    BY <1>1, <2>1, LeastNatural
<1>3. m # 0
  <2>1. MergeStages(list, 0, [k \in 0 .. 0 |-> NoConfig])
    BY DEF MergeStages
  <2>2. QED
    BY <1>2, <2>1
<1>4. PICK g : MergeStages(list, m - 1, g)
  <2>1. m - 1 \in Nat /\ m - 1 \notin S
    BY <1>2, <1>3
  <2>2. QED
    BY <2>1
<1> DEFINE last == IF m = 0 THEN NoConfig ELSE Merge(g[m - 1], list[m])
           h == [k \in 0 .. m |-> IF k = m THEN last ELSE g[k]]
<1>5. m \in Nat \ {0}
  BY <1>2, <1>3
<1>6. ASSUME NEW k \in 0 .. m
      PROVE  h[k] = IF k = 0 THEN NoConfig ELSE Merge(h[k - 1], list[k])
  <2>1. g = [l \in 0 .. m - 1 |-> IF l = 0 THEN NoConfig ELSE Merge(g[l - 1], list[l])]
    BY <1>4 DEF MergeStages
  <2>2. CASE k = m
    <3>1. h[m] = last /\ (k # 0 => h[m - 1] = g[m - 1])
      BY <1>5, <2>2
    <3>2. QED
      BY <1>5, <2>2, <3>1
  <2>3. CASE k # m
    <3>1. k \in 0 .. m - 1 /\ h[k] = g[k]
      BY <1>5, <2>3
    <3>2. g[k] = IF k = 0 THEN NoConfig ELSE Merge(g[k - 1], list[k])
      BY <2>1, <3>1
    <3>3. k # 0 => h[k - 1] = g[k - 1]
      BY <1>5, <3>1
    <3>4. QED
      BY <3>1, <3>2, <3>3
  <2>4. QED
    BY <2>2, <2>3
<1>7. MergeStages(list, m, h)
  BY <1>6 DEF MergeStages
<1>8. QED
  BY <1>2, <1>7

LEMMA MergedByRounds ==
  ASSUME NEW list, Len(list) \in Nat
  PROVE  /\ MergeRounds(list)[0] = NoConfig
         /\ \A n \in 1 .. Len(list) :
              MergeRounds(list)[n] = Merge(MergeRounds(list)[n - 1], list[n])
<1>1. PICK f : MergeStages(list, Len(list), f)
  BY MergeStagesExist
<1>2. MergeRounds(list)
        = [n \in 0 .. Len(list) |->
             IF n = 0 THEN NoConfig ELSE Merge(MergeRounds(list)[n - 1], list[n])]
  BY <1>1 DEF MergeRounds, MergeStages
<1>3. MergeRounds(list)[0] = NoConfig
  BY <1>2
<1>4. ASSUME NEW n \in 1 .. Len(list)
      PROVE  MergeRounds(list)[n] = Merge(MergeRounds(list)[n - 1], list[n])
  <2>1. n \in 0 .. Len(list) /\ n # 0
    OBVIOUS
  <2>2. QED
    BY <1>2, <2>1
<1>5. QED
  BY <1>3, <1>4

TargetStages(rules, i, n, f) ==
  f = [k \in 0 .. n |-> IF k = 0 THEN <<>> ELSE IF Redirects(rules, i, k) THEN Append(f[k - 1], k) ELSE f[k - 1]]

LEMMA TargetStagesExist ==
  ASSUME NEW rules, NEW i, NEW n \in Nat
  PROVE  \E f : TargetStages(rules, i, n, f)
<1> DEFINE S == {m \in Nat : ~\E f : TargetStages(rules, i, m, f)}
<1>1. SUFFICES ASSUME S # {} PROVE FALSE
  OBVIOUS
<1>2. PICK m \in S : \A k \in S : m <= k
  <2>1. S \in SUBSET Nat
    OBVIOUS
  <2> HIDE DEF S
  <2>2. QED
    BY <1>1, <2>1, LeastNatural
<1>3. m # 0
  <2>1. TargetStages(rules, i, 0, [k \in 0 .. 0 |-> <<>>])
    BY DEF TargetStages
  <2>2. QED
    BY <1>2, <2>1
<1>4. PICK g : TargetStages(rules, i, m - 1, g)
  <2>1. m - 1 \in Nat /\ m - 1 \notin S
    BY <1>2, <1>3
  <2>2. QED
    BY <2>1
<1> DEFINE last == IF m = 0 THEN <<>> ELSE IF Redirects(rules, i, m) THEN Append(g[m - 1], m) ELSE g[m - 1]
           h == [k \in 0 .. m |-> IF k = m THEN last ELSE g[k]]
<1>5. m \in Nat \ {0}
  BY <1>2, <1>3
<1>6. ASSUME NEW k \in 0 .. m
      PROVE  h[k] = IF k = 0 THEN <<>> ELSE IF Redirects(rules, i, k) THEN Append(h[k - 1], k) ELSE h[k - 1]
  <2>1. g = [l \in 0 .. m - 1 |-> IF l = 0 THEN <<>> ELSE IF Redirects(rules, i, l) THEN Append(g[l - 1], l) ELSE g[l - 1]]
    BY <1>4 DEF TargetStages
  <2>2. CASE k = m
    <3>1. h[m] = last /\ (k # 0 => h[m - 1] = g[m - 1])
      BY <1>5, <2>2
    <3>2. QED
      BY <1>5, <2>2, <3>1
  <2>3. CASE k # m
    <3>1. k \in 0 .. m - 1 /\ h[k] = g[k]
      BY <1>5, <2>3
    <3>2. g[k] = IF k = 0 THEN <<>> ELSE IF Redirects(rules, i, k) THEN Append(g[k - 1], k) ELSE g[k - 1]
      BY <2>1, <3>1
    <3>3. k # 0 => h[k - 1] = g[k - 1]
      BY <1>5, <3>1
    <3>4. QED
      BY <3>1, <3>2, <3>3
  <2>4. QED
    BY <2>2, <2>3
<1>7. TargetStages(rules, i, m, h)
  BY <1>6 DEF TargetStages
<1>8. QED
  BY <1>2, <1>7

LEMMA TargetsByRounds ==
  ASSUME NEW rules, NEW i, Len(rules) \in Nat
  PROVE  /\ TargetRounds(rules, i)[0] = <<>>
         /\ \A n \in 1 .. Len(rules) :
              TargetRounds(rules, i)[n] = IF Redirects(rules, i, n)
                                            THEN Append(TargetRounds(rules, i)[n - 1], n)
                                            ELSE TargetRounds(rules, i)[n - 1]
<1>1. PICK f : TargetStages(rules, i, Len(rules), f)
  BY TargetStagesExist
<1>2. TargetRounds(rules, i)
        = [n \in 0 .. Len(rules) |->
             IF n = 0 THEN <<>>
             ELSE IF Redirects(rules, i, n) THEN Append(TargetRounds(rules, i)[n - 1], n)
                                            ELSE TargetRounds(rules, i)[n - 1]]
  BY <1>1 DEF TargetRounds, TargetStages
<1>3. TargetRounds(rules, i)[0] = <<>>
  BY <1>2
<1>4. ASSUME NEW n \in 1 .. Len(rules)
      PROVE  TargetRounds(rules, i)[n] = IF Redirects(rules, i, n)
                                            THEN Append(TargetRounds(rules, i)[n - 1], n)
                                            ELSE TargetRounds(rules, i)[n - 1]
  <2>1. n \in 0 .. Len(rules) /\ n # 0
    OBVIOUS
  <2>2. QED
    BY <1>2, <2>1
<1>5. QED
  BY <1>3, <1>4

TrailStages(first, heeded, n, f) ==
  f = [k \in 1 .. n |-> IF k = 1 THEN first ELSE FollowUp(f[k - 1], heeded)]

LEMMA TrailStagesExist ==
  ASSUME NEW first, NEW heeded, NEW n \in Nat
  PROVE  \E f : TrailStages(first, heeded, n, f)
<1> DEFINE S == {m \in Nat : ~\E f : TrailStages(first, heeded, m, f)}
<1>1. SUFFICES ASSUME S # {} PROVE FALSE
  OBVIOUS
<1>2. PICK m \in S : \A k \in S : m <= k
  <2>1. S \in SUBSET Nat
    OBVIOUS
  <2> HIDE DEF S
  <2>2. QED
    BY <1>1, <2>1, LeastNatural
<1>3. m # 0
  <2>1. TrailStages(first, heeded, 0, [k \in 1 .. 0 |-> first])
    BY DEF TrailStages
  <2>2. QED
    BY <1>2, <2>1
<1>4. PICK g : TrailStages(first, heeded, m - 1, g)
  <2>1. m - 1 \in Nat /\ m - 1 \notin S
    BY <1>2, <1>3
  <2>2. QED
    BY <2>1
<1> DEFINE last == IF m = 1 THEN first ELSE FollowUp(g[m - 1], heeded)
           h == [k \in 1 .. m |-> IF k = m THEN last ELSE g[k]]
<1>5. m \in Nat \ {0}
  BY <1>2, <1>3
<1>6. ASSUME NEW k \in 1 .. m
      PROVE  h[k] = IF k = 1 THEN first ELSE FollowUp(h[k - 1], heeded)
  <2>1. g = [l \in 1 .. m - 1 |-> IF l = 1 THEN first ELSE FollowUp(g[l - 1], heeded)]
    BY <1>4 DEF TrailStages
  <2>2. CASE k = m
    <3>1. h[m] = last /\ (k # 1 => h[m - 1] = g[m - 1])
      BY <1>5, <2>2
    <3>2. QED
      BY <1>5, <2>2, <3>1
  <2>3. CASE k # m
    <3>1. k \in 1 .. m - 1 /\ h[k] = g[k]
      BY <1>5, <2>3
    <3>2. g[k] = IF k = 1 THEN first ELSE FollowUp(g[k - 1], heeded)
      BY <2>1, <3>1
    <3>3. k # 1 => h[k - 1] = g[k - 1]
      BY <1>5, <3>1
    <3>4. QED
      BY <3>1, <3>2, <3>3
  <2>4. QED
    BY <2>2, <2>3
<1>7. TrailStages(first, heeded, m, h)
  BY <1>6 DEF TrailStages
<1>8. QED
  BY <1>2, <1>7

LEMMA TrailByRounds ==
  ASSUME NEW first, NEW heeded, NEW n \in Nat \ {0}
  PROVE  /\ Trail(first, heeded, n)[1] = first
         /\ \A k \in 2 .. n :
              Trail(first, heeded, n)[k] = FollowUp(Trail(first, heeded, n)[k - 1], heeded)
<1>1. PICK f : TrailStages(first, heeded, n, f)
  BY TrailStagesExist
<1>2. Trail(first, heeded, n)
        = [k \in 1 .. n |-> IF k = 1 THEN first
                             ELSE FollowUp(Trail(first, heeded, n)[k - 1], heeded)]
  BY <1>1 DEF Trail, TrailStages
<1>3. Trail(first, heeded, n)[1] = first
  BY <1>2
<1>4. ASSUME NEW k \in 2 .. n
      PROVE  Trail(first, heeded, n)[k] = FollowUp(Trail(first, heeded, n)[k - 1], heeded)
  <2>1. k \in 1 .. n /\ k # 1
    OBVIOUS
  <2>2. QED
    BY <1>2, <2>1
<1>5. QED
  BY <1>3, <1>4

-----------------------------------------------------------------------------
(* Loading                                                                 *)

IsSeq(s) == s \in Seq(Range(s))

ConfigRecord(c) ==
  c = [version |-> c.version, server |-> c.server, defaults |-> c.defaults,
       stats |-> c.stats, onlyOneFile |-> c.onlyOneFile, rules |-> c.rules]

RulesOf(list) == UNION {Range(list[k].rules) : k \in DOMAIN list}

(* Merging keeps the rules of the files, and takes nothing but them.       *)
LEMMA MergedRules ==
  ASSUME NEW list, IsSeq(list), \A k \in DOMAIN list : IsSeq(list[k].rules),
         NEW n \in 0 .. Len(list)
  PROVE  /\ ConfigRecord(MergeRounds(list)[n])
         /\ MergeRounds(list)[n].rules \in Seq(RulesOf(list))
<1> DEFINE m == MergeRounds(list)
           OK(k) == ConfigRecord(m[k]) /\ m[k].rules \in Seq(RulesOf(list))
           S == {k \in Nat : k \in 0 .. Len(list) /\ ~OK(k)}
<1>0. Len(list) \in Nat /\ DOMAIN list = 1 .. Len(list)
  BY DEF IsSeq
<1>1. SUFFICES ASSUME S # {} PROVE FALSE
  BY <1>0
<1>2. m[0] = NoConfig /\ \A k \in 1 .. Len(list) : m[k] = Merge(m[k - 1], list[k])
  BY <1>0, MergedByRounds
<1> HIDE DEF m
<1>3. PICK k \in S : \A l \in S : k <= l
  <2>1. S \in SUBSET Nat
    OBVIOUS
  <2>2. QED
    BY <1>1, <2>1, LeastNatural
<1>4. OK(0)
  BY <1>2 DEF NoConfig, ConfigRecord
<1>5. k \in 1 .. Len(list) /\ ~OK(k)
  BY <1>3, <1>4
<1>6. k - 1 \in Nat /\ k - 1 \in 0 .. Len(list) /\ k - 1 \notin S
  BY <1>0, <1>3, <1>5
<1>7. OK(k - 1)
  BY <1>6
<1>8. list[k].rules \in Seq(RulesOf(list))
  <2>1. list[k].rules \in Seq(Range(list[k].rules)) /\ Range(list[k].rules) \subseteq RulesOf(list)
    BY <1>0, <1>5 DEF RulesOf, IsSeq
  <2>2. QED
    BY <2>1
<1>9. PICK before, after : before = m[k - 1] /\ after = m[k]
  OBVIOUS
<1>10. after = Merge(before, list[k])
  BY <1>2, <1>5, <1>9
<1>11. after.rules = before.rules \o list[k].rules /\ ConfigRecord(after)
  BY <1>10 DEF Merge, ConfigRecord
<1>12. after.rules \in Seq(RulesOf(list))
  BY <1>7, <1>8, <1>9, <1>11
<1>13. QED
  BY <1>5, <1>9, <1>11, <1>12

AllRules == UNION {RulesOf(directory) : directory \in Directories}

(* What the linter may rely on of a rule.                                  *)
LoadedRule(rule) ==
  /\ rule.type \in {"exact", "prefix", "regex", "glob"}
  /\ rule.host \in Hosts \union {NoHost}
  /\ rule.priority \in Int /\ rule.preservePath \in BOOLEAN
  /\ IsSeq(rule.path)
  /\ \E r \in AllRules : rule.path = r.path /\ rule.pattern = r.pattern
  /\ rule.type \in {"exact", "prefix"} => rule.path # <<>>
  /\ rule.type \in {"regex", "glob"} => rule.pattern # Unset
  /\ IsRedirect(rule) => rule.to # Unset
  /\ rule.to # Unset => IsSeq(rule.to.path) /\ rule.to.path # <<>>
  /\ rule.type = "glob" =>
       /\ rule.pattern.shape \in {"all", "one", "other"}
       /\ \A path \in rule.pattern.accepts :
            /\ rule.pattern.shape = "all" => IsPrefix(rule.pattern.base, path)
            /\ rule.pattern.shape = "one" => IsStrictPrefix(rule.pattern.base, path)

LEMMA DefaultsKeepForm ==
  ASSUME NEW rule \in AllRules, WellFormed(rule), NEW i, NEW defaults,
         ValidRule(ApplyDefaultsTo(rule, i, defaults))
  PROVE  LoadedRule(ApplyDefaultsTo(rule, i, defaults))
<1> DEFINE r == ApplyDefaultsTo(rule, i, defaults)
<1>1. /\ {"id", "type", "status", "preserveQuery"} \subseteq DOMAIN rule
      /\ rule.host \in Hosts \union {NoHost}
      /\ rule.path \in Seq(Range(rule.path))
      /\ rule.priority \in Int /\ rule.preservePath \in BOOLEAN
      /\ rule.to # Unset => rule.to.path \in Seq(Range(rule.to.path)) /\ rule.to.path # <<>>
  BY DEF WellFormed
<1>2. /\ r.host = rule.host /\ r.path = rule.path /\ r.priority = rule.priority
      /\ r.preservePath = rule.preservePath /\ r.to = rule.to /\ r.pattern = rule.pattern
      /\ r.type = IF rule.type = Unset THEN "exact" ELSE rule.type
  BY <1>1 DEF ApplyDefaultsTo
<1>3. /\ IsRedirect(r) => r.to # Unset
      /\ \/ r.type \in {"exact", "prefix"} /\ r.path # <<>>
         \/ r.type \in {"regex", "glob"} /\ r.pattern # Unset
  BY DEF ValidRule
<1> HIDE DEF r
<1>4. ASSUME r.type = "glob"
      PROVE  /\ r.pattern.shape \in {"all", "one", "other"}
             /\ \A path \in r.pattern.accepts :
                  /\ r.pattern.shape = "all" => IsPrefix(r.pattern.base, path)
                  /\ r.pattern.shape = "one" => IsStrictPrefix(r.pattern.base, path)
  <2>1. rule.type = "glob" /\ rule.pattern # Unset
    BY <1>2, <1>3, <1>4
  <2>2. /\ rule.pattern.shape \in {"all", "one", "other"}
        /\ \A path \in rule.pattern.accepts :
             /\ rule.pattern.shape = "all" => IsPrefix(rule.pattern.base, path)
             /\ rule.pattern.shape = "one" => IsStrictPrefix(rule.pattern.base, path)
    BY <2>1 DEF WellFormed
  <2>3. QED
    BY <1>2, <2>2
<1>5. QED
  BY <1>1, <1>2, <1>3, <1>4 DEF LoadedRule, IsSeq, r

(* A configuration that has been loaded.                                   *)
LEMMA LoadedRules ==
  ASSUME NEW directory \in Directories, NEW c, c = LoadDirectory(directory), c # NoConfig
  PROVE  /\ Len(c.rules) \in Nat \ {0} /\ Len(c.rules) <= N /\ DOMAIN c.rules = 1 .. Len(c.rules)
         /\ IsSeq(c.rules) /\ \A i \in DOMAIN c.rules : LoadedRule(c.rules[i])
<1>1. /\ IsSeq(directory) /\ Len(LoadDirectory(directory).rules) <= N
      /\ \A k \in DOMAIN directory : IsSeq(directory[k].rules)
      /\ \A k \in DOMAIN directory : \A rule \in Range(directory[k].rules) : WellFormed(rule)
  <2>1. \A k \in DOMAIN directory : directory[k] \in Range(directory)
    BY DEF Range
  <2>2. QED
    BY <2>1, DirectoriesAssumption DEF IsSeq
<1>2. PICK m : m = MergeRounds(directory)[Len(directory)]
  OBVIOUS
<1>3. ConfigRecord(m) /\ m.rules \in Seq(RulesOf(directory))
  <2>1. Len(directory) \in 0 .. Len(directory)
    BY <1>1 DEF IsSeq
  <2>2. QED
    BY <1>1, <1>2, <2>1, MergedRules
<1>4. \A rule \in RulesOf(directory) : WellFormed(rule) /\ rule \in AllRules
  BY <1>1 DEF RulesOf, AllRules
<1>5. PICK defaults : defaults = [m.defaults EXCEPT !.status = IF @ = 0 THEN 301 ELSE @]
  OBVIOUS
<1>6. PICK rules : rules = [i \in DOMAIN m.rules |-> ApplyDefaultsTo(m.rules[i], i, defaults)]
  OBVIOUS
<1>7. ApplyDefaults(m).rules = rules
  BY <1>3, <1>5, <1>6 DEF ApplyDefaults, ConfigRecord
<1>8. c = ApplyDefaults(m) /\ Valid(ApplyDefaults(m))
  BY <1>2 DEF LoadDirectory, Checked
<1>9. DOMAIN m.rules = 1 .. Len(m.rules) /\ Len(m.rules) \in Nat
  BY <1>3
<1>10. DOMAIN rules = 1 .. Len(m.rules)
  BY <1>6, <1>9
<1>11. rules \in Seq(Range(rules)) /\ Len(rules) = Len(m.rules)
  BY <1>6, <1>9 DEF Range
<1>12. ASSUME NEW i \in DOMAIN rules PROVE LoadedRule(rules[i])
  <2>1. WellFormed(m.rules[i]) /\ m.rules[i] \in AllRules
    BY <1>3, <1>4, <1>9, <1>10
  <2>2. rules[i] = ApplyDefaultsTo(m.rules[i], i, defaults)
    BY <1>6, <1>9, <1>10
  <2>3. ValidRule(rules[i])
    BY <1>7, <1>8 DEF Valid
  <2>4. QED
    BY <2>1, <2>2, <2>3, DefaultsKeepForm
<1>13. c.rules = rules
  BY <1>7, <1>8
<1>14. Len(c.rules) <= N
  BY <1>1
<1>15. Len(rules) # 0
  <2>1. rules # <<>>
    BY <1>7, <1>8 DEF Valid
  <2>2. QED
    BY <1>11, <2>1
<1>16. QED
  BY <1>9, <1>10, <1>11, <1>12, <1>13, <1>14, <1>15 DEF IsSeq

-----------------------------------------------------------------------------
(* The graph                                                               *)

(* The list t has all the first n rules that i redirects to.               *)
Listed(rules, i, n, t) ==
  /\ t \in Seq(1 .. Len(rules))
  /\ \A j \in 1 .. n : Redirects(rules, i, j) => \E k \in DOMAIN t : t[k] = j

LEMMA TargetsFound ==
  ASSUME NEW rules, NEW i, Len(rules) \in Nat, NEW n \in 0 .. Len(rules)
  PROVE  Listed(rules, i, n, TargetRounds(rules, i)[n])
<1> DEFINE t == TargetRounds(rules, i)
           S == {m \in Nat : m \in 0 .. Len(rules) /\ ~Listed(rules, i, m, t[m])}
<1>1. SUFFICES ASSUME S # {} PROVE FALSE
  OBVIOUS
<1>2. t[0] = <<>> /\ \A m \in 1 .. Len(rules) :
                       t[m] = IF Redirects(rules, i, m) THEN Append(t[m - 1], m) ELSE t[m - 1]
  BY TargetsByRounds
<1> HIDE DEF t
<1>3. PICK m \in S : \A l \in S : m <= l
  <2>1. S \in SUBSET Nat
    OBVIOUS
  <2>2. QED
    BY <1>1, <2>1, LeastNatural
<1>4. Listed(rules, i, 0, t[0])
  BY <1>2 DEF Listed
<1>5. m \in 1 .. Len(rules) /\ ~Listed(rules, i, m, t[m])
  BY <1>3, <1>4
<1>6. m - 1 \in Nat /\ m - 1 \in 0 .. Len(rules) /\ m - 1 \notin S
  BY <1>3, <1>5
<1>7. Listed(rules, i, m - 1, t[m - 1])
  BY <1>6
<1>8. PICK before, after : before = t[m - 1] /\ after = t[m]
  OBVIOUS
<1>9. /\ before \in Seq(1 .. Len(rules))
      /\ \A j \in 1 .. m - 1 : Redirects(rules, i, j) => \E k \in DOMAIN before : before[k] = j
  BY <1>7, <1>8 DEF Listed
<1>10. after = IF Redirects(rules, i, m) THEN Append(before, m) ELSE before
  BY <1>2, <1>5, <1>8
<1>11. CASE Redirects(rules, i, m)
  <2>1. after = Append(before, m)
    BY <1>10, <1>11
  <2>2. /\ after \in Seq(1 .. Len(rules)) /\ DOMAIN after = 1 .. Len(before) + 1
        /\ DOMAIN before = 1 .. Len(before) /\ Len(before) \in Nat
        /\ after[Len(before) + 1] = m /\ \A k \in 1 .. Len(before) : after[k] = before[k]
    BY <1>5, <1>9, <2>1
  <2>3. ASSUME NEW j \in 1 .. m, Redirects(rules, i, j) PROVE \E k \in DOMAIN after : after[k] = j
    <3>1. CASE j = m
      BY <2>2, <3>1
    <3>2. CASE j # m
      <4>1. j \in 1 .. m - 1
        BY <1>5, <3>2
      <4>2. PICK k \in DOMAIN before : before[k] = j
        BY <1>9, <2>3, <4>1
      <4>3. QED
        BY <2>2, <4>2
    <3>3. QED
      BY <3>1, <3>2
  <2>4. Listed(rules, i, m, t[m])
    BY <1>8, <2>2, <2>3 DEF Listed
  <2>5. QED
    BY <1>5, <2>4
<1>12. CASE ~Redirects(rules, i, m)
  <2>1. after = before
    BY <1>10, <1>12
  <2>2. ASSUME NEW j \in 1 .. m, Redirects(rules, i, j) PROVE \E k \in DOMAIN after : after[k] = j
    <3>1. j \in 1 .. m - 1
      BY <1>5, <1>12, <2>2
    <3>2. QED
      BY <1>9, <2>1, <2>2, <3>1
  <2>3. Listed(rules, i, m, t[m])
    BY <1>8, <1>9, <2>1, <2>2 DEF Listed
  <2>4. QED
    BY <1>5, <2>3
<1>13. QED
  BY <1>11, <1>12

LEMMA GraphFacts ==
  ASSUME NEW rules, Len(rules) \in Nat, Len(rules) <= N
  PROVE  /\ BuildRedirectGraph(rules, Nodes) \in [Nodes -> Seq(Nodes)]
         /\ \A i \in Nodes, j \in 1 .. Len(rules) : Redirects(rules, i, j) =>
              \E k \in DOMAIN BuildRedirectGraph(rules, Nodes)[i] :
                BuildRedirectGraph(rules, Nodes)[i][k] = j
<1>1. 1 .. Len(rules) \subseteq Nodes /\ Len(rules) \in 0 .. Len(rules)
  BY NAssumption DEF Nodes
<1>2. PICK g : g = BuildRedirectGraph(rules, Nodes)
  OBVIOUS
<1>3. g = [i \in Nodes |-> TargetRounds(rules, i)[Len(rules)]]
  BY <1>2 DEF BuildRedirectGraph
<1>4. ASSUME NEW i \in Nodes
      PROVE  /\ g[i] \in Seq(Nodes)
             /\ \A j \in 1 .. Len(rules) : Redirects(rules, i, j) => \E k \in DOMAIN g[i] : g[i][k] = j
  <2>1. g[i] = TargetRounds(rules, i)[Len(rules)]
    BY <1>3
  <2>2. Listed(rules, i, Len(rules), g[i])
    BY <1>1, <2>1, TargetsFound
  <2>3. QED
    BY <1>1, <2>2 DEF Listed
<1>5. g \in [Nodes -> Seq(Nodes)]
  BY <1>3, <1>4
<1>6. QED
  BY <1>2, <1>4, <1>5

-----------------------------------------------------------------------------
(* Linting a directory                                                     *)

VettingInv ==
  /\ files \in Directories
  /\ SearchInv
  /\ cfg = NoConfig => StartSearch
  /\ cfg # NoConfig => cfg = LoadDirectory(files) /\ adj = BuildRedirectGraph(cfg.rules, Nodes)

LEMMA VettingInit == Init => VettingInv
<1> SUFFICES ASSUME Init PROVE VettingInv
  OBVIOUS
<1>1. /\ files \in Directories /\ cfg = NoConfig /\ StartSearch
      /\ adj = [u \in Nodes |-> <<>>]
  BY DEF Init
<1>2. adj \in [Nodes -> Seq(Nodes)]
  BY <1>1
<1>3. SearchInv
  BY <1>1, <1>2, InitInv DEF SearchInit
<1>4. QED
  BY <1>1, <1>3 DEF VettingInv

LEMMA InitNext == SearchInit' => SearchInv'
BY InitInv, PTL

LEMMA VettingStep == VettingInv /\ [Next]_vars => VettingInv'
<1> SUFFICES ASSUME VettingInv, [Next]_vars PROVE VettingInv'
  OBVIOUS
<1>1. CASE LoadConfig
  <2>1. /\ cfg = NoConfig /\ cfg' = LoadDirectory(files) /\ cfg' # NoConfig
        /\ adj' = BuildRedirectGraph(cfg'.rules, Nodes) /\ files' = files
        /\ UNCHANGED searchVars
    BY <1>1 DEF LoadConfig
  <2>2. files \in Directories /\ StartSearch
    BY <2>1 DEF VettingInv
  <2>3. PICK c : c = cfg'
    OBVIOUS
  <2>4. Len(c.rules) \in Nat /\ Len(c.rules) <= N
    BY <2>1, <2>2, <2>3, LoadedRules
  <2>5. adj' \in [Nodes -> Seq(Nodes)]
    BY <2>1, <2>3, <2>4, GraphFacts
  <2>6. StartSearch'
    BY <2>1, <2>2 DEF StartSearch, searchVars, Nodes
  <2>7. SearchInit'
    BY <2>5, <2>6 DEF SearchInit, Nodes
  <2>8. SearchInv'
    BY <2>7, InitNext
  <2>9. QED
    BY <2>1, <2>2, <2>8 DEF VettingInv, Nodes
<1>2. CASE FindCycles
  <2>1. Search /\ cfg # NoConfig /\ files' = files /\ cfg' = cfg
    BY <1>2 DEF FindCycles
  <2>2. SearchInv'
    BY <2>1, StepInv DEF VettingInv
  <2>3. adj' = adj
    BY <2>1 DEF Search, Return, Root, Report, Descend, Skip, Looking
  <2>4. QED
    BY <2>1, <2>2, <2>3 DEF VettingInv, Nodes
<1>3. CASE UNCHANGED vars
  <2>1. UNCHANGED svars /\ files' = files /\ cfg' = cfg
    BY <1>3 DEF vars, svars
  <2>2. SearchInv'
    BY <2>1, StutterInv DEF VettingInv
  <2>3. StartSearch => StartSearch'
    BY <2>1 DEF svars, searchVars, StartSearch, Nodes
  <2>4. adj' = adj
    BY <2>1 DEF svars
  <2>5. QED
    BY <2>1, <2>2, <2>3, <2>4 DEF VettingInv, Nodes
<1>4. QED
  BY <1>1, <1>2, <1>3 DEF Next

LEMMA VettingAlways == Spec => []VettingInv
BY VettingInit, VettingStep, PTL DEF Spec

-----------------------------------------------------------------------------
(* Which rule answers                                                      *)

(* The rules of a router.                                                  *)
RuleSpace ==
  [type : {"exact", "prefix", "regex", "glob"}, host : Hosts \union {NoHost}, priority : Int,
   path : {r.path : r \in AllRules}, accepts : {{}} \union {r.pattern.accepts : r \in AllRules}]

RP == INSTANCE RouterProofs WITH
  Rules <- RuleSpace, RuleBound <- N, rules <- RouterRules, router <- Sorter!New(RouterRules)

LEMMA SameRouter == Sorter!New(RouterRules) = RP!New(RouterRules)
BY DEF Sorter!New, RP!New, Sorter!Sort, RP!Sort, Sorter!Sorted, RP!Sorted, Sorter!Insert, RP!Insert,
       Sorter!Less, RP!Less, Sorter!InsertAt, RP!InsertAt, Sorter!SelectLastInSeq,
       RP!SelectLastInSeq, Sorter!Max, RP!Max, Sorter!NoHost, RP!NoHost

LEMMA SameApplies ==
  ASSUME NEW i, NEW host, NEW path
  PROVE  RP!Applies(i, host, path) <=> Served!Applies(i, host, path)
BY DEF RP!Applies, Served!Applies, RP!HostFits, Served!HostFits, RP!NoHost, Served!NoHost,
       RP!IsPrefix, Served!IsPrefix

LEMMA SameMatch ==
  ASSUME NEW host, NEW path
  PROVE  RP!Match(host, path) = Served!Match(host, path)
<1>1. RP!MatchExact(host, path) = Served!MatchExact(host, path)
  BY DEF RP!MatchExact, Served!MatchExact, RP!ExactAt, Served!ExactAt, RP!At, Served!At,
         RP!SelectLastInSeq, Served!SelectLastInSeq, RP!Max, Served!Max, RP!NoHost, Served!NoHost
<1>2. RP!MatchPrefix(host, path) = Served!MatchPrefix(host, path)
  BY DEF RP!MatchPrefix, Served!MatchPrefix, RP!HostFits, Served!HostFits, RP!At, Served!At,
         RP!SelectInSeq, Served!SelectInSeq, RP!Min, Served!Min, RP!NoHost, Served!NoHost,
         RP!IsPrefix, Served!IsPrefix
<1>3. RP!MatchRegex(host, path) = Served!MatchRegex(host, path)
  BY DEF RP!MatchRegex, Served!MatchRegex, RP!HostFits, Served!HostFits, RP!At, Served!At,
         RP!SelectInSeq, Served!SelectInSeq, RP!Min, Served!Min, RP!NoHost, Served!NoHost
<1>4. QED
  BY <1>1, <1>2, <1>3 DEF RP!Match, Served!Match, RP!SelectInSeq, Served!SelectInSeq, RP!Min, Served!Min

(* The configuration and the router it makes.                              *)
LEMMA Loaded ==
  ASSUME VettingInv, cfg # NoConfig
  PROVE  /\ Len(cfg.rules) \in Nat \ {0} /\ Len(cfg.rules) <= N /\ DOMAIN cfg.rules = 1 .. Len(cfg.rules)
         /\ \A i \in DOMAIN cfg.rules : LoadedRule(cfg.rules[i])
         /\ adj = BuildRedirectGraph(cfg.rules, Nodes)
BY LoadedRules DEF VettingInv

LEMMA LoadedRouter ==
  ASSUME VettingInv, cfg # NoConfig
  PROVE  RP!RouterInv
<1>1. PICK n : n = Len(cfg.rules)
  OBVIOUS
<1>2. /\ n \in Nat /\ n <= N /\ DOMAIN cfg.rules = 1 .. n
      /\ \A i \in 1 .. n : LoadedRule(cfg.rules[i])
  BY <1>1, Loaded
<1>3. PICK rs : rs = RouterRules
  OBVIOUS
<1>4. DOMAIN rs = 1 .. n
  BY <1>2, <1>3 DEF RouterRules
<1>5. ASSUME NEW i \in 1 .. n PROVE rs[i] \in RuleSpace
  <2>1. PICK rule : rule = cfg.rules[i]
    OBVIOUS
  <2>2. PICK accepts : accepts = IF rule.pattern = Unset THEN {} ELSE rule.pattern.accepts
    OBVIOUS
  <2>3. rs[i] = [type |-> rule.type, host |-> rule.host, priority |-> rule.priority,
                 path |-> rule.path, accepts |-> accepts]
    BY <1>2, <1>3, <2>1, <2>2 DEF RouterRules
  <2>4. LoadedRule(rule)
    BY <1>2, <2>1
  <2>5. accepts \in {{}} \union {r.pattern.accepts : r \in AllRules}
    BY <2>2, <2>4 DEF LoadedRule
  <2>6. QED
    BY <2>3, <2>4, <2>5 DEF LoadedRule, RuleSpace
<1>6. rs \in Seq(RuleSpace) /\ Len(rs) = n
  <2>1. rs = [i \in 1 .. n |-> rs[i]]
    BY <1>3, <1>4 DEF RouterRules
  <2>2. QED
    BY <1>2, <1>5, <2>1
<1>7. QED
  BY <1>2, <1>3, <1>6, SameRouter DEF RP!RouterInv

(* A rule that answers is one that covers the request.                     *)
LEMMA MatchIsSound ==
  ASSUME VettingInv, cfg # NoConfig, NEW host, NEW path, Served!Match(host, path) # NoRule
  PROVE  /\ Served!Match(host, path) \in DOMAIN cfg.rules
         /\ Served!Applies(Served!Match(host, path), host, path)
<1>1. RP!RouterInv
  BY LoadedRouter
<1>2. DOMAIN RouterRules = DOMAIN cfg.rules
  BY DEF RouterRules
<1>3. N \in Nat \ {0} /\ NoRule \notin 1 .. N
  <2>1. PICK n : n = Len(cfg.rules)
    OBVIOUS
  <2>2. n \in Nat \ {0} /\ n <= N
    BY <2>1, Loaded
  <2>3. QED
    BY <2>2, NAssumption, BoundsAssumption
<1>4. \A rule \in RuleSpace : rule.type \in {"exact", "prefix", "regex", "glob"} /\ rule.priority \in Int
  BY DEF RuleSpace
<1>5. RP!Match(host, path) \in RP!Applicable(host, path, {"exact", "prefix", "regex", "glob"})
  BY <1>1, <1>3, <1>4, SameMatch, RP!MatchApplies
<1>6. QED
  BY <1>2, <1>5, SameMatch, SameApplies DEF RP!Applicable

-----------------------------------------------------------------------------
(* What an answer means                                                    *)

LEMMA PrefixByElements ==
  ASSUME NEW s, IsSeq(s), NEW t, IsSeq(t)
  PROVE  IsPrefix(s, t) <=> Len(s) <= Len(t) /\ \A k \in 1 .. Len(s) : s[k] = t[k]
<1>1. PICK U : s \in Seq(U) /\ t \in Seq(U)
  <2>1. PICK A : s \in Seq(A)
    BY DEF IsSeq
  <2>2. PICK B : t \in Seq(B)
    BY DEF IsSeq
  <2>3. s \in Seq(A \union B) /\ t \in Seq(A \union B)
    BY <2>1, <2>2
  <2>4. QED
    BY <2>3
<1>2. Len(s) \in Nat /\ Len(t) \in Nat
  BY <1>1
<1>3. /\ SubSeq(s, 1, Len(s)) = s
      /\ Len(s) <= Len(t) =>
           /\ SubSeq(t, 1, Len(s)) \in Seq(U) /\ Len(SubSeq(t, 1, Len(s))) = Len(s)
           /\ \A k \in 1 .. Len(s) : SubSeq(t, 1, Len(s))[k] = t[k]
  BY <1>1, <1>2
<1>4. ASSUME Len(s) <= Len(t), \A k \in 1 .. Len(s) : s[k] = t[k]
      PROVE  SubSeq(t, 1, Len(s)) = s
  BY <1>1, <1>2, <1>3, <1>4
<1>5. QED
  BY <1>2, <1>3, <1>4 DEF IsPrefix

LEMMA PrefixesCompare ==
  ASSUME NEW a, IsSeq(a), NEW b, IsSeq(b), NEW path, IsSeq(path), IsPrefix(a, path), IsPrefix(b, path)
  PROVE  IsPrefix(a, b) \/ IsStrictPrefix(b, a)
<1>1. /\ Len(a) \in Nat /\ Len(b) \in Nat /\ Len(path) \in Nat
      /\ \A k \in 1 .. Len(a) : a[k] = path[k]
      /\ \A k \in 1 .. Len(b) : b[k] = path[k]
  <2>1. Len(a) \in Nat /\ Len(b) \in Nat /\ Len(path) \in Nat
    BY DEF IsSeq
  <2>2. QED
    BY <2>1, PrefixByElements
<1>2. CASE Len(a) <= Len(b)
  <2>1. \A k \in 1 .. Len(a) : k \in 1 .. Len(b)
    BY <1>1, <1>2
  <2>2. \A k \in 1 .. Len(a) : a[k] = b[k]
    BY <1>1, <2>1
  <2>3. QED
    BY <1>2, <2>2, PrefixByElements
<1>3. CASE Len(b) < Len(a)
  <2>1. \A k \in 1 .. Len(b) : k \in 1 .. Len(a)
    BY <1>1, <1>3
  <2>2. \A k \in 1 .. Len(b) : b[k] = a[k]
    BY <1>1, <2>1
  <2>3. Len(b) <= Len(a) /\ b # a
    BY <1>1, <1>3
  <2>4. QED
    BY <2>2, <2>3, PrefixByElements DEF IsStrictPrefix
<1>4. QED
  BY <1>1, <1>2, <1>3

LEMMA AppliesMeans ==
  ASSUME VettingInv, cfg # NoConfig, NEW j \in DOMAIN cfg.rules, NEW host, NEW path,
         Served!Applies(j, host, path)
  PROVE  /\ cfg.rules[j].host \in {NoHost, host}
         /\ cfg.rules[j].type = "exact" => cfg.rules[j].path = path
         /\ cfg.rules[j].type = "prefix" => IsPrefix(cfg.rules[j].path, path)
         /\ cfg.rules[j].type \in {"regex", "glob"} => path \in cfg.rules[j].pattern.accepts
<1>1. PICK rule : rule = cfg.rules[j]
  OBVIOUS
<1>2. LoadedRule(rule)
  BY <1>1, Loaded
<1>3. PICK r : r = RouterRules[j]
  OBVIOUS
<1>4. r = [type |-> rule.type, host |-> rule.host, priority |-> rule.priority, path |-> rule.path,
           accepts |-> IF rule.pattern = Unset THEN {} ELSE rule.pattern.accepts]
  BY <1>1, <1>3 DEF RouterRules
<1>5. /\ r.host \in {NoHost, host}
      /\ r.type = "exact" => r.path = path
      /\ r.type = "prefix" => IsPrefix(r.path, path)
      /\ r.type \in {"regex", "glob"} => path \in r.accepts
  BY <1>3 DEF Served!Applies, Served!HostFits, Served!NoHost, NoHost, Served!IsPrefix, IsPrefix
<1>6. QED
  BY <1>1, <1>2, <1>4, <1>5 DEF LoadedRule

LEMMA AnswersMeans ==
  ASSUME VettingInv, cfg # NoConfig, NEW host, NEW path, Answers(host, path) # NoRule
  PROVE  /\ Answers(host, path) \in DOMAIN cfg.rules
         /\ Served!Applies(Answers(host, path), host, path)
         /\ host \in LocalHosts(cfg.rules) \union {NoHost}
<1>1. /\ host \in LocalHosts(cfg.rules) \union {NoHost}
      /\ Answers(host, path) = Served!Match(host, path)
  BY DEF Answers
<1>2. QED
  BY <1>1, MatchIsSound

(* Where the destination of a rule goes that sends a client on to another. *)
LEMMA DestinationIsLocal ==
  ASSUME NEW i \in DOMAIN cfg.rules, NEW host, NEW path,
         Followed(i, host, path)[1] \in LocalHosts(cfg.rules) \union {NoHost}
  PROVE  DestinationPath(cfg.rules, i) = cfg.rules[i].to.path
BY DEF DestinationPath, Followed

(* Two rules that are both right for one path overlap.                     *)
LEMMA InvSilenced == VettingInv => SilencedIsWarned
<1> SUFFICES ASSUME VettingInv, Linted, NEW i \in DOMAIN cfg.rules, NEW j \in DOMAIN cfg.rules,
                    i # j, NEW at \in Hosts \X Paths, Served!Applies(i, at[1], at[2]),
                    cfg.rules[i].type = cfg.rules[j].type, cfg.rules[i].type \in {"exact", "prefix"},
                    cfg.rules[i].priority = cfg.rules[j].priority,
                    Served!Match(at[1], at[2]) = j
             PROVE  {<<i, j>>, <<j, i>>} \cap OverlapWarnings(cfg.rules) # {}
  BY DEF SilencedIsWarned
<1>1. cfg # NoConfig
  BY DEF Linted
<1>2. DOMAIN cfg.rules \subseteq 1 .. N /\ DOMAIN cfg.rules \subseteq Nat
  <2>1. PICK n : n = Len(cfg.rules)
    OBVIOUS
  <2>2. n \in Nat /\ n <= N /\ DOMAIN cfg.rules = 1 .. n
    BY <1>1, <2>1, Loaded
  <2>3. QED
    BY <2>2, NAssumption
<1>3. PICK x, y : x = cfg.rules[i] /\ y = cfg.rules[j]
  OBVIOUS
<1>4. Served!Applies(j, at[1], at[2])
  BY <1>1, <1>2, BoundsAssumption, MatchIsSound
<1>5. /\ x.type = "exact" => x.path = at[2]
      /\ x.type = "prefix" => IsPrefix(x.path, at[2])
      /\ y.type = "exact" => y.path = at[2]
      /\ y.type = "prefix" => IsPrefix(y.path, at[2])
  BY <1>1, <1>3, <1>4, AppliesMeans
<1>6. IsSeq(x.path) /\ IsSeq(y.path) /\ IsSeq(at[2])
  BY <1>1, <1>3, Loaded, PathsAssumption DEF LoadedRule, IsSeq
<1>7. x.type = y.type /\ x.type \in {"exact", "prefix"} /\ x.priority = y.priority
  BY <1>3
<1>8. Overlap(x, y) /\ Overlap(y, x)
  <2>1. CASE x.type = "exact"
    BY <1>5, <1>7, <2>1 DEF Overlap
  <2>2. CASE x.type = "prefix"
    <3>1. IsPrefix(x.path, y.path) \/ IsPrefix(y.path, x.path)
      BY <1>5, <1>6, <1>7, <2>2, PrefixesCompare DEF IsStrictPrefix
    <3>2. QED
      BY <1>7, <2>2, <3>1 DEF Overlap
  <2>3. QED
    BY <1>7, <2>1, <2>2
<1>9. CASE i < j
  <2>1. <<i, j>> \in OverlapWarnings(cfg.rules)
    BY <1>3, <1>7, <1>8, <1>9 DEF OverlapWarnings
  <2>2. QED
    BY <2>1
<1>10. CASE j < i
  <2>1. <<j, i>> \in OverlapWarnings(cfg.rules)
    BY <1>3, <1>7, <1>8, <1>10 DEF OverlapWarnings
  <2>2. QED
    BY <2>1
<1>11. QED
  BY <1>2, <1>9, <1>10

LEMMA InvGrowing == VettingInv => GrowingLoopsAreReported
<1> SUFFICES ASSUME VettingInv, Linted, NEW host \in Hosts, NEW path \in Paths,
                    NEW i, i = Answers(host, path), NEW to, to = Followed(i, host, path),
                    i # NoRule, IsRedirect(cfg.rules[i]), cfg.rules[i].type = "prefix",
                    cfg.rules[i].preservePath, Answers(to[1], to[2]) = i, Len(to[2]) >= Len(path)
             PROVE  i \in PrefixSelfLoops(cfg.rules)
  BY DEF GrowingLoopsAreReported, FirstRequests, Request
<1>1. cfg # NoConfig
  BY DEF Linted
<1>2. PICK rule : rule = cfg.rules[i]
  OBVIOUS
<1>3. i \in DOMAIN cfg.rules /\ IsPrefix(rule.path, path)
  BY <1>1, <1>2, AnswersMeans, AppliesMeans
<1>4. /\ to[1] \in LocalHosts(cfg.rules) \union {NoHost}
      /\ IsPrefix(rule.path, to[2])
  BY <1>1, <1>2, AnswersMeans, AppliesMeans
<1>5. IsSeq(rule.path) /\ IsSeq(path) /\ IsSeq(rule.to.path)
  BY <1>1, <1>2, <1>3, Loaded, PathsAssumption DEF LoadedRule, IsSeq
<1>6. to[2] = rule.to.path \o SubSeq(path, Len(rule.path) + 1, Len(path))
  BY <1>2 DEF Followed, Location, Appends
<1>7. PICK U : rule.path \in Seq(U) /\ path \in Seq(U) /\ rule.to.path \in Seq(U)
  <2>1. PICK A, B, C : rule.path \in Seq(A) /\ path \in Seq(B) /\ rule.to.path \in Seq(C)
    BY <1>5 DEF IsSeq
  <2>2. /\ rule.path \in Seq(A \union B \union C) /\ path \in Seq(A \union B \union C)
        /\ rule.to.path \in Seq(A \union B \union C)
    BY <2>1
  <2>3. QED
    BY <2>2
<1>8. PICK p, d, l, rest : /\ p = Len(rule.path) /\ d = Len(rule.to.path) /\ l = Len(path)
                           /\ rest = SubSeq(path, Len(rule.path) + 1, Len(path))
  OBVIOUS
<1>9. p \in Nat /\ d \in Nat /\ l \in Nat /\ p <= l
  BY <1>3, <1>5, <1>7, <1>8, PrefixByElements
<1>10. rest \in Seq(U) /\ Len(rest) = l - p
  <2>1. p + 1 \in Int /\ l \in Int /\ \A k \in p + 1 .. l : k \in 1 .. l
    BY <1>9
  <2>2. \A k \in p + 1 .. l : path[k] \in U
    BY <1>7, <1>8, <2>1
  <2>3. /\ SubSeq(path, p + 1, l) \in Seq(U)
        /\ Len(SubSeq(path, p + 1, l)) = IF p + 1 <= l THEN l - (p + 1) + 1 ELSE 0
    BY <2>1, <2>2, SubSeqProperties
  <2>4. (IF p + 1 <= l THEN l - (p + 1) + 1 ELSE 0) = l - p
    BY <1>9
  <2>5. QED
    BY <1>8, <2>3, <2>4
<1>11. /\ to[2] \in Seq(U) /\ Len(to[2]) = d + (l - p)
       /\ \A k \in 1 .. d : to[2][k] = rule.to.path[k]
  <2>1. PICK dest : dest = rule.to.path
    OBVIOUS
  <2>2. to[2] = dest \o rest /\ dest \in Seq(U) /\ Len(dest) = d
    BY <1>6, <1>7, <1>8, <2>1
  <2>3. /\ dest \o rest \in Seq(U) /\ Len(dest \o rest) = Len(dest) + Len(rest)
        /\ \A k \in 1 .. Len(dest) : (dest \o rest)[k] = dest[k]
    BY <1>9, <1>10, <2>2
  <2>4. QED
    BY <1>9, <1>10, <2>1, <2>2, <2>3
<1>12. p <= d
  BY <1>8, <1>9, <1>11
<1>13. IsSeq(to[2])
  BY <1>11 DEF IsSeq, Range
<1>14. \A k \in 1 .. p : rule.path[k] = to[2][k]
  BY <1>4, <1>5, <1>8, <1>13, PrefixByElements
<1>15. \A k \in 1 .. p : rule.path[k] = rule.to.path[k]
  <2>1. \A k \in 1 .. p : k \in 1 .. d
    BY <1>9, <1>12
  <2>2. QED
    BY <1>11, <1>14, <2>1
<1>16. IsPrefix(rule.path, rule.to.path)
  BY <1>5, <1>8, <1>12, <1>15, PrefixByElements
<1>17. DestinationPath(cfg.rules, i) = rule.to.path
  BY <1>2, <1>3, <1>4, DestinationIsLocal
<1>18. QED
  BY <1>2, <1>3, <1>16, <1>17 DEF PrefixSelfLoops, RedirectRules

-----------------------------------------------------------------------------
(* What a client sees that goes on and on                                  *)

NextHost(i, host) == IF cfg.rules[i].to.host = NoHost THEN host ELSE cfg.rules[i].to.host

(* Rule i has sent a client to a path that rule j answers on some host.    *)
Sends(i, j, kinds) ==
  /\ i \in RedirectRules(cfg.rules) /\ j \in DOMAIN cfg.rules
  /\ cfg.rules[i].type \in kinds
  /\ DestinationPath(cfg.rules, i) # <<>>
  /\ \E host : Served!Applies(j, host, DestinationPath(cfg.rules, i))

LEMMA HostsOfRules ==
  ASSUME VettingInv, cfg # NoConfig
  PROVE  LocalHosts(cfg.rules) \subseteq Hosts
<1>1. \A i \in DOMAIN cfg.rules : cfg.rules[i].host \in Hosts \union {NoHost}
  BY Loaded DEF LoadedRule
<1>2. QED
  BY <1>1 DEF LocalHosts

(* The next request depends on nothing but the rule and the host.          *)
LEMMA FollowUpForgets ==
  ASSUME NEW a, NEW b, NEW kinds, a.rule = b.rule, a.host = b.host
  PROVE  FollowUp(a, Plain(kinds)) = FollowUp(b, Plain(kinds))
<1>1. ~Appends(a.rule) => Followed(a.rule, a.host, a.path) = Followed(b.rule, b.host, b.path)
  BY DEF Followed, Location
<1>2. a.rule \in Plain(kinds) => ~Appends(a.rule)
  BY DEF Plain
<1>3. QED
  BY <1>1, <1>2 DEF FollowUp

LEMMA NoRuleIsNone ==
  ASSUME VettingInv, cfg # NoConfig
  PROVE  NoRule \notin DOMAIN cfg.rules
<1>1. PICK n : n = Len(cfg.rules)
  OBVIOUS
<1>2. n \in Nat /\ n <= N /\ DOMAIN cfg.rules = 1 .. n
  BY <1>1, Loaded
<1>3. QED
  BY <1>2, NAssumption, BoundsAssumption

LEMMA FollowUpMeans ==
  ASSUME VettingInv, cfg # NoConfig, NEW last, NEW kinds,
         FollowUp(last, Plain(kinds)).rule # NoRule
  PROVE  /\ last.rule # NoRule /\ last.rule \in DOMAIN cfg.rules
         /\ FollowUp(last, Plain(kinds)).rule \in DOMAIN cfg.rules
         /\ FollowUp(last, Plain(kinds)).host = NextHost(last.rule, last.host)
         /\ last.host \in Hosts => FollowUp(last, Plain(kinds)).host \in Hosts
         /\ Sends(last.rule, FollowUp(last, Plain(kinds)).rule, kinds)
<1>1. PICK i, rule, to : i = last.rule /\ rule = cfg.rules[i] /\ to = Followed(i, last.host, last.path)
  OBVIOUS
<1>2. PICK f : f = FollowUp(last, Plain(kinds))
  OBVIOUS
<1>3. /\ i \in DOMAIN cfg.rules /\ i # NoRule
      /\ IsRedirect(rule) /\ ~Appends(i) /\ rule.type \in kinds
      /\ f = Request(to[1], to[2])
  <2>1. Final.rule = NoRule
    BY DEF Final
  <2>2. i \in Plain(kinds) /\ IsRedirect(rule) /\ f = Request(to[1], to[2])
    BY <1>1, <1>2, <2>1 DEF FollowUp
  <2>3. QED
    BY <1>1, <2>2, NoRuleIsNone DEF Plain
<1>4. to[1] = NextHost(i, last.host) /\ to[2] = rule.to.path
  BY <1>1, <1>3 DEF Followed, Location, NextHost
<1>5. f.rule = Answers(to[1], to[2]) /\ f.host = to[1]
  BY <1>3 DEF Request
<1>6. /\ f.rule \in DOMAIN cfg.rules /\ Served!Applies(f.rule, to[1], to[2])
      /\ to[1] \in LocalHosts(cfg.rules) \union {NoHost}
  BY <1>2, <1>5, AnswersMeans
<1>7. i \in DOMAIN cfg.rules
  BY <1>3
<1>8. last.host \in Hosts => to[1] \in Hosts
  <2>1. rule.to.host = NoHost => to[1] = last.host
    BY <1>1, <1>4 DEF NextHost
  <2>2. rule.to.host # NoHost => to[1] # NoHost
    BY <1>1, <1>4 DEF NextHost
  <2>3. QED
    BY <1>6, <2>1, <2>2, HostsOfRules
<1>9. DestinationPath(cfg.rules, i) = rule.to.path
  BY <1>1, <1>6, <1>7, DestinationIsLocal
<1>10. rule.to.path # <<>>
  BY <1>1, <1>3, <1>7, Loaded DEF LoadedRule
<1>11. Sends(i, f.rule, kinds)
  BY <1>1, <1>3, <1>4, <1>6, <1>7, <1>9, <1>10 DEF Sends, RedirectRules
<1>12. /\ i # NoRule /\ f.rule \in DOMAIN cfg.rules /\ f.host = NextHost(i, last.host)
       /\ (last.host \in Hosts => f.host \in Hosts)
  BY <1>3, <1>4, <1>5, <1>6, <1>8
<1>13. i = last.rule /\ f = FollowUp(last, Plain(kinds))
  BY <1>1, <1>2
<1>14. QED
  BY <1>7, <1>11, <1>12, <1>13

(* As long as rules answer they are rules, on hosts of the directory.      *)
Alive(t, m) == \A k \in 1 .. m : t[k].rule \in DOMAIN cfg.rules /\ t[k].host \in Hosts

LEMMA AliveBefore ==
  ASSUME VettingInv, cfg # NoConfig, NEW first \in FirstRequests, NEW kinds,
         NEW n \in Nat \ {0}, NEW m \in 1 .. n, Trail(first, Plain(kinds), n)[m].rule # NoRule
  PROVE  Alive(Trail(first, Plain(kinds), n), m)
<1>1. PICK t : t = Trail(first, Plain(kinds), n)
  OBVIOUS
<1>2. t[1] = first /\ \A k \in 2 .. n : t[k] = FollowUp(t[k - 1], Plain(kinds))
  BY <1>1, TrailByRounds
<1> DEFINE S == {k \in Nat : k \in 1 .. n /\ t[k].rule # NoRule /\ ~Alive(t, k)}
<1>3. SUFFICES ASSUME S # {} PROVE FALSE
  BY <1>1
<1>4. PICK k \in S : \A l \in S : k <= l
  <2>1. S \in SUBSET Nat
    OBVIOUS
  <2>2. QED
    BY <1>3, <2>1, LeastNatural
<1>5. k \in 1 .. n /\ t[k].rule # NoRule /\ ~Alive(t, k)
  BY <1>4
<1>6. k # 1
  <2>1. PICK host \in Hosts, path \in Paths : first = Request(host, path)
    BY DEF FirstRequests
  <2>2. first.rule = Answers(host, path) /\ first.host = host
    BY <2>1 DEF Request
  <2>3. first.rule # NoRule => first.rule \in DOMAIN cfg.rules
    BY <2>2, AnswersMeans
  <2>4. first.rule # NoRule => Alive(t, 1)
    <3>1. \A l \in 1 .. 1 : l = 1
      OBVIOUS
    <3>2. QED
      BY <1>2, <2>2, <2>3, <3>1 DEF Alive
  <2>5. QED
    BY <1>2, <1>5, <2>4
<1>7. k \in 2 .. n /\ k - 1 \in Nat /\ k - 1 \in 1 .. n /\ k - 1 < k
  BY <1>5, <1>6
<1>8. PICK last, f : last = t[k - 1] /\ f = FollowUp(last, Plain(kinds)) /\ f = t[k]
  BY <1>2, <1>7
<1>9. last.rule # NoRule
  <2>1. Final.rule = NoRule
    BY DEF Final
  <2>2. last.rule \in Plain(kinds)
    BY <1>5, <1>8, <2>1 DEF FollowUp
  <2>3. QED
    BY <2>2, NoRuleIsNone DEF Plain
<1>10. Alive(t, k - 1)
  <2>1. k - 1 \notin S
    BY <1>4, <1>7
  <2>2. QED
    BY <1>7, <1>8, <1>9, <2>1
<1>11. last.rule \in DOMAIN cfg.rules /\ last.host \in Hosts
  BY <1>7, <1>8, <1>10 DEF Alive
<1>12. f.rule \in DOMAIN cfg.rules /\ f.host \in Hosts
  BY <1>5, <1>8, <1>11, FollowUpMeans
<1>13. \A l \in 1 .. k : l = k \/ l \in 1 .. k - 1
  BY <1>5
<1>14. Alive(t, k)
  BY <1>8, <1>10, <1>12, <1>13 DEF Alive
<1>15. QED
  BY <1>5, <1>14

(* A client that goes on for long enough has been where it is.             *)
LEMMA Repeats ==
  ASSUME VettingInv, cfg # NoConfig, NEW first \in FirstRequests, NEW kinds,
         NEW once, once = Enough,
         NEW t, t = Trail(first, Plain(kinds), 2 * once),
         NEW last \in once .. 2 * once, t[last].rule # NoRule
  PROVE  /\ once \in Nat \ {0} /\ Alive(t, once)
         /\ \E d \in 1 .. once - 1 : \A x \in once + 1 - d .. 2 * once - d : t[x + d] = t[x]
<1>1. PICK r, h, p : r = Len(cfg.rules) /\ h = Cardinality(Hosts) /\ p = r * h
  OBVIOUS
<1>2. r \in Nat /\ h \in Nat /\ DOMAIN cfg.rules = 1 .. r
  <2>1. h \in Nat
    BY <1>1, BoundsAssumption, FS_CardinalityType
  <2>2. QED
    BY <1>1, <2>1, Loaded
<1>3. p \in Nat /\ once = p + 1
  <2>1. r * h \in Nat
    BY <1>2
  <2>2. QED
    BY <1>1, <2>1 DEF Enough
<1>4. once \in Nat \ {0} /\ 2 * once \in Nat \ {0} /\ last \in 1 .. 2 * once
  BY <1>3
<1>5. \A k \in 2 .. 2 * once : t[k] = FollowUp(t[k - 1], Plain(kinds))
  BY <1>4, TrailByRounds
<1>6. Alive(t, once)
  <2>1. Alive(t, last)
    BY <1>4, AliveBefore
  <2>2. \A k \in 1 .. once : k \in 1 .. last
    BY <1>4
  <2>3. QED
    BY <2>1, <2>2 DEF Alive
<1> DEFINE T == (1 .. r) \X Hosts
           f == [k \in 1 .. once |-> <<t[k].rule, t[k].host>>]
<1>7. f \in [1 .. once -> T]
  BY <1>2, <1>6 DEF Alive
<1>8. IsFiniteSet(T) /\ Cardinality(T) = p
  <2>1. IsFiniteSet(1 .. r) /\ Cardinality(1 .. r) = r
    BY <1>2, FS_Interval
  <2>2. QED
    BY <1>1, <2>1, BoundsAssumption, FS_Product
<1>9. IsFiniteSet(1 .. once) /\ Cardinality(1 .. once) = once
  <2>1. 1 \in Int /\ once \in Int /\ ~(1 > once) /\ once - 1 + 1 = once
    BY <1>4
  <2>2. QED
    BY <2>1, FS_Interval
<1>10. Cardinality(T) < Cardinality(1 .. once)
  BY <1>3, <1>8, <1>9
<1>11. \E k, l \in 1 .. once : k < l /\ f[k] = f[l]
  <2>1. PICK k, l \in 1 .. once : k # l /\ f[k] = f[l]
    <3> HIDE DEF f, T
    <3>1. PICK A : A = 1 .. once
      OBVIOUS
    <3>2. /\ f \in [A -> T] /\ IsFiniteSet(A) /\ IsFiniteSet(T)
          /\ Cardinality(T) < Cardinality(A)
      BY <1>7, <1>8, <1>9, <1>10, <3>1
    <3>3. \E k, l \in A : k # l /\ f[k] = f[l]
      BY <3>2, FS_PigeonHole
    <3>4. QED
      BY <3>1, <3>3
  <2> HIDE DEF f
  <2>2. QED
    BY <2>1
<1>12. PICK k, l \in 1 .. once : k < l /\ t[k].rule = t[l].rule /\ t[k].host = t[l].host
  BY <1>11
<1> HIDE DEF f, T
<1>13. PICK d : d = l - k
  OBVIOUS
<1>19. /\ once \in Nat \ {0} /\ k \in 1 .. once /\ l \in 1 .. once /\ k < l
       /\ d \in 1 .. once - 1 /\ k + d = l
  BY <1>4, <1>12, <1>13
<1>14. FollowUp(t[k], Plain(kinds)) = FollowUp(t[l], Plain(kinds))
  BY <1>12, FollowUpForgets
<1>15. ASSUME NEW x \in once + 1 - d .. 2 * once - d
       PROVE  t[x + d] = t[x]
  <2> DEFINE S == {y \in Nat : y \in k + 1 .. 2 * once - d /\ t[y + d] # t[y]}
  <2>1. x \in k + 1 .. 2 * once - d /\ x \in Nat
    BY <1>19
  <2>2. SUFFICES ASSUME S # {} PROVE FALSE
    BY <2>1
  <2>3. PICK y \in S : \A z \in S : y <= z
    <3>1. S \in SUBSET Nat
      OBVIOUS
    <3>2. QED
      BY <2>2, <3>1, LeastNatural
  <2>4. y \in k + 1 .. 2 * once - d /\ t[y + d] # t[y] /\ y \in Nat
    BY <2>3
  <2>5. /\ y \in 2 .. 2 * once /\ y + d \in 2 .. 2 * once /\ (y + d) - 1 = (y - 1) + d
        /\ y - 1 \in Nat /\ y - 1 < y
    BY <1>19, <2>4
  <2>6. t[y] = FollowUp(t[y - 1], Plain(kinds)) /\ t[y + d] = FollowUp(t[(y - 1) + d], Plain(kinds))
    BY <1>5, <2>5
  <2>7. CASE y = k + 1
    <3>1. y - 1 = k /\ (y - 1) + d = l
      BY <1>19, <2>7
    <3>2. QED
      BY <1>14, <2>4, <2>6, <3>1
  <2>8. CASE y # k + 1
    <3>1. y - 1 \in k + 1 .. 2 * once - d
      BY <1>19, <2>4, <2>8
    <3>2. y - 1 \notin S
      BY <2>3, <2>5
    <3>3. t[(y - 1) + d] = t[y - 1]
      BY <2>5, <3>1, <3>2
    <3>4. QED
      BY <2>4, <2>6, <3>3
  <2>9. QED
    BY <2>7, <2>8
<1>16. QED
  BY <1>6, <1>19, <1>15

(* The rules of a loop, in the order of the client's requests.             *)
Ring(c, kinds) ==
  /\ c \in Seq(DOMAIN cfg.rules) /\ Len(c) > 1 /\ c[1] = c[Len(c)]
  /\ \A m \in 1 .. Len(c) - 1 : Sends(c[m], c[m + 1], kinds)

LEMMA LoopIsRing ==
  ASSUME VettingInv, cfg # NoConfig, NEW first \in FirstRequests, NEW kinds,
         LoopRules(first, kinds) # {}
  PROVE  \E c : Ring(c, kinds) /\ LoopRules(first, kinds) = Range(c)
<1>1. PICK once : once = Enough
  OBVIOUS
<1>2. PICK t : t = Trail(first, Plain(kinds), 2 * once)
  OBVIOUS
<1>3. LoopRules(first, kinds) = {t[x].rule : x \in once .. 2 * once} \ {NoRule}
  BY <1>1, <1>2 DEF LoopRules
<1>4. PICK last \in once .. 2 * once : t[last].rule # NoRule
  BY <1>3
<1>5. /\ once \in Nat \ {0} /\ Alive(t, once)
      /\ \E d \in 1 .. once - 1 : \A x \in once + 1 - d .. 2 * once - d : t[x + d] = t[x]
  BY <1>1, <1>2, <1>4, Repeats
<1>6. PICK d \in 1 .. once - 1 : \A x \in once + 1 - d .. 2 * once - d : t[x + d] = t[x]
  BY <1>5
<1>7. 2 * once \in Nat \ {0} /\ \A x \in 2 .. 2 * once : t[x] = FollowUp(t[x - 1], Plain(kinds))
  BY <1>2, <1>5, TrailByRounds
(* Every later request is one of the d requests before number once + d.    *)
<1>8. ASSUME NEW x \in once .. 2 * once
      PROVE  /\ \E m \in 1 .. d : t[x] = t[once + m - 1]
             /\ \E m \in 1 .. once : t[x] = t[m]
  <2> DEFINE Early(y) == /\ \E m \in 1 .. d : t[y] = t[once + m - 1]
                         /\ \E m \in 1 .. once : t[y] = t[m]
             S == {y \in Nat : y \in once .. 2 * once /\ ~Early(y)}
  <2>1. x \in Nat
    BY <1>5
  <2>2. SUFFICES ASSUME S # {} PROVE FALSE
    BY <2>1
  <2>3. PICK y \in S : \A z \in S : y <= z
    <3>1. S \in SUBSET Nat
      OBVIOUS
    <3>2. QED
      BY <2>2, <3>1, LeastNatural
  <2>4. y \in once .. 2 * once /\ y \in Nat /\ ~Early(y)
    BY <2>3
  <2>5. CASE y = once
    <3>1. 1 \in 1 .. d /\ once + 1 - 1 = once /\ once \in 1 .. once
      BY <1>5
    <3>2. QED
      BY <2>4, <2>5, <3>1
  <2>6. CASE y # once
    <3>1. /\ y - d \in once + 1 - d .. 2 * once - d /\ (y - d) + d = y
          /\ y - d \in Nat /\ y - d < y
      BY <1>5, <2>4, <2>6
    <3>2. t[y] = t[y - d]
      BY <1>6, <3>1
    <3>3. CASE y - d >= once
      <4>1. y - d \in once .. 2 * once
        BY <1>5, <2>4, <3>1, <3>3
      <4>2. y - d \notin S
        BY <2>3, <3>1
      <4>3. Early(y - d)
        BY <3>1, <4>1, <4>2
      <4>4. QED
        BY <2>4, <3>2, <4>3
    <3>4. CASE y - d < once
      <4>1. y - d \in 1 .. once
        BY <1>5, <3>1, <3>4, <2>4
      <4>2. y + 1 - once \in 1 .. d /\ once + (y + 1 - once) - 1 = y
        BY <1>5, <2>4, <3>4
      <4>3. QED
        BY <2>4, <3>2, <4>1, <4>2
    <3>5. QED
      BY <2>4, <1>5, <3>1, <3>3, <3>4
  <2>7. QED
    BY <2>5, <2>6
<1>9. \A x \in once .. 2 * once : t[x].rule \in DOMAIN cfg.rules /\ t[x].host \in Hosts
  BY <1>5, <1>8 DEF Alive
<1>10. NoRule \notin DOMAIN cfg.rules
  BY NoRuleIsNone
<1>11. LoopRules(first, kinds) = {t[x].rule : x \in once .. 2 * once}
  BY <1>3, <1>9, <1>10
<1> DEFINE c == [m \in 1 .. d + 1 |-> t[once + m - 1].rule]
<1>12. \A m \in 1 .. d + 1 : once + m - 1 \in once .. 2 * once
  BY <1>5
<1>13. c \in Seq(DOMAIN cfg.rules) /\ Len(c) = d + 1
  <2>1. d + 1 \in Nat
    BY <1>5
  <2>2. QED
    BY <1>9, <1>12, <2>1
<1>14. c[1] = c[d + 1]
  <2>1. 1 \in 1 .. d + 1 /\ d + 1 \in 1 .. d + 1 /\ once + (d + 1) - 1 = once + d /\ once + 1 - 1 = once
    BY <1>5
  <2>2. once \in once + 1 - d .. 2 * once - d
    BY <1>5
  <2>3. t[once + d] = t[once]
    BY <1>6, <2>2
  <2>4. QED
    BY <2>1, <2>3
<1>15. ASSUME NEW m \in 1 .. d PROVE Sends(c[m], c[m + 1], kinds)
  <2>1. m \in 1 .. d + 1 /\ m + 1 \in 1 .. d + 1
    BY <1>5
  <2>2. PICK x : x = once + m - 1
    OBVIOUS
  <2>3. /\ x \in once .. 2 * once /\ x + 1 \in once .. 2 * once /\ x + 1 \in 2 .. 2 * once
        /\ (x + 1) - 1 = x /\ once + (m + 1) - 1 = x + 1
    BY <1>5, <2>2
  <2>4. c[m] = t[x].rule /\ c[m + 1] = t[x + 1].rule
    BY <2>1, <2>2, <2>3
  <2>5. t[x + 1] = FollowUp(t[x], Plain(kinds))
    BY <1>7, <2>3
  <2>6. t[x].rule \in DOMAIN cfg.rules /\ FollowUp(t[x], Plain(kinds)).rule # NoRule
    BY <1>9, <1>10, <2>3, <2>5
  <2> HIDE DEF c
  <2>7. QED
    BY <2>4, <2>5, <2>6, FollowUpMeans
<1>16. LoopRules(first, kinds) = Range(c)
  <2>1. Range(c) = {c[m] : m \in 1 .. d + 1}
    BY DEF Range
  <2>2. \A m \in 1 .. d + 1 : c[m] \in LoopRules(first, kinds)
    BY <1>11, <1>12
  <2>3. ASSUME NEW x \in once .. 2 * once PROVE t[x].rule \in Range(c)
    <3>1. PICK m \in 1 .. d : t[x] = t[once + m - 1]
      BY <1>8
    <3>2. m \in 1 .. d + 1
      BY <1>5
    <3>3. c[m] = t[x].rule
      BY <3>1, <3>2
    <3>4. QED
      BY <2>1, <3>2, <3>3
  <2> HIDE DEF c
  <2>4. QED
    BY <1>11, <2>1, <2>2, <2>3
<1>17. Ring(c, kinds)
  <2>1. d + 1 > 1 /\ (d + 1) - 1 = d
    BY <1>5
  <2> HIDE DEF c
  <2>2. QED
    BY <1>13, <1>14, <1>15, <2>1 DEF Ring
<1>18. QED
  BY <1>16, <1>17

-----------------------------------------------------------------------------
(* Loops and the graph                                                     *)

(* What the linter sees of a rule that answers.                            *)
LEMMA AppliesMatches ==
  ASSUME VettingInv, cfg # NoConfig, NEW j \in DOMAIN cfg.rules, NEW host, NEW path,
         Served!Applies(j, host, path),
         cfg.rules[j].type = "glob" => cfg.rules[j].pattern.shape # "other"
  PROVE  PathMatchesRule(path, cfg.rules[j])
<1>1. PICK rule : rule = cfg.rules[j]
  OBVIOUS
<1>2. LoadedRule(rule)
  BY <1>1, Loaded
<1>3. /\ rule.type = "exact" => rule.path = path
      /\ rule.type = "prefix" => IsPrefix(rule.path, path)
      /\ rule.type \in {"regex", "glob"} => path \in rule.pattern.accepts
  BY <1>1, AppliesMeans
<1>4. rule.type = "glob" => GlobMatchesPath(rule.pattern, path)
  BY <1>1, <1>2, <1>3 DEF LoadedRule, GlobMatchesPath
<1>5. rule.type \in {"exact", "prefix", "regex", "glob"}
  BY <1>2 DEF LoadedRule
<1>6. PathMatchesRule(path, rule)
  BY <1>3, <1>4, <1>5 DEF PathMatchesRule
<1>7. QED
  BY <1>1, <1>6

(* On a ring every rule redirects, and is sent to by another.              *)
LEMMA RingFacts ==
  ASSUME NEW c, NEW kinds, Ring(c, kinds), NEW m \in 1 .. Len(c)
  PROVE  /\ c[m] \in RedirectRules(cfg.rules) /\ cfg.rules[c[m]].type \in kinds
         /\ \E k \in 1 .. Len(c) : Sends(c[m], c[k], kinds)
         /\ \E k \in 1 .. Len(c) : Sends(c[k], c[m], kinds)
<1>1. /\ Len(c) \in Nat /\ Len(c) > 1 /\ c[1] = c[Len(c)]
      /\ \A k \in 1 .. Len(c) - 1 : Sends(c[k], c[k + 1], kinds)
  BY DEF Ring
<1>2. \E k \in 1 .. Len(c) : Sends(c[m], c[k], kinds)
  <2>1. CASE m = Len(c)
    <3>1. 1 \in 1 .. Len(c) - 1 /\ 1 + 1 \in 1 .. Len(c)
      BY <1>1
    <3>2. QED
      BY <1>1, <2>1, <3>1
  <2>2. CASE m # Len(c)
    <3>1. m \in 1 .. Len(c) - 1 /\ m + 1 \in 1 .. Len(c)
      BY <1>1, <2>2
    <3>2. QED
      BY <1>1, <3>1
  <2>3. QED
    BY <2>1, <2>2
<1>3. \E k \in 1 .. Len(c) : Sends(c[k], c[m], kinds)
  <2>1. CASE m = 1
    <3>1. Len(c) - 1 \in 1 .. Len(c) - 1 /\ Len(c) - 1 \in 1 .. Len(c) /\ (Len(c) - 1) + 1 = Len(c)
      BY <1>1
    <3>2. Sends(c[Len(c) - 1], c[Len(c)], kinds)
      BY <1>1, <3>1
    <3>3. QED
      BY <1>1, <2>1, <3>1, <3>2
  <2>2. CASE m # 1
    <3>1. m - 1 \in 1 .. Len(c) - 1 /\ m - 1 \in 1 .. Len(c) /\ (m - 1) + 1 = m
      BY <1>1, <2>2
    <3>2. Sends(c[m - 1], c[m], kinds)
      BY <1>1, <3>1
    <3>3. QED
      BY <3>1, <3>2
  <2>3. QED
    BY <2>1, <2>2
<1>4. QED
  BY <1>2, <1>3 DEF Sends

LEMMA InvLoops == VettingInv => LoopsAreReported
<1> DEFINE kinds == {"exact", "prefix"}
<1> SUFFICES ASSUME VettingInv, Linted, NEW first \in FirstRequests,
                    Cardinality(LoopRules(first, kinds)) > 1
             PROVE  \E d \in cycles : \A i \in LoopRules(first, kinds) : Leads(i, d[1]) /\ Leads(d[1], i)
  BY DEF LoopsAreReported
<1>1. cfg # NoConfig /\ SearchDone /\ SearchInv
  BY DEF Linted, VettingInv
<1>2. LoopRules(first, kinds) # {}
  BY FS_EmptySet
<1>3. PICK c : Ring(c, kinds) /\ LoopRules(first, kinds) = Range(c)
  BY <1>1, <1>2, LoopIsRing
<1>4. PICK n : n = Len(cfg.rules)
  OBVIOUS
<1>5. /\ n \in Nat /\ n <= N /\ DOMAIN cfg.rules = 1 .. n
      /\ adj = BuildRedirectGraph(cfg.rules, Nodes)
  BY <1>1, <1>4, Loaded
<1>6. DOMAIN cfg.rules \subseteq Nodes
  BY <1>5, NAssumption DEF Nodes
<1>7. /\ c \in Seq(Nodes) /\ Len(c) \in Nat /\ Len(c) > 1 /\ c[1] = c[Len(c)]
      /\ DOMAIN c = 1 .. Len(c) /\ \A k \in 1 .. Len(c) : c[k] \in DOMAIN cfg.rules
  BY <1>3, <1>6 DEF Ring
<1>8. ASSUME NEW k \in 1 .. Len(c) - 1, c[k] # c[k + 1]
      PROVE  Edge(c[k], c[k + 1])
  <2>1. k \in 1 .. Len(c) /\ k + 1 \in 1 .. Len(c)
    BY <1>7
  <2>2. PICK i, j : i = c[k] /\ j = c[k + 1]
    OBVIOUS
  <2>3. /\ i \in RedirectRules(cfg.rules) /\ j \in RedirectRules(cfg.rules)
        /\ cfg.rules[j].type \in kinds /\ i \in DOMAIN cfg.rules /\ j \in DOMAIN cfg.rules
    BY <1>3, <1>7, <2>1, <2>2, RingFacts
  <2>4. Sends(i, j, kinds)
    BY <1>3, <2>2 DEF Ring
  <2>5. PICK path : path = DestinationPath(cfg.rules, i)
    OBVIOUS
  <2>6. path # <<>> /\ \E host : Served!Applies(j, host, path)
    BY <2>4, <2>5 DEF Sends
  <2>7. PathMatchesRule(path, cfg.rules[j])
    BY <1>1, <2>3, <2>6, AppliesMatches
  <2>8. Redirects(cfg.rules, i, j)
    BY <1>8, <2>2, <2>3, <2>5, <2>6, <2>7 DEF Redirects
  <2>9. \E l \in DOMAIN adj[i] : adj[i][l] = j
    BY <1>4, <1>5, <1>6, <2>3, <2>8, GraphFacts
  <2>10. QED
    BY <2>2, <2>9 DEF Edge
<1>9. Walk(c)
  BY <1>7, <1>8 DEF Walk
<1>10. \E a \in 1 .. Len(c) : c[a] # c[1]
  <2>1. SUFFICES ASSUME \A a \in 1 .. Len(c) : c[a] = c[1] PROVE FALSE
    OBVIOUS
  <2>2. 1 \in 1 .. Len(c)
    BY <1>7
  <2>3. Range(c) = {c[1]}
    BY <1>7, <2>1, <2>2 DEF Range
  <2>4. Cardinality(Range(c)) = 1
    BY <2>3, FS_Singleton
  <2>5. QED
    BY <1>3, <2>4
<1>11. PICK d \in cycles : \A k \in 1 .. Len(c) : Leads(c[k], d[1]) /\ Leads(d[1], c[k])
  BY <1>1, <1>7, <1>9, <1>10, CircleIsReported
<1>12. QED
  BY <1>3, <1>7, <1>11 DEF Range

(* Of at most two rules one is the other's successor and predecessor.      *)
LEMMA TwoAtMost ==
  ASSUME NEW S, IsFiniteSet(S), Cardinality(S) <= 2, NEW i \in S, NEW j \in S, NEW p \in S, i # j, i # p
  PROVE  j = p
<1> SUFFICES ASSUME j # p PROVE FALSE
  OBVIOUS
<1>1. IsFiniteSet({i}) /\ Cardinality({i}) = 1
  BY FS_Singleton
<1>2. IsFiniteSet({i} \union {j}) /\ Cardinality({i} \union {j}) = 2
  <2>1. /\ IsFiniteSet({i} \union {j})
        /\ Cardinality({i} \union {j}) = IF j \in {i} THEN Cardinality({i}) ELSE Cardinality({i}) + 1
    BY <1>1, FS_AddElement
  <2>2. j \notin {i}
    OBVIOUS
  <2>3. QED
    BY <1>1, <2>1, <2>2
<1>3. PICK T : T = ({i} \union {j}) \union {p}
  OBVIOUS
<1>4. Cardinality(T) = 3
  <2>1. Cardinality(T) = IF p \in {i} \union {j} THEN Cardinality({i} \union {j})
                                                 ELSE Cardinality({i} \union {j}) + 1
    BY <1>2, <1>3, FS_AddElement
  <2>2. p \notin {i} \union {j}
    OBVIOUS
  <2>3. QED
    BY <1>2, <2>1, <2>2
<1>5. Cardinality(T) <= Cardinality(S)
  <2>1. T \in SUBSET S
    BY <1>3
  <2>2. QED
    BY <2>1, FS_Subset
<1>6. Cardinality(S) \in Nat
  BY FS_CardinalityType
<1>7. QED
  BY <1>4, <1>5, <1>6

LEMMA InvPatterns == VettingInv => PatternLoopsAreWarned
<1> DEFINE kinds == {"exact", "prefix", "regex", "glob"}
           loop(first) == LoopRules(first, kinds)
<1> SUFFICES ASSUME VettingInv, Linted, NEW first \in FirstRequests, Cardinality(loop(first)) <= 2,
                    \A j \in loop(first) :
                      cfg.rules[j].type = "glob" => cfg.rules[j].pattern.shape # "other",
                    NEW i \in loop(first), cfg.rules[i].type \in {"regex", "glob"}
             PROVE  i \in PatternCycles(cfg.rules)
  BY DEF PatternLoopsAreWarned
<1>1. cfg # NoConfig
  BY DEF Linted
<1>2. PICK c : Ring(c, kinds) /\ loop(first) = Range(c)
  BY <1>1, LoopIsRing
<1>3. PICK n : n = Len(cfg.rules)
  OBVIOUS
<1>4. n \in Nat /\ DOMAIN cfg.rules = 1 .. n
  BY <1>1, <1>3, Loaded
<1>5. DOMAIN c = 1 .. Len(c) /\ \A k \in 1 .. Len(c) : c[k] \in DOMAIN cfg.rules
  BY <1>2 DEF Ring
<1>6. IsFiniteSet(loop(first))
  <2>1. IsFiniteSet(1 .. n)
    BY <1>4, FS_Interval
  <2>2. loop(first) \in SUBSET (1 .. n)
    BY <1>2, <1>4, <1>5 DEF Range
  <2>3. QED
    BY <2>1, <2>2, FS_Subset
<1>7. PICK m \in 1 .. Len(c) : c[m] = i
  BY <1>2, <1>5 DEF Range
<1>8. /\ i \in RedirectRules(cfg.rules)
      /\ \E j \in loop(first) : Sends(i, j, kinds)
      /\ \E p \in loop(first) : Sends(p, i, kinds)
  <2>1. \A k \in 1 .. Len(c) : c[k] \in loop(first)
    BY <1>2, <1>5 DEF Range
  <2>2. QED
    BY <1>2, <1>7, <2>1, RingFacts
<1>9. ASSUME NEW x \in loop(first), NEW y \in loop(first), Sends(x, y, kinds)
      PROVE  /\ DestinationPath(cfg.rules, x) # <<>>
             /\ PathMatchesRule(DestinationPath(cfg.rules, x), cfg.rules[y])
             /\ x \in RedirectRules(cfg.rules)
  <2>1. PICK host : Served!Applies(y, host, DestinationPath(cfg.rules, x))
    BY <1>9 DEF Sends
  <2>2. y \in DOMAIN cfg.rules /\ (cfg.rules[y].type = "glob" => cfg.rules[y].pattern.shape # "other")
    BY <1>9 DEF Sends
  <2>3. PathMatchesRule(DestinationPath(cfg.rules, x), cfg.rules[y])
    BY <1>1, <2>1, <2>2, AppliesMatches
  <2>4. QED
    BY <1>9, <2>3 DEF Sends
<1>10. PICK j \in loop(first) : Sends(i, j, kinds)
  BY <1>8
<1>11. PICK p \in loop(first) : Sends(p, i, kinds)
  BY <1>8
<1> HIDE DEF loop, kinds
<1>12. CASE j = i
  BY <1>8, <1>9, <1>10, <1>12 DEF PatternCycles
<1>13. CASE p = i
  BY <1>8, <1>9, <1>11, <1>13 DEF PatternCycles
<1>14. CASE j # i /\ p # i
  <2>1. j = p
    BY <1>6, <1>14, TwoAtMost
  <2>2. QED
    BY <1>8, <1>9, <1>10, <1>11, <1>14, <2>1 DEF PatternCycles
<1>15. QED
  BY <1>12, <1>13, <1>14

-----------------------------------------------------------------------------
(* A directory and one file                                                *)

FlattenStages(seqs, n, f) ==
  f = [k \in 1 .. n |-> IF k = 1 THEN seqs[k] ELSE f[k - 1] \o seqs[k]]

LEMMA FlattenStagesExist ==
  ASSUME NEW seqs, NEW n \in Nat
  PROVE  \E f : FlattenStages(seqs, n, f)
<1> DEFINE S == {m \in Nat : ~\E f : FlattenStages(seqs, m, f)}
<1>1. SUFFICES ASSUME S # {} PROVE FALSE
  OBVIOUS
<1>2. PICK m \in S : \A k \in S : m <= k
  <2>1. S \in SUBSET Nat
    OBVIOUS
  <2> HIDE DEF S
  <2>2. QED
    BY <1>1, <2>1, LeastNatural
<1>3. m # 0
  <2>1. FlattenStages(seqs, 0, [k \in 1 .. 0 |-> seqs[k]])
    BY DEF FlattenStages
  <2>2. QED
    BY <1>2, <2>1
<1>4. PICK g : FlattenStages(seqs, m - 1, g)
  <2>1. m - 1 \in Nat /\ m - 1 \notin S
    BY <1>2, <1>3
  <2>2. QED
    BY <2>1
<1> DEFINE last == IF m = 1 THEN seqs[m] ELSE g[m - 1] \o seqs[m]
           h == [k \in 1 .. m |-> IF k = m THEN last ELSE g[k]]
<1>5. m \in Nat \ {0}
  BY <1>2, <1>3
<1>6. ASSUME NEW k \in 1 .. m
      PROVE  h[k] = IF k = 1 THEN seqs[k] ELSE h[k - 1] \o seqs[k]
  <2>1. g = [l \in 1 .. m - 1 |-> IF l = 1 THEN seqs[l] ELSE g[l - 1] \o seqs[l]]
    BY <1>4 DEF FlattenStages
  <2>2. CASE k = m
    <3>1. h[m] = last /\ (k # 1 => h[m - 1] = g[m - 1])
      BY <1>5, <2>2
    <3>2. QED
      BY <1>5, <2>2, <3>1
  <2>3. CASE k # m
    <3>1. k \in 1 .. m - 1 /\ h[k] = g[k]
      BY <1>5, <2>3
    <3>2. g[k] = IF k = 1 THEN seqs[k] ELSE g[k - 1] \o seqs[k]
      BY <2>1, <3>1
    <3>3. k # 1 => h[k - 1] = g[k - 1]
      BY <1>5, <3>1
    <3>4. QED
      BY <3>1, <3>2, <3>3
  <2>4. QED
    BY <2>2, <2>3
<1>7. FlattenStages(seqs, m, h)
  BY <1>6 DEF FlattenStages
<1>8. QED
  BY <1>2, <1>7

Flatten(seqs) ==
  LET flatten[i \in 1 .. Len(seqs)] == IF i = 1 THEN seqs[i] ELSE flatten[i - 1] \o seqs[i]
  IN  flatten

LEMMA FlattenByRounds ==
  ASSUME NEW seqs, Len(seqs) \in Nat \ {0}
  PROVE  \E f : FlattenStages(seqs, Len(seqs), f) /\ FlattenSeq(seqs) = f[Len(seqs)]
<1>1. PICK f : FlattenStages(seqs, Len(seqs), f)
  BY FlattenStagesExist
<1>2. Flatten(seqs) = [i \in 1 .. Len(seqs) |->
                         IF i = 1 THEN seqs[i] ELSE Flatten(seqs)[i - 1] \o seqs[i]]
  BY <1>1, Zenon DEF Flatten, FlattenStages
<1>3. FlattenSeq(seqs) = Flatten(seqs)[Len(seqs)]
  BY DEF FlattenSeq, Flatten
<1>4. FlattenStages(seqs, Len(seqs), Flatten(seqs))
  BY <1>2 DEF FlattenStages
<1>5. QED
  BY <1>3, <1>4

(* The rules of a directory are those of its files one after the other.    *)
LEMMA MergedIsFlattened ==
  ASSUME NEW list, IsSeq(list), \A k \in DOMAIN list : IsSeq(list[k].rules)
  PROVE  MergeRounds(list)[Len(list)].rules = FlattenSeq([k \in DOMAIN list |-> list[k].rules])
<1>1. PICK n, seqs, m : n = Len(list) /\ seqs = [k \in DOMAIN list |-> list[k].rules]
                        /\ m = MergeRounds(list)
  OBVIOUS
<1>2. n \in Nat /\ DOMAIN list = 1 .. n
  BY <1>1 DEF IsSeq
<1>3. m[0] = NoConfig /\ \A k \in 1 .. n : m[k] = Merge(m[k - 1], list[k])
  BY <1>1, <1>2, MergedByRounds
<1>4. seqs \in Seq({list[k].rules : k \in 1 .. n}) /\ Len(seqs) = n
  BY <1>1, <1>2
<1>5. NoConfig.rules = <<>>
  BY DEF NoConfig
<1>6. \A k \in 1 .. n : m[k].rules = m[k - 1].rules \o seqs[k]
  <2> SUFFICES ASSUME NEW k \in 1 .. n PROVE m[k].rules = m[k - 1].rules \o seqs[k]
    OBVIOUS
  <2>1. PICK before, after : before = m[k - 1] /\ after = m[k]
    OBVIOUS
  <2>2. after = Merge(before, list[k])
    BY <1>3, <2>1
  <2>3. after.rules = before.rules \o list[k].rules
    BY <2>2 DEF Merge
  <2>4. QED
    BY <1>1, <1>2, <2>1, <2>3
<1>7. CASE n = 0
  <2>1. seqs = <<>>
    BY <1>4, <1>7, EmptySeq
  <2>2. FlattenSeq(seqs) = seqs
    BY <1>4, <1>7 DEF FlattenSeq
  <2>3. QED
    BY <1>1, <1>3, <1>5, <1>7, <2>1, <2>2
<1>8. CASE n # 0
  <2>1. PICK f : FlattenStages(seqs, n, f) /\ FlattenSeq(seqs) = f[n]
    BY <1>2, <1>4, <1>8, FlattenByRounds
  <2>2. \A k \in 1 .. n : f[k] = IF k = 1 THEN seqs[k] ELSE f[k - 1] \o seqs[k]
    BY <2>1 DEF FlattenStages
  <2> DEFINE S == {k \in Nat : k \in 1 .. n /\ m[k].rules # f[k]}
  <2>3. S = {}
    <3>1. SUFFICES ASSUME S # {} PROVE FALSE
      OBVIOUS
    <3>2. PICK k \in S : \A l \in S : k <= l
      <4>1. S \in SUBSET Nat
        OBVIOUS
      <4>2. QED
        BY <3>1, <4>1, LeastNatural
    <3>3. k \in 1 .. n /\ m[k].rules # f[k]
      BY <3>2
    <3>4. m[k].rules = m[k - 1].rules \o seqs[k]
      BY <1>6, <3>3
    <3>5. CASE k = 1
      <4>1. IsSeq(seqs[1])
        BY <1>1, <1>2, <3>3, <3>5
      <4>2. <<>> \o seqs[1] = seqs[1]
        BY <4>1, ConcatEmptySeq DEF IsSeq
      <4>3. k - 1 = 0
        BY <3>5
      <4>4. QED
        BY <1>3, <1>5, <2>2, <3>3, <3>4, <3>5, <4>2, <4>3
    <3>6. CASE k # 1
      <4>1. k - 1 \in 1 .. n /\ k - 1 \in Nat /\ k - 1 < k
        BY <1>2, <3>3, <3>6
      <4>2. k - 1 \notin S
        BY <3>2, <4>1
      <4>3. m[k - 1].rules = f[k - 1]
        BY <4>1, <4>2
      <4>4. QED
        BY <2>2, <3>3, <3>4, <3>6, <4>3
    <3>7. QED
      BY <3>5, <3>6
  <2>4. m[n].rules = f[n]
    <3>1. n \in 1 .. n
      BY <1>2, <1>8
    <3>2. QED
      BY <1>2, <2>3, <3>1
  <2>5. QED
    BY <1>1, <2>1, <2>4
<1>9. QED
  BY <1>7, <1>8

(* After each of n files a section is s, file k has v[k] or none of it, and *)
(* only file w has any.                                                    *)
Section(n, s, v, none, w) ==
  /\ w \in 0 .. n /\ s[0] = none
  /\ \A k \in 1 .. n : v[k] = none => s[k] = s[k - 1]
  /\ \A k \in 1 .. n : v[k] # none /\ s[k - 1] = none => s[k] = v[k]
  /\ \A k \in 1 .. n : k # w => v[k] = none

LEMMA SectionByRounds ==
  ASSUME NEW n \in Nat, NEW s, NEW v, NEW none, NEW w, Section(n, s, v, none, w)
  PROVE  s[n] = IF w = 0 THEN none ELSE v[w]
<1>0. /\ w \in 0 .. n /\ s[0] = none
      /\ \A k \in 1 .. n : v[k] = none => s[k] = s[k - 1]
      /\ \A k \in 1 .. n : v[k] # none /\ s[k - 1] = none => s[k] = v[k]
      /\ \A k \in 1 .. n : k # w => v[k] = none
  BY DEF Section
<1> DEFINE OK(k) == s[k] = IF w \in 1 .. k THEN v[w] ELSE none
           S == {k \in Nat : k \in 0 .. n /\ ~OK(k)}
<1>1. OK(0)
  BY <1>0
<1>2. ASSUME NEW k \in 1 .. n, OK(k - 1) PROVE OK(k)
  <2>1. CASE k = w
    <3>1. w \notin 1 .. k - 1 /\ w \in 1 .. k
      BY <1>0, <2>1
    <3>2. s[k - 1] = none
      BY <1>2, <3>1
    <3>3. s[k] = v[w]
      BY <1>0, <2>1, <3>2
    <3>4. QED
      BY <3>1, <3>3
  <2>2. CASE k # w
    <3>1. w \in 1 .. k <=> w \in 1 .. k - 1
      BY <1>0, <2>2
    <3>2. s[k] = s[k - 1]
      BY <1>0, <2>2
    <3>3. QED
      BY <1>2, <3>1, <3>2
  <2>3. QED
    BY <2>1, <2>2
<1>3. OK(n)
  <2> HIDE DEF OK
  <2>1. SUFFICES ASSUME S # {} PROVE FALSE
    OBVIOUS
  <2>2. PICK k \in S : \A l \in S : k <= l
    <3>1. S \in SUBSET Nat
      OBVIOUS
    <3>2. QED
      BY <2>1, <3>1, LeastNatural
  <2>3. k \in 1 .. n /\ ~OK(k) /\ k - 1 \in Nat /\ k - 1 \in 0 .. n /\ k - 1 < k
    BY <1>1, <2>2
  <2>4. k - 1 \notin S
    BY <2>2, <2>3
  <2>5. OK(k - 1)
    BY <2>3, <2>4
  <2>6. QED
    BY <1>2, <2>3, <2>5
<1>4. w = 0 <=> w \notin 1 .. n
  BY <1>0
<1>5. QED
  BY <1>3, <1>4

First(section) == SelectInSeq(files, LAMBDA f : f[section] # NoConfig[section])

LEMMA OneAtMost ==
  ASSUME NEW S, IsFiniteSet(S), Cardinality(S) <= 1, NEW i \in S, NEW j \in S
  PROVE  i = j
<1>1. Cardinality(S) \in Nat /\ (Cardinality(S) = 0 <=> S = {})
  BY FS_CardinalityType, FS_EmptySet
<1>2. Cardinality(S) = 1
  BY <1>1
<1>3. QED
  BY <1>2, FS_Singleton

LEMMA FirstIsOnly ==
  ASSUME files \in Directories, NEW section, SetOnce(section)
  PROVE  /\ First(section) \in 0 .. Len(files)
         /\ \A k \in 1 .. Len(files) : k # First(section) => files[k][section] = NoConfig[section]
<1>1. PICK n : n = Len(files)
  OBVIOUS
<1>2. n \in Nat /\ DOMAIN files = 1 .. n
  <2>1. IsSeq(files)
    BY DirectoriesAssumption DEF IsSeq
  <2>2. QED
    BY <1>1, <2>1 DEF IsSeq
<1> DEFINE I == {k \in 1 .. n : files[k][section] # NoConfig[section]}
<1>3. First(section) = IF I # {} THEN Min(I) ELSE 0
  BY <1>1 DEF First, SelectInSeq
<1>4. I = {k \in DOMAIN files : files[k][section] # NoConfig[section]}
  BY <1>2
<1>5. Cardinality(I) <= 1
  BY <1>4 DEF SetOnce
<1>6. I \in SUBSET (1 .. n)
  OBVIOUS
<1>7. IsFiniteSet(I)
  <2> HIDE DEF I
  <2>1. IsFiniteSet(1 .. n)
    BY <1>2, FS_Interval
  <2>2. QED
    BY <1>6, <2>1, FS_Subset
<1>8. CASE I = {}
  BY <1>1, <1>2, <1>3, <1>8
<1>9. CASE I # {}
  <2>1. PICK i \in I : TRUE
    BY <1>9
  <2>2. \A k \in I : k = i
    <3> HIDE DEF I
    <3>1. QED
      BY <1>5, <1>7, OneAtMost
  <2>3. \A k \in I : i <= k
    BY <1>2, <2>2
  <2>4. Min(I) \in I
    <3> HIDE DEF I
    <3>1. QED
      BY <2>3 DEF Min
  <2>5. Min(I) = i
    <3> HIDE DEF I
    <3>1. QED
      BY <2>2, <2>4
  <2>6. First(section) = i
    BY <1>3, <1>9, <2>5
  <2>7. QED
    BY <1>1, <1>2, <2>2, <2>6
<1>10. QED
  BY <1>8, <1>9

LEMMA OneFileIs ==
  /\ OneFile.version = IF First("version") = 0 THEN 0 ELSE files[First("version")].version
  /\ OneFile.server = IF First("server") = 0 THEN NoConfig.server ELSE files[First("server")].server
  /\ OneFile.defaults = IF First("defaults") = 0 THEN NoConfig.defaults ELSE files[First("defaults")].defaults
  /\ OneFile.stats = IF First("stats") = 0 THEN 0 ELSE files[First("stats")].stats
  /\ OneFile.onlyOneFile = IF First("onlyOneFile") = 0 THEN 0 ELSE files[First("onlyOneFile")].onlyOneFile
  /\ OneFile.rules = FlattenSeq([k \in DOMAIN files |-> files[k].rules])
<1>1. /\ NoConfig.version = 0 /\ NoConfig.stats = 0 /\ NoConfig.onlyOneFile = 0
      /\ NoConfig["version"] = 0 /\ NoConfig["stats"] = 0
      /\ NoConfig["onlyOneFile"] = 0
  BY DEF NoConfig
<1>2. QED
  BY <1>1 DEF OneFile, First

LEMMA MergedIsOneFile ==
  ASSUME files \in Directories,
         SetOnce("version"), SetOnce("server"), SetOnce("defaults"), SetOnce("stats"),
         OneFile.onlyOneFile = 0, OneFile.defaults.preserveQuery => OneFile.defaults.status # 0,
         OneFile.server.management # 0 => OneFile.server.port # 0
  PROVE  MergeRounds(files)[Len(files)] = OneFile
<1>1. PICK n, m : n = Len(files) /\ m = MergeRounds(files)
  OBVIOUS
<1>2. /\ IsSeq(files)
      /\ \A k \in DOMAIN files : IsSeq(files[k].rules)
      /\ \A k \in DOMAIN files : files[k].defaults \in [status : Nat, preserveQuery : BOOLEAN]
      /\ \A k \in DOMAIN files : files[k].server \in [port : Nat, management : Nat]
  <2>1. \A k \in DOMAIN files : files[k] \in Range(files)
    BY DEF Range
  <2>2. QED
    BY <2>1, DirectoriesAssumption DEF IsSeq
<1>3. n \in Nat /\ DOMAIN files = 1 .. n
  BY <1>1, <1>2 DEF IsSeq
<1>4. m[0] = NoConfig /\ \A k \in 1 .. n : m[k] = Merge(m[k - 1], files[k])
  BY <1>1, <1>3, MergedByRounds
<1>5. ASSUME NEW k \in 1 .. n
      PROVE  /\ m[k].version = IF m[k - 1].version = 0 THEN files[k].version ELSE m[k - 1].version
             /\ m[k].server = IF m[k - 1].server.port = 0 /\ files[k].server.port # 0
                                THEN files[k].server ELSE m[k - 1].server
             /\ m[k].defaults = IF files[k].defaults.status # 0 THEN files[k].defaults
                                                                 ELSE m[k - 1].defaults
             /\ m[k].stats = IF files[k].stats # 0 THEN files[k].stats ELSE m[k - 1].stats
             /\ m[k].onlyOneFile = m[k - 1].onlyOneFile
  <2>1. PICK before, after, file : before = m[k - 1] /\ after = m[k] /\ file = files[k]
    OBVIOUS
  <2>2. after = Merge(before, file)
    BY <1>4, <2>1
  <2>3. /\ after.version = IF before.version = 0 THEN file.version ELSE before.version
        /\ after.server = IF before.server.port = 0 /\ file.server.port # 0
                            THEN file.server ELSE before.server
        /\ after.defaults = IF file.defaults.status # 0 THEN file.defaults ELSE before.defaults
        /\ after.stats = IF file.stats # 0 THEN file.stats ELSE before.stats
        /\ after.onlyOneFile = before.onlyOneFile
    BY <2>2 DEF Merge
  <2>4. QED
    BY <2>1, <2>3
<1>6. /\ m[0].version = 0 /\ m[0].stats = 0 /\ m[0].onlyOneFile = 0
      /\ m[0].defaults = NoConfig.defaults /\ m[0].server = NoConfig.server
      /\ NoConfig["version"] = 0 /\ NoConfig["stats"] = 0
      /\ NoConfig["defaults"] = NoConfig.defaults /\ NoConfig["server"] = NoConfig.server
      /\ NoConfig.server = [port |-> 0, management |-> 0]
      /\ NoConfig.defaults = [status |-> 0, preserveQuery |-> FALSE]
  BY <1>4 DEF NoConfig
<1>7. m[n].version = OneFile.version
  <2>1. PICK s, v, w : /\ s = [k \in 0 .. n |-> m[k].version] /\ v = [k \in 1 .. n |-> files[k].version]
                       /\ w = First("version")
    OBVIOUS
  <2>2. w \in 0 .. n /\ \A k \in 1 .. n : k # w => v[k] = 0
    BY <1>1, <1>6, <2>1, FirstIsOnly
  <2>3. s[0] = 0 /\ s[n] = m[n].version
    BY <1>3, <1>6, <2>1
  <2>4. \A k \in 1 .. n : s[k] = IF s[k - 1] = 0 THEN v[k] ELSE s[k - 1]
    BY <1>3, <1>5, <2>1
  <2>5. Section(n, s, v, 0, w)
    BY <2>2, <2>3, <2>4 DEF Section
  <2>7. s[n] = IF w = 0 THEN 0 ELSE v[w]
    BY <1>3, <2>5, SectionByRounds
  <2>8. QED
    BY <2>1, <2>2, <2>3, <2>7, OneFileIs
(* A server section without a port is lost, but then it is none.           *)
<1>8. m[n].server = OneFile.server
  <2>1. PICK s, v, w, none : /\ s = [k \in 0 .. n |-> m[k].server]
                             /\ v = [k \in 1 .. n |-> files[k].server]
                             /\ w = First("server") /\ none = NoConfig.server
    OBVIOUS
  <2>2. w \in 0 .. n /\ \A k \in 1 .. n : k # w => v[k] = none
    BY <1>1, <1>6, <2>1, FirstIsOnly
  <2>3. s[0] = none /\ s[n] = m[n].server
    BY <1>3, <1>6, <2>1
  <2>4. \A k \in 1 .. n : s[k] = IF s[k - 1].port = 0 /\ v[k].port # 0 THEN v[k] ELSE s[k - 1]
    BY <1>3, <1>5, <2>1
  <2>5. \A k \in 1 .. n : v[k] = none <=> v[k].port = 0
    <3> SUFFICES ASSUME NEW k \in 1 .. n PROVE v[k] = none <=> v[k].port = 0
      OBVIOUS
    <3>1. PICK d : d = v[k]
      OBVIOUS
    <3>2. d \in [port : Nat, management : Nat]
      BY <1>2, <1>3, <2>1, <3>1
    <3>3. none = [port |-> 0, management |-> 0]
      BY <1>6, <2>1
    <3>4. d = none => d.port = 0
      BY <3>3
    <3>5. ASSUME d.port = 0, d # none PROVE FALSE
      <4>1. d.management # 0
        BY <3>2, <3>3, <3>5
      <4>2. k = w /\ w # 0
        BY <2>2, <3>1, <3>5
      <4>3. OneFile.server = d
        BY <2>1, <3>1, <4>2, OneFileIs
      <4>4. QED
        BY <3>5, <4>1, <4>3
    <3>6. QED
      BY <3>1, <3>4, <3>5
  <2>6. none.port = 0
    BY <1>6, <2>1
  <2>7. Section(n, s, v, none, w)
    BY <2>2, <2>3, <2>4, <2>5, <2>6 DEF Section
  <2>8. s[n] = IF w = 0 THEN none ELSE v[w]
    BY <1>3, <2>7, SectionByRounds
  <2>9. QED
    BY <2>1, <2>2, <2>3, <2>8, OneFileIs
<1>9. m[n].stats = OneFile.stats
  <2>1. PICK s, v, w : /\ s = [k \in 0 .. n |-> m[k].stats] /\ v = [k \in 1 .. n |-> files[k].stats]
                       /\ w = First("stats")
    OBVIOUS
  <2>2. w \in 0 .. n /\ \A k \in 1 .. n : k # w => v[k] = 0
    BY <1>1, <1>6, <2>1, FirstIsOnly
  <2>3. s[0] = 0 /\ s[n] = m[n].stats
    BY <1>3, <1>6, <2>1
  <2>4. \A k \in 1 .. n : s[k] = IF v[k] # 0 THEN v[k] ELSE s[k - 1]
    BY <1>3, <1>5, <2>1
  <2>5. Section(n, s, v, 0, w)
    BY <2>2, <2>3, <2>4 DEF Section
  <2>7. s[n] = IF w = 0 THEN 0 ELSE v[w]
    BY <1>3, <2>5, SectionByRounds
  <2>8. QED
    BY <2>1, <2>2, <2>3, <2>7, OneFileIs
(* Defaults without a status are lost, but then they are none.             *)
<1>10. m[n].defaults = OneFile.defaults
  <2>1. PICK s, v, w, none : /\ s = [k \in 0 .. n |-> m[k].defaults]
                             /\ v = [k \in 1 .. n |-> files[k].defaults]
                             /\ w = First("defaults") /\ none = NoConfig.defaults
    OBVIOUS
  <2>2. w \in 0 .. n /\ \A k \in 1 .. n : k # w => v[k] = none
    BY <1>1, <1>6, <2>1, FirstIsOnly
  <2>3. s[0] = none /\ s[n] = m[n].defaults
    BY <1>3, <1>6, <2>1
  <2>4. \A k \in 1 .. n : s[k] = IF v[k].status # 0 THEN v[k] ELSE s[k - 1]
    BY <1>3, <1>5, <2>1
  <2>5. \A k \in 1 .. n : v[k] = none <=> v[k].status = 0
    <3> SUFFICES ASSUME NEW k \in 1 .. n PROVE v[k] = none <=> v[k].status = 0
      OBVIOUS
    <3>1. PICK d : d = v[k]
      OBVIOUS
    <3>2. d \in [status : Nat, preserveQuery : BOOLEAN]
      BY <1>2, <1>3, <2>1, <3>1
    <3>3. none = [status |-> 0, preserveQuery |-> FALSE]
      BY <1>6, <2>1
    <3>4. d = none => d.status = 0
      BY <3>3
    <3>5. ASSUME d.status = 0, d # none PROVE FALSE
      <4>1. d.preserveQuery = TRUE
        BY <3>2, <3>3, <3>5
      <4>2. k = w /\ w # 0
        BY <2>2, <3>1, <3>5
      <4>3. OneFile.defaults = d
        BY <2>1, <3>1, <4>2, OneFileIs
      <4>4. QED
        BY <3>5, <4>1, <4>3
    <3>6. QED
      BY <3>1, <3>4, <3>5
  <2>6. Section(n, s, v, none, w)
    BY <2>2, <2>3, <2>4, <2>5 DEF Section
  <2>7. s[n] = IF w = 0 THEN none ELSE v[w]
    BY <1>3, <2>6, SectionByRounds
  <2>8. QED
    BY <2>1, <2>2, <2>3, <2>7, OneFileIs
<1>11. m[n].onlyOneFile = OneFile.onlyOneFile
  <2> DEFINE S == {k \in Nat : k \in 0 .. n /\ m[k].onlyOneFile # 0}
  <2>1. SUFFICES ASSUME S # {} PROVE FALSE
    BY <1>3
  <2>2. PICK k \in S : \A l \in S : k <= l
    <3>1. S \in SUBSET Nat
      OBVIOUS
    <3>2. QED
      BY <2>1, <3>1, LeastNatural
  <2>3. k \in 1 .. n /\ k - 1 \in Nat /\ k - 1 \in 0 .. n /\ k - 1 < k /\ m[k].onlyOneFile # 0
    BY <1>3, <1>6, <2>2
  <2>4. k - 1 \notin S
    BY <2>2, <2>3
  <2>5. QED
    BY <1>5, <2>3, <2>4
<1>12. m[n].rules = OneFile.rules
  BY <1>1, <1>2, MergedIsFlattened, OneFileIs
<1>13. ConfigRecord(m[n]) /\ ConfigRecord(OneFile)
  <2>1. n \in 0 .. Len(files)
    BY <1>1, <1>3
  <2>2. ConfigRecord(m[n])
    BY <1>1, <1>2, <2>1, MergedRules
  <2>3. ConfigRecord(OneFile)
    BY DEF OneFile, ConfigRecord
  <2>4. QED
    BY <2>2, <2>3
<1>14. QED
  BY <1>1, <1>7, <1>8, <1>9, <1>10, <1>11, <1>12, <1>13 DEF ConfigRecord

LEMMA InvOneFile == VettingInv => DirectoryIsOneFile
<1> SUFFICES ASSUME VettingInv,
                    \A section \in {"version", "server", "defaults", "stats"} : SetOnce(section),
                    OneFile.onlyOneFile = 0,
                    OneFile.defaults.preserveQuery => OneFile.defaults.status # 0,
                    OneFile.server.management # 0 => OneFile.server.port # 0
             PROVE  LoadDirectory(files) = Load(OneFile)
  BY DEF DirectoryIsOneFile
<1>1. MergeRounds(files)[Len(files)] = OneFile
  BY MergedIsOneFile DEF VettingInv
<1>2. QED
  BY <1>1 DEF LoadDirectory, Load

-----------------------------------------------------------------------------
(* What the linter promises                                                *)

(* Whatever the rules of a directory, the hosts and the paths requested, a *)
(* client that at least two rules send round, all of them exact rules or   *)
(* prefix rules that append nothing to their destination, meets rules      *)
(* around a reported cycle (lint.go lines 490-605).                        *)
THEOREM LoopsAreForetold == Spec => []LoopsAreReported
BY VettingAlways, InvLoops, PTL

(* Whatever the rules, a preserve_path rule whose answer it answers again  *)
(* with a path no shorter is reported (lint.go lines 649-681).             *)
THEOREM GrowthIsForetold == Spec => []GrowingLoopsAreReported
BY VettingAlways, InvGrowing, PTL

(* Whatever the rules, a pattern rule without captures in a loop of at most*)
(* two rules is warned of, unless a glob with stars inside or a rule that  *)
(* appends to its destination is in it (lint.go lines 685-761).            *)
THEOREM PatternsAreForetold == Spec => []PatternLoopsAreWarned
BY VettingAlways, InvPatterns, PTL

(* Whatever the rules, one of two that the router answers all it covers    *)
(* with the other, of its kind and priority, has a warning (lint.go lines  *)
(* 131-198).                                                               *)
THEOREM SilenceIsForetold == Spec => []SilencedIsWarned
BY VettingAlways, InvSilenced, PTL

(* However many files and rules, a directory in which no section stands    *)
(* twice is loaded as the one file of all it holds (config.go lines        *)
(* 162-289), but for the sections that the merge does not take over and    *)
(* those it loses: defaults without a status, a server without a port.     *)
THEOREM DirectoriesAreFiles == Spec => []DirectoryIsOneFile
BY VettingAlways, InvOneFile, PTL
=============================================================================
