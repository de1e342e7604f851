---------------------------- MODULE CycleSearch ----------------------------
(***************************************************************************)
(* findCycles of internal/lint/lint.go: a depth-first search with three    *)
(* colours over the graph of redirects, step by step.  A call of the       *)
(* inner function dfs is a node on "stack"; "next" is where its loop over  *)
(* adj[u] stands.  Rules are known by their numbers; Validate makes their  *)
(* IDs unique, so a number stands for an ID as well.                       *)
(***************************************************************************)
EXTENDS Naturals, Sequences

CONSTANT N               \* the nodes are 1 .. N

ASSUME NAssumption == N \in Nat

VARIABLES
  adj,                   \* adj[u]: the successors of u, in order
  color,                 \* "white" unvisited, "gray" on the stack, "black" done
  stack,                 \* the nodes of the calls in progress
  next,                  \* next[u]: the position of adj[u] to look at next
  cycles,                \* the cycles reported
  finished,              \* history: when each node became black
  clock                  \* history: the nodes that are black

searchVars == <<color, stack, next, cycles, finished, clock>>

Nodes == 1 .. N

Top == stack[Len(stack)]

Edge(u, v) == \E k \in DOMAIN adj[u] : adj[u][k] = v

StartSearch ==
  /\ color = [u \in Nodes |-> "white"]
  /\ stack = <<>>
  /\ next = [u \in Nodes |-> 1]
  /\ cycles = {}
  /\ finished = [u \in Nodes |-> 0]
  /\ clock = 0

-----------------------------------------------------------------------------
(* ExtractCycle without the node the edge comes from.                      *)
ExtractCycleOpen(start) ==
  LET i == CHOOSE k \in DOMAIN stack : stack[k] = start
  IN  SubSeq(stack, i + 1, Len(stack)) \o <<start>>

(* The part of the stack from start on, closed by start again.             *)
ExtractCycle(start) ==
  LET i == CHOOSE k \in DOMAIN stack : stack[k] = start
  IN  SubSeq(stack, i, Len(stack)) \o <<start>>

(* Two cycles are one if they run through the same nodes in the same order:*)
(* the key is the rotation that begins with the least.                     *)
CycleKey(cycle) ==
  LET n     == Len(cycle) - 1
      least == CHOOSE k \in 1 .. n : \A l \in 1 .. n : cycle[k] <= cycle[l]
  IN  [k \in 1 .. n |-> cycle[((k + least - 2) % n) + 1]]

Enter(u) ==
  /\ color' = [color EXCEPT ![u] = "gray"]
  /\ stack' = Append(stack, u)

(* The outer loop: the first rule not visited yet.                         *)
Root(u) ==
  /\ stack = <<>>
  /\ color[u] = "white"
  /\ \A v \in Nodes : v < u => color[v] # "white"
  /\ Enter(u)
  /\ UNCHANGED <<adj, next, cycles, finished, clock>>

(* The next successor of the node on top of the stack is v.                *)
Looking(v) ==
  /\ stack # <<>>
  /\ next[Top] <= Len(adj[Top])
  /\ v = adj[Top][next[Top]]
  /\ next' = [next EXCEPT ![Top] = @ + 1]
  /\ UNCHANGED <<adj, finished, clock>>

(* Report with the cycle kept only if it goes back to the first rule.      *)
ReportFromRootOnly(v) ==
  /\ Looking(v)
  /\ color[v] = "gray"
  /\ cycles' = IF v = stack[1] THEN cycles \union {ExtractCycle(v)} ELSE cycles
  /\ UNCHANGED <<color, stack>>

Report(v) ==
  /\ Looking(v)
  /\ color[v] = "gray"
  /\ cycles' = IF \E c \in cycles : CycleKey(c) = CycleKey(ExtractCycle(v))
                 THEN cycles ELSE cycles \union {ExtractCycle(v)}
  /\ UNCHANGED <<color, stack>>

Descend(v) ==
  /\ Looking(v)
  /\ color[v] = "white"
  /\ Enter(v)
  /\ UNCHANGED cycles

Skip(v) ==
  /\ Looking(v)
  /\ color[v] = "black"
  /\ UNCHANGED <<color, stack, cycles>>

Return ==
  /\ stack # <<>>
  /\ next[Top] > Len(adj[Top])
  /\ color' = [color EXCEPT ![Top] = "black"]
  /\ stack' = SubSeq(stack, 1, Len(stack) - 1)
  /\ finished' = [finished EXCEPT ![Top] = clock]
  /\ clock' = clock + 1
  /\ UNCHANGED <<adj, next, cycles>>

SearchDone == stack = <<>> /\ \A u \in Nodes : color[u] # "white"

Search ==
  \/ Return
  \/ \E v \in Nodes : Root(v) \/ Report(v) \/ Descend(v) \/ Skip(v)

SearchInit ==
  /\ adj \in [Nodes -> Seq(Nodes)]
  /\ StartSearch

SearchSpec == SearchInit /\ [][Search]_<<adj, searchVars>>

-----------------------------------------------------------------------------
(* Properties                                                              *)

(* A cycle that is reported is one: each rule on it redirects to the next  *)
(* and the last is the first again (extractCycle, lines 610-620, relies on *)
(* the stack being a path).                                                *)
ReportedIsCycle ==
  \A c \in cycles :
    /\ Len(c) > 1 /\ c[1] = c[Len(c)]
    /\ \A k \in 1 .. Len(c) - 1 : Edge(c[k], c[k + 1])

(* A search that reports nothing has ordered the rules so that each        *)
(* redirects only to rules finished before it: the graph has no cycle.     *)
(* This is where skipping black nodes could go wrong (lines 580-596).      *)
SilentIsAcyclic ==
  SearchDone /\ cycles = {} =>
    \A u, v \in Nodes : Edge(u, v) => finished[v] < finished[u]
=============================================================================
