------------------------------ MODULE IBBGraph ------------------------------
(***************************************************************************)
(* The block graph of the interprocedural dominator analysis               *)
(* (condition_extractor/src: inferSubGraph of GenericDominatorTy.cpp and   *)
(* IBBG.cpp).  The nodes of an interprocedural control flow graph (ICFG),  *)
(* which SVF builds, are grouped function by function into straight        *)
(* blocks, and the edges of the ICFG become edges between blocks.          *)
(*                                                                         *)
(* The ICFG is given: the part of it that the entry function reaches by    *)
(* direct calls.  pruneUnreachableFunctions, which takes the call edges of *)
(* the other functions away for the time of the analysis, is left out:     *)
(* blocks get edges from blocks only.                                      *)
(***************************************************************************)
EXTENDS Naturals, Sequences, FiniteSets

CONSTANT Icfgs  \* the graphs to analyse, see IcfgsAssumption

External == "external"  \* the function of a call site without a body

\* A graph has nodes, a function main, the entry and exit node of every function, the edges inside
\* functions, and the call sites: the call and the return node and the function called.
ASSUME IcfgsAssumption ==
  \A i \in Icfgs :
    /\ IsFiniteSet(i.nodes)
    /\ DOMAIN i.entry = DOMAIN i.exit /\ i.main \in DOMAIN i.entry /\ External \notin DOMAIN i.entry
    /\ \A f \in DOMAIN i.entry : {i.entry[f], i.exit[f]} \subseteq i.nodes
    /\ i.intra \subseteq i.nodes \X i.nodes
    /\ IsFiniteSet(i.sites)
    /\ \A s \in i.sites : {s.call, s.ret} \subseteq i.nodes /\ s.fun \in DOMAIN i.entry \cup {External}
    /\ \A s, t \in i.sites : s.call = t.call => s.ret = t.ret

\* What a node is for: entries, exits, calls and returns are different nodes.  Only a return edge
\* leaves an exit, only a call edge leads to an entry, and what follows a call is its callees or its
\* return node.
ASSUME NodeKindsAssumption ==
  \A i \in Icfgs :
    LET entries == {i.entry[f] : f \in DOMAIN i.entry}
        exits == {i.exit[f] : f \in DOMAIN i.exit}
        calls == {s.call : s \in i.sites}
        rets == {s.ret : s \in i.sites}
    IN /\ entries \cap (exits \cup calls \cup rets) = {} /\ exits \cap (calls \cup rets) = {} /\ calls \cap rets = {}
       /\ \A e \in i.intra : e[1] \notin exits \cup calls /\ e[2] \notin entries \cup rets

\* Every node belongs to a function: intra-procedural edges and calls with their returns stay inside one.
OwnedBy(i, owner) ==
  /\ \A f \in DOMAIN i.entry : owner[i.entry[f]] = f /\ owner[i.exit[f]] = f
  /\ \A e \in i.intra : owner[e[1]] = owner[e[2]]
  /\ \A s \in i.sites : owner[s.call] = owner[s.ret]

ASSUME FunctionsAssumption ==
  \A i \in Icfgs : \E owner \in [i.nodes -> DOMAIN i.entry] : OwnedBy(i, owner)

VARIABLES icfg,      \* the graph under analysis
          pc,        \* the phase
          functions, \* functions whose blocks are still to be built
          working,   \* the stack: a node to visit and the block that leads to it
          seen,      \* visited2
          blocks,    \* the IBBNodes: sequences of nodes
          edges      \* the IBBEdges, see BlockEdges

buildVars == <<icfg, pc, functions, working, seen, blocks, edges>>

InitBuild ==
  /\ icfg \in Icfgs
  /\ pc = "blocks" /\ functions = DOMAIN icfg.entry
  /\ working = <<>> /\ seen = {} /\ blocks = {} /\ edges = {}
-----------------------------------------------------------------------------
Nodes(b) == {b[k] : k \in DOMAIN b}
Allocated == UNION {Nodes(b) : b \in blocks}
BlockOf(n) == CHOOSE b \in blocks : n \in Nodes(b)
LastOf(b) == b[Len(b)]

IsCall(n) == \E s \in icfg.sites : s.call = n
IsExit(n) == \E f \in DOMAIN icfg.exit : icfg.exit[f] = n
InternalSites == {s \in icfg.sites : s.fun # External}

\* The edges of the ICFG.  An external call is followed by its return node.
IntraEdges == icfg.intra \cup {<<s.call, s.ret>> : s \in icfg.sites \ InternalSites}
OutNodes(n) == {e[2] : e \in {e \in IntraEdges : e[1] = n}}
InDegree(n) == Cardinality({e \in IntraEdges : e[2] = n})
               + Cardinality({s \in InternalSites : s.ret = n \/ icfg.entry[s.fun] = n})
OutDegree(n) == Cardinality(OutNodes(n))
-----------------------------------------------------------------------------
(* inferSubGraph: the blocks. *)

Top == working[Len(working)]
Rest == SubSeq(working, 1, Len(working) - 1)
Visit(n, list) == [node |-> n, list |-> list]

\* addIBBNode: no block for an empty list; a node that already has a block aborts the extractor.
AddIBBNode(list) ==
  IF Nodes(list) \cap Allocated # {}
  THEN pc' = "conflict" /\ UNCHANGED blocks
  ELSE blocks' = (IF list = <<>> THEN blocks ELSE blocks \cup {list}) /\ UNCHANGED pc

StartFunction(f) ==
  /\ pc = "blocks" /\ working = <<>> /\ f \in functions
  /\ functions' = functions \ {f}
  /\ working' = <<Visit(icfg.entry[f], <<>>)>> /\ seen' = {}
  /\ UNCHANGED <<icfg, pc, blocks, edges>>

Visiting == pc = "blocks" /\ working # <<>>

AlreadyVisited ==
  /\ Visiting /\ Top.node \in seen
  /\ AddIBBNode(Top.list) /\ working' = Rest
  /\ UNCHANGED <<icfg, functions, seen, edges>>

\* The exploration stays inside the function.  An exit is not marked as visited.
AtExit ==
  /\ Visiting /\ Top.node \notin seen /\ IsExit(Top.node)
  /\ AddIBBNode(Append(Top.list, Top.node)) /\ working' = Rest
  /\ UNCHANGED <<icfg, functions, seen, edges>>

\* A call ends its block, and is not marked as visited either.
AtCall ==
  /\ Visiting /\ Top.node \notin seen /\ IsCall(Top.node)
  /\ AddIBBNode(Append(Top.list, Top.node))
  /\ \E s \in icfg.sites : s.call = Top.node /\ working' = Append(Rest, Visit(s.ret, <<>>))
  /\ UNCHANGED <<icfg, functions, seen, edges>>

Inner == Visiting /\ Top.node \notin seen /\ ~IsExit(Top.node) /\ ~IsCall(Top.node)

Straight ==
  /\ Inner /\ InDegree(Top.node) = 1 /\ OutDegree(Top.node) = 1
  /\ \E n \in OutNodes(Top.node) : working' = Append(Rest, Visit(n, Append(Top.list, Top.node)))
  /\ seen' = seen \cup {Top.node}
  /\ UNCHANGED <<icfg, pc, functions, blocks, edges>>

DeadEnd ==
  /\ Inner /\ OutDegree(Top.node) = 0
  /\ AddIBBNode(Append(Top.list, Top.node)) /\ working' = Rest
  /\ seen' = seen \cup {Top.node}
  /\ UNCHANGED <<icfg, functions, edges>>

\* Mutant of SplitLists: a node that joins paths stays in the block that led to it.
SplitListsJoined == <<Append(Top.list, Top.node), <<>>>>

\* The block that a branch or a join ends, and the one that its successors start with.
SplitLists ==
  IF InDegree(Top.node) = 1 THEN <<Append(Top.list, Top.node), <<>>>> ELSE <<Top.list, <<Top.node>>>>

\* The order of the successors is that of SVF's edge set.
Split ==
  /\ Inner /\ OutDegree(Top.node) # 0 /\ ~(InDegree(Top.node) = 1 /\ OutDegree(Top.node) = 1)
  /\ AddIBBNode(SplitLists[1])
  /\ \E order \in [1..OutDegree(Top.node) -> OutNodes(Top.node)] :
       /\ {order[k] : k \in DOMAIN order} = OutNodes(Top.node)
       /\ working' = Rest \o [k \in DOMAIN order |-> Visit(order[k], SplitLists[2])]
  /\ seen' = seen \cup {Top.node}
  /\ UNCHANGED <<icfg, functions, edges>>
-----------------------------------------------------------------------------
(* inferSubGraph: the edges, and get_phi_function, which pairs the call and the return edge of a *)
(* call site: "other" is the block of the return node for a call edge and of the call node for a *)
(* return edge.  A call of a function that never returns has no pair.                            *)

NoBlock == <<>>
Edge(m, n, kind, other) == [src |-> BlockOf(m), dst |-> BlockOf(n), kind |-> kind, other |-> other]

Paired(s) == {s.call, s.ret, icfg.entry[s.fun], icfg.exit[s.fun]} \subseteq Allocated
PairOf(s, n) == IF Paired(s) THEN BlockOf(n) ELSE NoBlock

\* The ICFG edges that become edges of blocks: those from the last node of a block to one that has a block.
Linked(m, n) == m \in {LastOf(b) : b \in blocks} /\ n \in Allocated

BlockEdges ==
  {Edge(e[1], e[2], "intra", NoBlock) : e \in {e \in IntraEdges : Linked(e[1], e[2])}}
  \cup {Edge(s.call, icfg.entry[s.fun], "call", PairOf(s, s.ret)) :
          s \in {s \in InternalSites : Linked(s.call, icfg.entry[s.fun])}}
  \cup {Edge(icfg.exit[s.fun], s.ret, "ret", PairOf(s, s.call)) :
          s \in {s \in InternalSites : Linked(icfg.exit[s.fun], s.ret)}}

AddEdges ==
  /\ pc = "blocks" /\ working = <<>> /\ functions = {}
  /\ edges' = BlockEdges /\ pc' = "built"
  /\ UNCHANGED <<icfg, functions, working, seen, blocks>>

Build == \/ \E f \in functions : StartFunction(f)
         \/ AlreadyVisited \/ AtExit \/ AtCall \/ Straight \/ DeadEnd \/ Split
         \/ AddEdges
-----------------------------------------------------------------------------
(* Properties. *)

\* The block graph says what the ICFG says: a node is in one block, once, every edge of the ICFG
\* that leaves an allocated node leads to the next node of its block or from the end of a block to
\* the start of one, and nothing else comes between two nodes of a block.  One kind of node is an
\* exception: inferSubGraph looks whether a node has successors before it looks whether paths join
\* there, so a dead end stays in the block that reached it first and other blocks lead into its middle.
BlocksAreStraight ==
  pc \notin {"blocks", "conflict"} =>
    /\ \A b, c \in blocks : b # c => Nodes(b) \cap Nodes(c) = {}
    /\ \A b \in blocks : Cardinality(Nodes(b)) = Len(b)
    /\ \A e \in {e \in IntraEdges : e[1] \in Allocated} :
         \/ \E b \in blocks : \E k \in 1..(Len(b) - 1) : e = <<b[k], b[k + 1]>>
         \/ \E b, c \in blocks : e = <<LastOf(b), c[1]>>
         \/ OutNodes(e[2]) = {} /\ \E b, c \in blocks : e = <<LastOf(b), LastOf(c)>>
    /\ \A b \in blocks : \A k \in 1..(Len(b) - 1) : OutNodes(b[k]) = {b[k + 1]}
    /\ \A s \in InternalSites : s.call \in Allocated =>
         \E b, c \in blocks : LastOf(b) = s.call /\ c[1] = icfg.entry[s.fun]
=============================================================================
