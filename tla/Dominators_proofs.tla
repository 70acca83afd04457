-------------------------- MODULE Dominators_proofs --------------------------
(***************************************************************************)
(* Proofs about Dominators, for every graph and call depth: the analysis   *)
(* is sound, its sweeps only shrink the sets, and the blocks that IBBGraph *)
(* builds are straight; and about DomCache, the files that keep its result.*)
(***************************************************************************)
EXTENDS Dominators, DomCache, SequenceTheorems, FiniteSetTheorems, WellFoundedInduction, TLAPS

Steps == [node : icfg.nodes, list : Seq(icfg.nodes)]

\* While the blocks are built: blocks are non-empty sequences of nodes.
Building ==
  /\ icfg \in Icfgs /\ functions \subseteq DOMAIN icfg.entry /\ post \in BOOLEAN
  /\ working \in Seq(Steps)
  /\ blocks \subseteq Seq(icfg.nodes) \ {<<>>}
  /\ pc = "blocks" => edges = {}

\* Edges connect blocks.
EdgesOK == \A e \in edges : e.src \in blocks /\ e.dst \in blocks /\ e.other \in blocks \cup {NoBlock}

DomOK ==
  pc \in {"dom", "done", "avoiding"} =>
    /\ Root \in blocks /\ dom \in [blocks -> SUBSET blocks] /\ dom[Root] = {Root}
    /\ todo \subseteq blocks \ {Root} /\ is_changed \in BOOLEAN

\* The next value of a block is never larger.
Shrinking == pc = "dom" => \A n \in blocks \ {Root} : HasPairs(n) => NewDom(dom, n) \subseteq dom[n]

\* While nothing has changed in a sweep, the blocks it has passed are at a fixed point.
Stable == pc = "dom" /\ ~is_changed => \A n \in blocks \ (todo \cup {Root}) : NewDom(dom, n) = dom[n]

Fixed == pc \in {"done", "avoiding"} => \A n \in blocks \ {Root} : NewDom(dom, n) = dom[n]

\* The execution has passed what dominates the block it is in, and the blocks its open calls came from.
Walked ==
  pc = "done" =>
    /\ at \in blocks /\ stack \in Seq(blocks)
    /\ dom[at] \subseteq visited
    /\ \A k \in DOMAIN stack : dom[stack[k]] \subseteq visited

IInv == Building /\ EdgesOK /\ DomOK /\ Shrinking /\ Stable /\ Fixed /\ Walked
-----------------------------------------------------------------------------
(* The blocks and their edges. *)

LEMMA BlockOfAllocated ==
  ASSUME NEW n \in Allocated
  PROVE  BlockOf(n) \in blocks
BY DEF Allocated, BlockOf

\* The last node of a block has a block.
LEMMA LastAllocated ==
  ASSUME Building, NEW b \in blocks
  PROVE  LastOf(b) \in Allocated
<1>1. Len(b) \in DOMAIN b
  BY DEF Building
<1> QED BY <1>1 DEF LastOf, Allocated, Nodes

LEMMA LinkedAllocated ==
  ASSUME Building, NEW m, NEW n, Linked(m, n)
  PROVE  BlockOf(m) \in blocks /\ BlockOf(n) \in blocks
BY LastAllocated, BlockOfAllocated DEF Linked

\* addIBBNode only adds a non-empty sequence.
LEMMA AddKeepsBlocks ==
  ASSUME Building, NEW list \in Seq(icfg.nodes), AddIBBNode(list)
  PROVE  blocks' \subseteq Seq(icfg.nodes) \ {<<>>} /\ pc' \in {pc, "conflict"}
BY DEF AddIBBNode, Building

LEMMA PairTyped ==
  ASSUME NEW s \in InternalSites
  PROVE  PairOf(s, s.ret) \in blocks \cup {NoBlock} /\ PairOf(s, s.call) \in blocks \cup {NoBlock}
BY BlockOfAllocated DEF PairOf, Paired

LEMMA BlockEdgesTyped ==
  ASSUME Building, NEW e \in BlockEdges
  PROVE  e.src \in blocks /\ e.dst \in blocks /\ e.other \in blocks \cup {NoBlock}
<1>1. CASE e \in {Edge(x[1], x[2], "intra", NoBlock) : x \in {x \in IntraEdges : Linked(x[1], x[2])}}
  BY <1>1, LinkedAllocated DEF Edge
<1>2. CASE e \in {Edge(s.call, icfg.entry[s.fun], "call", PairOf(s, s.ret)) :
                    s \in {s \in InternalSites : Linked(s.call, icfg.entry[s.fun])}}
  BY <1>2, LinkedAllocated, PairTyped DEF Edge
<1>3. CASE e \in {Edge(icfg.exit[s.fun], s.ret, "ret", PairOf(s, s.call)) :
                    s \in {s \in InternalSites : Linked(icfg.exit[s.fun], s.ret)}}
  BY <1>3, LinkedAllocated, PairTyped DEF Edge
<1> QED BY <1>1, <1>2, <1>3 DEF BlockEdges

LEMMA OutNodesTyped ==
  ASSUME Building, NEW n
  PROVE  OutNodes(n) \subseteq icfg.nodes /\ OutDegree(n) \in Nat
<1>1. IntraEdges \subseteq icfg.nodes \X icfg.nodes
  BY IcfgsAssumption DEF Building, IntraEdges, InternalSites
<1>2. OutNodes(n) \subseteq icfg.nodes
  BY <1>1 DEF OutNodes
<1>3. IsFiniteSet(icfg.nodes)
  BY IcfgsAssumption DEF Building
<1> QED BY <1>2, <1>3, FS_Subset, FS_CardinalityType DEF OutDegree

LEMMA SingletonSeq ==
  ASSUME NEW S, NEW x \in S
  PROVE  <<x>> \in Seq(S)
OBVIOUS

\* What the stack holds when it is not empty.
LEMMA StackTyped ==
  ASSUME Building, working # <<>>
  PROVE  Top \in Steps /\ Rest \in Seq(Steps)
<1>1. Len(working) \in Nat \ {0} /\ \A i \in 1..Len(working) : working[i] \in Steps
  BY EmptySeq, ElementOfSeq DEF Building
<1>2. \A i \in 1..(Len(working) - 1) : working[i] \in Steps
  BY <1>1
<1>3. Rest \in Seq(Steps)
  BY <1>1, <1>2, SubSeqProperties DEF Rest
<1> QED BY <1>1, <1>3 DEF Top

\* Every step of inferSubGraph keeps the types.
LEMMA BuildKeeps ==
  ASSUME Building, EdgesOK, Build, UNCHANGED post
  PROVE  Building' /\ EdgesOK' /\ pc' \notin {"dom", "done", "avoiding"}
<1> USE DEF Steps, Visit
<1>a. /\ icfg' = icfg
      /\ UNCHANGED edges => Steps' = Steps
  BY DEF Build, StartFunction, AlreadyVisited, AtExit, AtCall, Straight, DeadEnd, Split, AddEdges
<1>1. ASSUME NEW f \in functions, StartFunction(f)
      PROVE  Building' /\ EdgesOK' /\ pc' \notin {"dom", "done", "avoiding"}
  <2>1. icfg.entry[f] \in icfg.nodes
    BY IcfgsAssumption DEF Building
  <2>2. Visit(icfg.entry[f], <<>>) \in Steps
    BY <2>1
  <2> QED BY <1>1, <2>2 DEF StartFunction, Building, EdgesOK
<1>2. CASE AlreadyVisited
  <2>1. Top.list \in Seq(icfg.nodes) /\ Rest \in Seq(Steps)
    BY <1>2, StackTyped DEF AlreadyVisited, Visiting
  <2>2. blocks' \subseteq Seq(icfg.nodes) \ {<<>>} /\ pc' \in {"blocks", "conflict"}
    BY <1>2, <2>1, AddKeepsBlocks DEF AlreadyVisited, Visiting
  <2>3. edges = {}
    BY <1>2 DEF Building, AlreadyVisited, Visiting
  <2> QED BY <1>2, <2>1, <2>2, <2>3 DEF AlreadyVisited, Building, EdgesOK
<1>3. CASE AtExit
  <2>1. Append(Top.list, Top.node) \in Seq(icfg.nodes) /\ Rest \in Seq(Steps)
    BY <1>3, StackTyped DEF AtExit, Visiting
  <2>2. blocks' \subseteq Seq(icfg.nodes) \ {<<>>} /\ pc' \in {"blocks", "conflict"}
    BY <1>3, <2>1, AddKeepsBlocks DEF AtExit, Visiting
  <2>3. edges = {}
    BY <1>3 DEF Building, AtExit, Visiting
  <2> QED BY <1>3, <2>1, <2>2, <2>3 DEF AtExit, Building, EdgesOK
<1>4. CASE AtCall
  <2>1. Append(Top.list, Top.node) \in Seq(icfg.nodes) /\ Rest \in Seq(Steps)
    BY <1>4, StackTyped DEF AtCall, Visiting
  <2>2. blocks' \subseteq Seq(icfg.nodes) \ {<<>>} /\ pc' \in {"blocks", "conflict"}
    BY <1>4, <2>1, AddKeepsBlocks DEF AtCall, Visiting
  <2>3. edges = {}
    BY <1>4 DEF Building, AtCall, Visiting
  <2>4. PICK s \in icfg.sites : working' = Append(Rest, Visit(s.ret, <<>>))
    BY <1>4 DEF AtCall
  <2>5. s.ret \in icfg.nodes
    BY IcfgsAssumption DEF Building
  <2>6. Visit(s.ret, <<>>) \in Steps
    BY <2>5
  <2>7. working' \in Seq(Steps)
    BY <2>1, <2>4, <2>6
  <2> QED BY <1>4, <2>2, <2>3, <2>7 DEF AtCall, Building, EdgesOK
<1>5. CASE Straight
  <2>1. Append(Top.list, Top.node) \in Seq(icfg.nodes) /\ Rest \in Seq(Steps)
    BY <1>5, StackTyped DEF Straight, Inner, Visiting
  <2>2. PICK n \in OutNodes(Top.node) : working' = Append(Rest, Visit(n, Append(Top.list, Top.node)))
    BY <1>5 DEF Straight
  <2>3. Visit(n, Append(Top.list, Top.node)) \in Steps
    BY <2>1, OutNodesTyped
  <2>4. working' \in Seq(Steps)
    BY <2>1, <2>2, <2>3
  <2> QED BY <1>5, <2>4 DEF Straight, Inner, Visiting, Building, EdgesOK
<1>6. CASE DeadEnd
  <2>1. Append(Top.list, Top.node) \in Seq(icfg.nodes) /\ Rest \in Seq(Steps)
    BY <1>6, StackTyped DEF DeadEnd, Inner, Visiting
  <2>2. blocks' \subseteq Seq(icfg.nodes) \ {<<>>} /\ pc' \in {"blocks", "conflict"}
    BY <1>6, <2>1, AddKeepsBlocks DEF DeadEnd, Inner, Visiting
  <2>3. edges = {}
    BY <1>6 DEF Building, DeadEnd, Inner, Visiting
  <2> QED BY <1>6, <2>1, <2>2, <2>3 DEF DeadEnd, Building, EdgesOK
<1>7. CASE Split
  <2>1. Top \in Steps /\ Rest \in Seq(Steps)
    BY <1>7, StackTyped DEF Split, Inner, Visiting
  <2>2. SplitLists[1] \in Seq(icfg.nodes) /\ SplitLists[2] \in Seq(icfg.nodes)
    <3>1. CASE InDegree(Top.node) = 1
      <4>1. SplitLists = <<Append(Top.list, Top.node), <<>>>>
        BY <3>1 DEF SplitLists
      <4> QED BY <2>1, <4>1
    <3>2. CASE InDegree(Top.node) # 1
      <4>1. SplitLists = <<Top.list, <<Top.node>>>>
        BY <3>2 DEF SplitLists
      <4>2. <<Top.node>> \in Seq(icfg.nodes)
        BY <2>1, SingletonSeq
      <4>3. SplitLists[1] = Top.list /\ SplitLists[2] = <<Top.node>>
        BY <4>1
      <4> QED BY <2>1, <4>2, <4>3
    <3> QED BY <3>1, <3>2
  <2>3. blocks' \subseteq Seq(icfg.nodes) \ {<<>>} /\ pc' \in {"blocks", "conflict"}
    BY <1>7, <2>2, AddKeepsBlocks DEF Split, Inner, Visiting
  <2>4. edges = {}
    BY <1>7 DEF Building, Split, Inner, Visiting
  <2>5. PICK order \in [1..OutDegree(Top.node) -> OutNodes(Top.node)] :
          working' = Rest \o [k \in DOMAIN order |-> Visit(order[k], SplitLists[2])]
    BY <1>7 DEF Split
  <2>6. [k \in DOMAIN order |-> Visit(order[k], SplitLists[2])] \in Seq(Steps)
    <3>1. OutDegree(Top.node) \in Nat /\ OutNodes(Top.node) \subseteq icfg.nodes
      BY OutNodesTyped
    <3>2. \A k \in DOMAIN order : Visit(order[k], SplitLists[2]) \in Steps
      BY <2>2, <3>1
    <3> DEFINE pushed == [k \in DOMAIN order |-> Visit(order[k], SplitLists[2])]
    <3>3. pushed \in [1..OutDegree(Top.node) -> Steps]
      BY <3>2
    <3> HIDE DEF pushed, Steps
    <3>4. pushed \in UNION {[1..d -> Steps] : d \in Nat}
      BY <3>1, <3>3
    <3>5. pushed \in Seq(Steps)
      BY <3>4, SeqDef
    <3> QED BY <3>5 DEF pushed
  <2>7. working' \in Seq(Steps)
    BY <2>1, <2>5, <2>6, ConcatProperties
  <2> QED BY <1>7, <2>3, <2>4, <2>7 DEF Split, Building, EdgesOK
<1>8. CASE AddEdges
  BY <1>8, BlockEdgesTyped DEF AddEdges, Building, EdgesOK
<1> QED BY <1>1, <1>2, <1>3, <1>4, <1>5, <1>6, <1>7, <1>8 DEF Build
-----------------------------------------------------------------------------
(* The equations. *)

\* Edges come from blocks; what is paired with a closing edge is a block once HasPairs holds.
LEMMA AheadTyped ==
  ASSUME EdgesOK, NEW n, HasPairs(n), NEW e \in Into(n)
  PROVE  Ahead(e) \subseteq blocks
BY DEF EdgesOK, HasPairs, Into, Ahead, From

\* A smaller guess gives a smaller next value.
LEMMA NewDomMonotone ==
  ASSUME EdgesOK, NEW n, HasPairs(n), NEW d, NEW c, \A m \in blocks : c[m] \subseteq d[m]
  PROVE  NewDom(c, n) \subseteq NewDom(d, n)
<1>1. \A e \in Into(n) : Through(c, e) \subseteq Through(d, e)
  BY AheadTyped DEF Through
<1> QED BY <1>1 DEF NewDom

\* The next value of a block is made of blocks.
LEMMA NewDomTyped ==
  ASSUME EdgesOK, NEW n \in blocks, HasPairs(n), NEW d, \A m \in blocks : d[m] \subseteq blocks
  PROVE  NewDom(d, n) \subseteq blocks
<1>1. \A e \in Into(n) : Through(d, e) \subseteq blocks
  BY AheadTyped DEF Through
<1> QED BY <1>1 DEF NewDom

\* Nothing that the equations look at changes once the graph is built.
LEMMA GraphKept ==
  ASSUME UNCHANGED <<icfg, blocks, edges, post>>
  PROVE  /\ Root' = Root /\ RootNode' = RootNode
         /\ \A n : Into(n)' = Into(n) /\ HasPairs(n)' = HasPairs(n)
         /\ \A d, n : NewDom(d, n)' = NewDom(d, n)
<1>1. \A e : From(e)' = From(e) /\ To(e)' = To(e) /\ Closing(e)' = Closing(e)
  BY DEF From, To, Closing
<1>2. \A e : Ahead(e)' = Ahead(e)
  BY <1>1 DEF Ahead
<1>3. \A d, e : Through(d, e)' = Through(d, e)
  BY <1>2 DEF Through
<1>4. \A n : Into(n)' = Into(n)
  BY <1>1 DEF Into
<1>5. \A n : HasPairs(n)' = HasPairs(n)
  BY <1>1, <1>4 DEF HasPairs
<1>6. \A d, n : NewDom(d, n)' = NewDom(d, n)
  BY <1>3, <1>4 DEF NewDom
<1>7. RootNode' = RootNode
  BY DEF RootNode
<1>8. Root' = Root
  BY <1>7 DEF Root, BlockOf
<1> QED BY <1>4, <1>5, <1>6, <1>7, <1>8
-----------------------------------------------------------------------------
(* The sweeps. *)

LEMMA Start == Init => IInv
<1> SUFFICES ASSUME Init PROVE IInv
  OBVIOUS
<1>1. Building /\ EdgesOK
  BY DEF Init, InitBuild, Building, EdgesOK
<1> QED BY <1>1 DEF IInv, Init, InitBuild, DomOK, Shrinking, Stable, Fixed, Walked

\* Outside the two last phases only the types matter.
LEMMA BuildStep ==
  ASSUME IInv, Build, UNCHANGED <<domVars, walkVars>>
  PROVE  IInv'
<1>1. Building' /\ EdgesOK' /\ pc' \notin {"dom", "done", "avoiding"}
  BY BuildKeeps DEF IInv, domVars
<1> QED BY <1>1 DEF IInv, DomOK, Shrinking, Stable, Fixed, Walked

LEMMA NoRootStep ==
  ASSUME IInv, NoRoot
  PROVE  IInv'
<1>1. Building' /\ EdgesOK' /\ pc' = "aborted"
  BY DEF NoRoot, IInv, Building, EdgesOK, domVars, Steps
<1> QED BY <1>1 DEF IInv, DomOK, Shrinking, Stable, Fixed, Walked

LEMMA StartDomStep ==
  ASSUME IInv, StartDom
  PROVE  IInv'
<1>1. Building' /\ EdgesOK'
  BY DEF StartDom, IInv, Building, EdgesOK, Steps
<1>2. UNCHANGED <<icfg, blocks, edges, post>> /\ pc' = "dom"
  BY DEF StartDom
<1>3. Root \in blocks
  BY BlockOfAllocated DEF StartDom, Root
<1>4. DomOK'
  BY <1>2, <1>3, GraphKept DEF StartDom, DomOK, Guess
<1>5. Shrinking'
  <2> SUFFICES ASSUME NEW n \in blocks \ {Root}, HasPairs(n)
               PROVE  NewDom(dom', n) \subseteq dom'[n]
    BY <1>2, GraphKept DEF Shrinking
  <2>1. \A m \in blocks : dom'[m] \subseteq blocks
    BY <1>2, <1>4, GraphKept DEF DomOK
  <2>2. dom'[n] = blocks
    BY DEF StartDom, Guess
  <2> QED BY <2>1, <2>2, NewDomTyped DEF IInv
<1>6. Stable'
  BY <1>2, GraphKept DEF StartDom, Stable
<1>7. Fixed' /\ Walked'
  BY <1>2 DEF Fixed, Walked
<1> QED BY <1>1, <1>4, <1>5, <1>6, <1>7 DEF IInv

LEMMA NoPairStep ==
  ASSUME IInv, NEW n, NoPair(n)
  PROVE  IInv'
<1>1. Building' /\ EdgesOK' /\ pc' = "aborted"
  BY DEF NoPair, IInv, Building, EdgesOK, domVars, Steps
<1> QED BY <1>1 DEF IInv, DomOK, Shrinking, Stable, Fixed, Walked

\* What a sweep does to one block.
LEMMA Updated ==
  ASSUME IInv, NEW n, UpdateDom(n)
  PROVE  /\ n \in blocks \ {Root} /\ pc = "dom" /\ pc' = "dom" /\ HasPairs(n)
         /\ UNCHANGED <<icfg, blocks, edges, post>>
         /\ dom'[n] = NewDom(dom, n) /\ dom'[n] \subseteq dom[n]
         /\ \A m \in blocks \ {n} : dom'[m] = dom[m]
         /\ \A m \in blocks : dom'[m] \subseteq dom[m]
<1>1. /\ n \in blocks \ {Root} /\ pc = "dom" /\ pc' = "dom" /\ HasPairs(n)
      /\ UNCHANGED <<icfg, blocks, edges, post>>
  BY DEF UpdateDom, IInv, DomOK, buildVars
<1>2. dom \in [blocks -> SUBSET blocks] /\ dom' = [dom EXCEPT ![n] = NewDom(dom, n)]
  BY DEF UpdateDom, IInv, DomOK
<1>3. NewDom(dom, n) \subseteq dom[n]
  BY <1>1 DEF IInv, Shrinking
<1> QED BY <1>1, <1>2, <1>3

LEMMA UpdateDomStep ==
  ASSUME IInv, NEW n, UpdateDom(n)
  PROVE  IInv'
<1>1. Building' /\ EdgesOK'
  BY DEF UpdateDom, IInv, Building, EdgesOK, Steps, buildVars
<1>2. DomOK'
  <2>1. dom \in [blocks -> SUBSET blocks] /\ dom[Root] = {Root} /\ Root \in blocks /\ n # Root
    BY Updated DEF IInv, DomOK
  <2>2. dom' \in [blocks -> SUBSET blocks]
    BY <2>1, Updated DEF UpdateDom
  <2>3. todo' \subseteq blocks \ {Root} /\ is_changed' \in BOOLEAN
    BY Updated DEF UpdateDom, Flag, IInv, DomOK
  <2>4. dom'[Root] = {Root}
    BY <2>1, Updated
  <2> QED BY <2>1, <2>2, <2>3, <2>4, Updated, GraphKept DEF DomOK
<1>3. Shrinking'
  <2> SUFFICES ASSUME NEW m \in blocks \ {Root}, HasPairs(m)
               PROVE  NewDom(dom', m) \subseteq dom'[m]
    BY Updated, GraphKept DEF Shrinking
  <2>1. NewDom(dom', m) \subseteq NewDom(dom, m)
    BY Updated, NewDomMonotone DEF IInv
  <2>2. CASE m = n
    BY <2>1, <2>2, Updated
  <2>3. CASE m # n
    BY <2>1, <2>3, Updated DEF IInv, Shrinking
  <2> QED BY <2>2, <2>3
<1>4. Stable'
  <2> SUFFICES ASSUME ~is_changed', NEW m \in blocks \ (todo' \cup {Root})
               PROVE  NewDom(dom', m) = dom'[m]
    BY Updated, GraphKept DEF Stable
  <2>1. ~is_changed /\ NewDom(dom, n) = dom[n] /\ todo' = todo \ {n}
    BY DEF UpdateDom, Flag, IInv, DomOK
  <2>2. dom' = dom
    BY <2>1, Updated DEF UpdateDom, IInv, DomOK
  <2> QED BY <2>1, <2>2, Updated DEF IInv, Stable
<1>5. Fixed' /\ Walked'
  BY Updated DEF Fixed, Walked
<1> QED BY <1>1, <1>2, <1>3, <1>4, <1>5 DEF IInv

LEMMA NextSweepStep ==
  ASSUME IInv, NextSweep
  PROVE  IInv'
<1>1. UNCHANGED <<icfg, blocks, edges, post, dom>> /\ pc = "dom" /\ pc' = "dom"
  BY DEF NextSweep, buildVars
<1>2. Building' /\ EdgesOK'
  BY DEF NextSweep, IInv, Building, EdgesOK, Steps, buildVars
<1>3. DomOK'
  BY <1>1, GraphKept DEF NextSweep, IInv, DomOK
<1>4. Shrinking'
  BY <1>1, GraphKept DEF IInv, Shrinking
<1>5. Stable'
  BY <1>1, GraphKept DEF NextSweep, Stable
<1>6. Fixed' /\ Walked'
  BY <1>1 DEF Fixed, Walked
<1> QED BY <1>2, <1>3, <1>4, <1>5, <1>6 DEF IInv

LEMMA DomDoneStep ==
  ASSUME IInv, DomDone
  PROVE  IInv'
<1>1. UNCHANGED <<icfg, blocks, edges, post, dom>> /\ pc = "dom" /\ pc' = "done"
  BY DEF DomDone, domVars
<1>2. Building' /\ EdgesOK'
  BY DEF DomDone, IInv, Building, EdgesOK, Steps, domVars
<1>3. DomOK'
  BY <1>1, GraphKept DEF DomDone, IInv, DomOK, domVars
<1>4. Fixed'
  BY <1>1, GraphKept DEF DomDone, IInv, Stable, Fixed
<1>5. Walked'
  BY <1>1 DEF DomDone, IInv, DomOK, Walked
<1>6. Shrinking' /\ Stable'
  BY <1>1 DEF Shrinking, Stable
<1> QED BY <1>2, <1>3, <1>4, <1>5, <1>6 DEF IInv
-----------------------------------------------------------------------------
(* The execution. *)

\* What dominates the block an edge leads to has been passed, by the equations, before the edge or
\* with it.
LEMMA WalkStep ==
  ASSUME IInv, NEW e \in edges, Walk(e)
  PROVE  IInv'
<1>1. /\ UNCHANGED <<icfg, blocks, edges, post, dom>> /\ pc = "done" /\ pc' = "done"
      /\ From(e) = at /\ at' = To(e) /\ visited' = visited \cup {To(e)}
  BY DEF Walk, buildVars, domVars
<1>2. Building' /\ EdgesOK'
  BY DEF Walk, IInv, Building, EdgesOK, Steps, buildVars, domVars
<1>3. DomOK'
  BY <1>1, GraphKept DEF Walk, IInv, DomOK, domVars
<1>4. Fixed'
  BY <1>1, GraphKept DEF IInv, Fixed
<1>5. Shrinking' /\ Stable'
  BY <1>1 DEF Shrinking, Stable
<1>6. To(e) \in blocks /\ at \in blocks
  BY <1>1 DEF IInv, EdgesOK, To, Walked
<1>7. /\ stack \in Seq(blocks) /\ dom[at] \subseteq visited
      /\ \A k \in DOMAIN stack : dom[stack[k]] \subseteq visited
  BY <1>1 DEF IInv, Walked
<1>8. Closing(e) => stack # <<>> /\ e.other = stack[Len(stack)]
  BY DEF Walk, Closing, Opening
<1>9. \A m \in Ahead(e) : dom[m] \subseteq visited
  <2>1. Closing(e) => dom[e.other] \subseteq visited
    <3> SUFFICES ASSUME Closing(e) PROVE dom[e.other] \subseteq visited
      OBVIOUS
    <3>1. Len(stack) \in DOMAIN stack
      BY <1>7, <1>8, EmptySeq, LenProperties
    <3> QED BY <1>7, <1>8, <3>1
  <2> QED BY <1>1, <1>7, <2>1 DEF Ahead
<1>10. dom[To(e)] \subseteq visited'
  <2>1. CASE To(e) = Root
    BY <1>1, <2>1 DEF IInv, DomOK
  <2>2. CASE To(e) # Root
    <3>1. dom[To(e)] = NewDom(dom, To(e))
      BY <1>1, <1>6, <2>2 DEF IInv, Fixed
    <3>2. e \in Into(To(e)) /\ Through(dom, e) \subseteq visited
      BY <1>9 DEF Into, Through
    <3> QED BY <1>1, <3>1, <3>2 DEF NewDom
  <2> QED BY <2>1, <2>2
<1>11. stack' \in Seq(blocks) /\ \A k \in DOMAIN stack' : dom[stack'[k]] \subseteq visited
  <2>1. CASE stack' = Append(stack, at)
    <3>1. stack' \in Seq(blocks) /\ Len(stack') = Len(stack) + 1
      BY <1>6, <1>7, <2>1
    <3>2. DOMAIN stack = 1..Len(stack) /\ DOMAIN stack' = 1..(Len(stack) + 1) /\ Len(stack) \in Nat
      BY <1>7, <3>1, LenProperties
    <3>3. \A k \in DOMAIN stack' : stack'[k] = at \/ (k \in DOMAIN stack /\ stack'[k] = stack[k])
      <4> SUFFICES ASSUME NEW k \in 1..(Len(stack) + 1)
                   PROVE  stack'[k] = at \/ (k \in 1..Len(stack) /\ stack'[k] = stack[k])
        BY <3>2
      <4>1. CASE k \in 1..Len(stack)
        BY <1>6, <1>7, <2>1, <4>1, AppendProperties
      <4>2. CASE k = Len(stack) + 1
        BY <1>6, <1>7, <2>1, <4>2, AppendProperties
      <4> QED BY <3>2, <4>1, <4>2
    <3> QED BY <1>7, <3>1, <3>3
  <2>2. CASE stack # <<>> /\ stack' = SubSeq(stack, 1, Len(stack) - 1)
    <3>1. Len(stack) \in Nat \ {0} /\ DOMAIN stack = 1..Len(stack)
      BY <1>7, <2>2, EmptySeq, LenProperties
    <3>2. \A i \in 1..(Len(stack) - 1) : stack[i] \in blocks
      BY <1>7, <3>1, ElementOfSeq
    <3> DEFINE n == Len(stack) - 1
    <3>a. n \in Nat
      BY <3>1
    <3>b. /\ SubSeq(stack, 1, n) \in Seq(blocks)
          /\ Len(SubSeq(stack, 1, n)) = (IF 1 <= n THEN n - 1 + 1 ELSE 0)
          /\ \A i \in 1..(n - 1 + 1) : SubSeq(stack, 1, n)[i] = stack[1 + i - 1]
      <4> HIDE DEF n
      <4>1. \A i \in 1..n : stack[i] \in blocks
        BY <3>2 DEF n
      <4> QED BY <3>a, <4>1, SubSeqProperties
    <3>3. stack' = SubSeq(stack, 1, n) /\ stack' \in Seq(blocks)
      BY <2>2, <3>b
    <3>4. Len(stack') = Len(stack) - 1 /\ \A i \in 1..(Len(stack) - 1) : stack'[i] = stack[i]
      BY <3>1, <3>3, <3>a, <3>b
    <3>5. DOMAIN stack' = 1..(Len(stack) - 1)
      BY <3>3, <3>4, LenProperties
    <3> QED BY <1>7, <3>1, <3>3, <3>4, <3>5
  <2>3. CASE stack' = stack
    BY <1>7, <2>3
  <2> QED BY <2>1, <2>2, <2>3 DEF Walk
<1>12. Walked'
  BY <1>1, <1>6, <1>10, <1>11 DEF Walked
<1> QED BY <1>2, <1>3, <1>4, <1>5, <1>12 DEF IInv

LEMMA ExploreStep ==
  ASSUME IInv, Explore
  PROVE  IInv'
<1>1. /\ UNCHANGED <<icfg, blocks, edges, post, dom>>
      /\ pc \in {"done", "avoiding"} /\ pc' = "avoiding"
  BY DEF Explore, Avoid, GoOn, buildVars, domVars
<1>2. Building' /\ EdgesOK'
  BY <1>1 DEF Explore, Avoid, GoOn, IInv, Building, EdgesOK, Steps, buildVars, domVars
<1>3. DomOK'
  BY <1>1, GraphKept DEF Explore, Avoid, GoOn, IInv, DomOK, domVars
<1>4. Fixed'
  BY <1>1, GraphKept DEF IInv, Fixed
<1> QED BY <1>1, <1>2, <1>3, <1>4 DEF IInv, Shrinking, Stable, Walked

LEMMA Stutter ==
  ASSUME IInv, UNCHANGED vars
  PROVE  IInv'
<1>1. UNCHANGED <<icfg, blocks, edges, post>>
  BY DEF vars, buildVars, domVars
<1> QED BY <1>1, GraphKept DEF vars, buildVars, domVars, walkVars, IInv, Building, Steps, EdgesOK, DomOK,
                              Shrinking, Stable, Fixed, Walked

LEMMA Step == IInv /\ [Next]_vars => IInv'
<1> SUFFICES ASSUME IInv, [Next]_vars PROVE IInv'
  OBVIOUS
<1>1. CASE Build /\ UNCHANGED <<domVars, walkVars>>
  BY <1>1, BuildStep
<1>2. CASE Analyse
  BY <1>2, NoRootStep, StartDomStep, NoPairStep, UpdateDomStep, NextSweepStep, DomDoneStep DEF Analyse
<1>3. CASE \E e \in edges : Walk(e)
  BY <1>3, WalkStep
<1>4. CASE Explore
  BY <1>4, ExploreStep
<1>5. CASE UNCHANGED vars
  BY <1>5, Stutter
<1> QED BY <1>1, <1>2, <1>3, <1>4, <1>5 DEF Next
-----------------------------------------------------------------------------
(* The theorems. *)

\* The equations hold where the analysis says so: the inductive invariant.
THEOREM Inductive == Spec => []IInv
BY Start, Step, PTL DEF Spec

\* The analysis is sound on every graph: whatever buildDom says dominates (post-dominates) a block
\* has been passed on every execution that is there, calls and returns being matched.
THEOREM DominatorsSound == Spec => []DominatorsWerePassed
<1>1. IInv => DominatorsWerePassed
  BY DEF IInv, Walked, DominatorsWerePassed
<1> QED BY <1>1, Inductive, PTL

\* A sweep of buildDom, in any order, never adds a dominator.
THEOREM SweepsShrink == Spec => DomShrinks
<1>1. IInv /\ [Next]_vars => [pc = "dom" => \A n \in DOMAIN dom : dom'[n] \subseteq dom[n]]_vars
  <2> SUFFICES ASSUME IInv, [Next]_vars, pc = "dom", NEW n \in DOMAIN dom
               PROVE  dom'[n] \subseteq dom[n]
    OBVIOUS
  <2>1. CASE \E m \in todo : UpdateDom(m)
    BY <2>1, Updated DEF IInv, DomOK
  <2>2. CASE UNCHANGED dom
    BY <2>2
  <2>3. UNCHANGED dom \/ \E m \in todo : UpdateDom(m)
    BY DEF Next, Analyse, Walk, NoRoot, StartDom, NoPair, NextSweep, DomDone, Explore, Avoid, GoOn, vars, domVars
  <2> QED BY <2>1, <2>2, <2>3
<1> QED BY <1>1, Inductive, PTL DEF Spec, DomShrinks
-----------------------------------------------------------------------------
(* The blocks are straight.  While a function is explored, what is known of a node whose block is *)
(* still open depends on the visits that are pending.                                             *)

Pending == {working[i] : i \in DOMAIN working}
Path(v) == Append(v.list, v.node)
PendingNodes == {v.node : v \in Pending}

Placed == Allocated \cup UNION {Nodes(v.list) : v \in Pending}
Lasts == {LastOf(b) : b \in blocks}

\* The nodes that start a block, or the list of a visit, or will do when the visit takes place.
Started == {b[1] : b \in blocks} \cup {v.list[1] : v \in {v \in Pending : v.list # <<>>}}
Heads == Started \cup {v.node : v \in {v \in Pending : v.list = <<>>}}

Entries == {icfg.entry[f] : f \in DOMAIN icfg.entry}
Follows(s, m, n) == \E k \in 1..(Len(s) - 1) : s[k] = m /\ s[k + 1] = n
Consecutive(m, n) == (\E b \in blocks : Follows(b, m, n)) \/ \E v \in Pending : Follows(Path(v), m, n)

\* An edge of the ICFG is inside a block, or from the end of one to the start of one, or to a dead end.
Kept(m, n) == Consecutive(m, n) \/ (m \in Lasts /\ (n \in Heads \/ (OutNodes(n) = {} /\ n \in Lasts)))

NodesOnce ==
  /\ \A b, c \in blocks : b # c => Nodes(b) \cap Nodes(c) = {}
  /\ \A b \in blocks : IsInjective(b)
  /\ \A v \in Pending : IsInjective(v.list) /\ Nodes(v.list) \subseteq seen

OnlyEdges == \A m, n : Consecutive(m, n) => n \in OutNodes(m)

AllEdges == \A m \in Placed : \A n \in OutNodes(m) : Kept(m, n)

\* A second visit of a node finds the node at the start of a block, or at the end of one if it is a dead end.
JoinsStart == \A n \in seen : InDegree(n) = 1 \/ n \in Started \/ (OutNodes(n) = {} /\ n \in Lasts)

\* A node with one edge into it is visited once: after the node before it.
VisitedOnce ==
  /\ \A i, j \in DOMAIN working : InDegree(working[i].node) = 1 =>
       working[i].node \notin seen /\ (working[i].node = working[j].node => i = j)
  /\ \A n \in seen \cup PendingNodes : InDegree(n) = 1 =>
       /\ \A m : <<m, n>> \in IntraEdges => m \in seen \/ (IsCall(m) /\ m \in Allocated)
       /\ \A s \in InternalSites : s.ret = n => s.call \in Allocated

CallsLast == \A n \in Placed : IsCall(n) => n \in Lasts

EntriesFirst == \A f \in DOMAIN icfg.entry \ functions : icfg.entry[f] \in Heads

EntriesAlone == \A n \in PendingNodes \cap Entries : seen = {} /\ Len(working) = 1

\* What a step on the top of the stack has to keep, and what it needs.
Explored == NodesOnce /\ OnlyEdges /\ AllEdges /\ JoinsStart /\ CallsLast /\ EntriesFirst

Exploring == Explored /\ VisitedOnce /\ EntriesAlone

BlocksInv == (pc = "blocks" => Exploring) /\ BlocksAreStraight

Popped(t, under, list, new, marked) ==
  /\ Pending = under \cup {t} /\ Pending' = under \cup new
  /\ Nodes(list) \cap Allocated = {}
  /\ blocks' = (IF list = <<>> THEN blocks ELSE blocks \cup {list})
  /\ seen' = seen \cup marked
  /\ UNCHANGED <<icfg, functions>>

\* A sequence with one element more.
LEMMA AppendFacts ==
  ASSUME NEW S, NEW s \in Seq(S), NEW x \in S, NEW p, p = Append(s, x)
  PROVE  /\ p \in Seq(S) /\ p # <<>>
         /\ Nodes(p) = Nodes(s) \cup {x} /\ LastOf(p) = x
         /\ p[1] = IF s = <<>> THEN x ELSE s[1]
         /\ \A m, n : Follows(p, m, n) <=> Follows(s, m, n) \/ (s # <<>> /\ m = LastOf(s) /\ n = x)
         /\ IsInjective(s) /\ x \notin Nodes(s) => IsInjective(p)
<1>1. /\ p \in Seq(S) /\ Len(s) \in Nat /\ Len(p) = Len(s) + 1
      /\ DOMAIN s = 1..Len(s) /\ DOMAIN p = 1..(Len(s) + 1)
      /\ \A i \in 1..Len(s) : p[i] = s[i]
      /\ p[Len(s) + 1] = x
  BY AppendProperties, LenProperties
<1>2. s = <<>> <=> Len(s) = 0
  BY EmptySeq
<1>3. p # <<>>
  BY <1>1, EmptySeq
<1>4. Nodes(p) = Nodes(s) \cup {x}
  <2>1. \A i \in DOMAIN s : i \in DOMAIN p /\ p[i] = s[i]
    BY <1>1
  <2>2. \A i \in DOMAIN p : i \in DOMAIN s \/ i = Len(s) + 1
    BY <1>1
  <2>3. Len(s) + 1 \in DOMAIN p
    BY <1>1
  <2> QED BY <1>1, <2>1, <2>2, <2>3 DEF Nodes
<1>5. LastOf(p) = x /\ p[1] = (IF s = <<>> THEN x ELSE s[1])
  BY <1>1, <1>2 DEF LastOf
<1>a. Len(p) - 1 = Len(s)
  BY <1>1
<1>6. ASSUME NEW m, NEW n
      PROVE  Follows(p, m, n) <=> Follows(s, m, n) \/ (s # <<>> /\ m = LastOf(s) /\ n = x)
  <2>1. ASSUME NEW k \in 1..Len(s), p[k] = m, p[k + 1] = n
        PROVE  Follows(s, m, n) \/ (s # <<>> /\ m = LastOf(s) /\ n = x)
    <3>1. CASE k < Len(s)
      <4>1. k \in 1..(Len(s) - 1) /\ s[k] = m /\ s[k + 1] = n
        BY <1>1, <2>1, <3>1
      <4> QED BY <4>1 DEF Follows
    <3>2. CASE k = Len(s)
      <4>1. s # <<>> /\ Len(s) \in 1..Len(s) /\ k + 1 = Len(s) + 1
        BY <1>1, <1>2, <2>1, <3>2
      <4>2. p[k] = s[Len(s)] /\ p[k + 1] = x
        BY <1>1, <3>2, <4>1
      <4>3. m = LastOf(s) /\ n = x
        BY <2>1, <4>2 DEF LastOf
      <4> QED BY <4>1, <4>3
    <3>3. k < Len(s) \/ k = Len(s)
      <4>1. Len(s) \in Nat
        BY <1>1
      <4> QED BY <4>1
    <3> QED BY <3>1, <3>2, <3>3
  <2>2. ASSUME NEW k \in 1..(Len(s) - 1), s[k] = m, s[k + 1] = n
        PROVE  Follows(p, m, n)
    <3>1. k \in 1..Len(s) /\ p[k] = m /\ p[k + 1] = n
      BY <1>1, <2>2
    <3> QED BY <1>a, <3>1 DEF Follows
  <2>3. ASSUME s # <<>>, m = LastOf(s), n = x
        PROVE  Follows(p, m, n)
    <3>1. Len(s) \in 1..Len(s) /\ Len(s) \in 1..Len(p) - 1
      BY <1>1, <1>2, <2>3
    <3>2. p[Len(s)] = m /\ p[Len(s) + 1] = n
      BY <1>1, <2>3, <3>1 DEF LastOf
    <3> QED BY <3>1, <3>2 DEF Follows
  <2> QED BY <1>a, <2>1, <2>2, <2>3 DEF Follows
<1>7. ASSUME IsInjective(s), x \notin Nodes(s)
      PROVE  IsInjective(p)
  <2>1. \A i \in 1..Len(s) : p[i] = s[i] /\ p[i] # x
    BY <1>1, <1>7 DEF Nodes
  <2> SUFFICES ASSUME NEW i \in 1..(Len(s) + 1), NEW j \in 1..(Len(s) + 1), p[i] = p[j]
               PROVE  i = j
    BY <1>1 DEF IsInjective
  <2>2. CASE i \in 1..Len(s) /\ j \in 1..Len(s)
    BY <1>1, <1>7, <2>1, <2>2 DEF IsInjective
  <2>3. CASE i = Len(s) + 1 \/ j = Len(s) + 1
    BY <1>1, <2>1, <2>3
  <2> QED BY <1>1, <2>2, <2>3
<1> QED BY <1>1, <1>3, <1>4, <1>5, <1>6, <1>7

\* Nothing that is read off the ICFG changes while it is explored.
LEMMA IcfgKept ==
  ASSUME icfg' = icfg
  PROVE  /\ IntraEdges' = IntraEdges /\ InternalSites' = InternalSites /\ Entries' = Entries
         /\ \A n : OutNodes(n)' = OutNodes(n)
         /\ \A n : InDegree(n)' = InDegree(n)
         /\ \A n : IsCall(n)' = IsCall(n)
<1>1. InternalSites' = InternalSites /\ Entries' = Entries
  BY DEF InternalSites, Entries
<1>2. IntraEdges' = IntraEdges
  BY <1>1 DEF IntraEdges
<1> QED BY <1>1, <1>2 DEF OutNodes, InDegree, IsCall

\* What a step on the top of the stack makes of the sets.
LEMMA PoppedSets ==
  ASSUME NEW t, NEW under, NEW list, NEW new, NEW marked, Popped(t, under, list, new, marked)
  PROVE  /\ Allocated' = Allocated \cup (IF list = <<>> THEN {} ELSE Nodes(list))
         /\ Lasts' = Lasts \cup (IF list = <<>> THEN {} ELSE {LastOf(list)})
         /\ \A n : n \in Started <=>
              (\E b \in blocks : b[1] = n) \/ \E v \in under \cup {t} : v.list # <<>> /\ v.list[1] = n
         /\ \A n : n \in Started' <=>
              \/ (\E b \in blocks : b[1] = n) \/ (list # <<>> /\ list[1] = n)
              \/ \E v \in under \cup new : v.list # <<>> /\ v.list[1] = n
         /\ \A n : n \in Heads <=> n \in Started \/ \E v \in under \cup {t} : v.list = <<>> /\ v.node = n
         /\ \A n : n \in Heads' <=> n \in Started' \/ \E v \in under \cup new : v.list = <<>> /\ v.node = n
         /\ \A n : n \in Placed <=> n \in Allocated \/ \E v \in under \cup {t} : n \in Nodes(v.list)
         /\ \A n : n \in Placed' <=> n \in Allocated' \/ \E v \in under \cup new : n \in Nodes(v.list)
         /\ \A m, n : Consecutive(m, n) <=>
              (\E b \in blocks : Follows(b, m, n)) \/ \E v \in under \cup {t} : Follows(Path(v), m, n)
         /\ \A m, n : Consecutive(m, n)' <=>
              \/ (\E b \in blocks : Follows(b, m, n)) \/ (list # <<>> /\ Follows(list, m, n))
              \/ \E v \in under \cup new : Follows(Path(v), m, n)
<1>1. Allocated' = Allocated \cup (IF list = <<>> THEN {} ELSE Nodes(list))
  BY DEF Popped, Allocated
<1>2. Lasts' = Lasts \cup (IF list = <<>> THEN {} ELSE {LastOf(list)})
  BY DEF Popped, Lasts
<1>3. \A n : n \in Started <=>
         (\E b \in blocks : b[1] = n) \/ \E v \in under \cup {t} : v.list # <<>> /\ v.list[1] = n
  BY DEF Popped, Started
<1>4. \A n : n \in Started' <=>
         \/ (\E b \in blocks : b[1] = n) \/ (list # <<>> /\ list[1] = n)
         \/ \E v \in under \cup new : v.list # <<>> /\ v.list[1] = n
  BY DEF Popped, Started
<1>5. \A n : n \in Heads <=> n \in Started \/ \E v \in under \cup {t} : v.list = <<>> /\ v.node = n
  BY DEF Popped, Heads
<1>6. \A n : n \in Heads' <=> n \in Started' \/ \E v \in under \cup new : v.list = <<>> /\ v.node = n
  BY DEF Popped, Heads
<1>7. \A n : n \in Placed <=> n \in Allocated \/ \E v \in under \cup {t} : n \in Nodes(v.list)
  BY DEF Popped, Placed
<1>8. \A n : n \in Placed' <=> n \in Allocated' \/ \E v \in under \cup new : n \in Nodes(v.list)
  BY DEF Popped, Placed
<1>9. \A m, n : Consecutive(m, n) <=>
         (\E b \in blocks : Follows(b, m, n)) \/ \E v \in under \cup {t} : Follows(Path(v), m, n)
  BY DEF Popped, Consecutive
<1>10. \A m, n : Consecutive(m, n)' <=>
         \/ (\E b \in blocks : Follows(b, m, n)) \/ (list # <<>> /\ Follows(list, m, n))
         \/ \E v \in under \cup new : Follows(Path(v), m, n)
  BY DEF Popped, Consecutive
<1> QED BY <1>1, <1>2, <1>3, <1>4, <1>5, <1>6, <1>7, <1>8, <1>9, <1>10

\* The list of a visit with its node.
LEMMA PathFacts ==
  ASSUME Building, NEW t \in Steps, NEW p, p = Path(t)
  PROVE  /\ p \in Seq(icfg.nodes) /\ p # <<>>
         /\ Nodes(p) = Nodes(t.list) \cup {t.node} /\ LastOf(p) = t.node
         /\ p[1] = IF t.list = <<>> THEN t.node ELSE t.list[1]
         /\ \A m, n : Follows(p, m, n) <=> Follows(t.list, m, n) \/ (t.list # <<>> /\ m = LastOf(t.list) /\ n = t.node)
         /\ IsInjective(t.list) /\ t.node \notin Nodes(t.list) => IsInjective(p)
<1>1. PICK s \in Seq(icfg.nodes) : s = t.list
  BY DEF Steps
<1>2. PICK x \in icfg.nodes : x = t.node
  BY DEF Steps
<1>3. p = Append(s, x)
  BY <1>1, <1>2 DEF Path
<1>4. /\ p \in Seq(icfg.nodes) /\ p # <<>>
      /\ Nodes(p) = Nodes(s) \cup {x} /\ LastOf(p) = x
      /\ p[1] = IF s = <<>> THEN x ELSE s[1]
      /\ \A m, n : Follows(p, m, n) <=> Follows(s, m, n) \/ (s # <<>> /\ m = LastOf(s) /\ n = x)
      /\ IsInjective(s) /\ x \notin Nodes(s) => IsInjective(p)
  <2>1. ASSUME NEW T, NEW u \in Seq(T), NEW y \in T, p = Append(u, y)
        PROVE  /\ p \in Seq(T) /\ p # <<>>
               /\ Nodes(p) = Nodes(u) \cup {y} /\ LastOf(p) = y
               /\ p[1] = IF u = <<>> THEN y ELSE u[1]
               /\ \A m, n : Follows(p, m, n) <=> Follows(u, m, n) \/ (u # <<>> /\ m = LastOf(u) /\ n = y)
               /\ IsInjective(u) /\ y \notin Nodes(u) => IsInjective(p)
    BY <2>1, AppendFacts
  <2> QED BY <1>3, <2>1
<1> QED BY <1>1, <1>2, <1>4

LEMMA VisitFacts ==
  ASSUME NEW n, NEW list
  PROVE  Visit(n, list).node = n /\ Visit(n, list).list = list /\ Path(Visit(n, list)) = Append(list, n)
BY DEF Visit, Path

LEMMA VisitTyped ==
  ASSUME NEW n \in icfg.nodes, NEW list \in Seq(icfg.nodes)
  PROVE  \E v \in Steps : v = Visit(n, list) /\ v.node = n
<1>1. PICK v : v = Visit(n, list)
  OBVIOUS
<1>2. v.node = n
  BY <1>1, VisitFacts
<1>3. v \in Steps
  BY <1>1 DEF Visit, Steps
<1> QED BY <1>1, <1>2, <1>3

LEMMA FirstAppend ==
  ASSUME NEW n
  PROVE  Append(<<>>, n) = <<n>>
OBVIOUS

LEMMA ShortLists ==
  /\ Nodes(<<>>) = {} /\ IsInjective(<<>>) /\ (\A m, n : ~Follows(<<>>, m, n))
  /\ \A x : Nodes(<<x>>) = {x} /\ IsInjective(<<x>>) /\ \A m, n : ~Follows(<<x>>, m, n)
  /\ \A x : LastOf(<<x>>) = x
BY DEF Nodes, IsInjective, Follows, LastOf

\* Its starts, ends and pairs are not lost when a visit closes the block it is in: at an exit, a
\* call, a dead end or a branch.
LEMMA Closes ==
  ASSUME Building, Explored, NEW t \in Steps, NEW under \in SUBSET Steps, NEW after, NEW marked,
         Popped(t, under, Path(t), {Visit(n, <<>>) : n \in after}, marked),
         t.node \notin seen, OutNodes(t.node) \subseteq after, marked \subseteq {t.node},
         marked # {} => InDegree(t.node) = 1 \/ OutNodes(t.node) = {}
  PROVE  Explored'
<1> DEFINE p == Path(t)
           new == {Visit(n, <<>>) : n \in after}
<1>1. /\ p # <<>> /\ Nodes(p) = Nodes(t.list) \cup {t.node} /\ LastOf(p) = t.node
      /\ p[1] = IF t.list = <<>> THEN t.node ELSE t.list[1]
      /\ IsInjective(t.list) /\ t.node \notin Nodes(t.list) => IsInjective(p)
  BY PathFacts
<1>2. \A v \in new : v.list = <<>> /\ v.node \in after /\ Path(v) = <<v.node>>
  <2>1. \A n : Visit(n, <<>>).list = <<>> /\ Visit(n, <<>>).node = n /\ Path(Visit(n, <<>>)) = <<n>>
    BY VisitFacts, FirstAppend
  <2> QED BY <2>1
<1>3. \A n \in after : \E v \in new : v.list = <<>> /\ v.node = n
  BY VisitFacts
<1>4. Popped(t, under, p, new, marked)
  OBVIOUS
<1>5. Path(t) = p
  OBVIOUS
<1> HIDE DEF p, new
<1>6. IntraEdges' = IntraEdges /\ (\A n : OutNodes(n)' = OutNodes(n)) /\ (\A n : InDegree(n)' = InDegree(n))
      /\ (\A n : IsCall(n)' = IsCall(n)) /\ icfg' = icfg /\ functions' = functions
  BY <1>4, IcfgKept DEF Popped
<1>7. Started \subseteq Started' /\ Heads \subseteq Heads' /\ after \subseteq Heads' /\ Lasts' = Lasts \cup {t.node}
  <2>1. Started \subseteq Started'
    BY <1>1, <1>4, PoppedSets
  <2>2. Heads \subseteq Heads'
    BY <1>1, <1>4, <2>1, PoppedSets
  <2> QED BY <1>1, <1>3, <1>4, <2>1, <2>2, PoppedSets
<1>8. \A m, n : Consecutive(m, n)' <=> Consecutive(m, n)
  <2>1. \A v \in new : \A m, n : ~Follows(Path(v), m, n)
    BY <1>2, ShortLists
  <2> QED BY <1>1, <1>4, <1>5, <2>1, PoppedSets
<1>9. Placed' = Placed \cup {t.node}
  <2>1. \A v \in new : Nodes(v.list) = {}
    BY <1>2, ShortLists
  <2> QED BY <1>1, <1>4, <2>1, PoppedSets
<1>10. NodesOnce'
  <2>1. \A b \in blocks : Nodes(b) \cap Nodes(p) = {}
    BY <1>4 DEF Popped, Allocated
  <2>2. t \in Pending /\ Pending' = under \cup new /\ under \subseteq Pending /\ blocks' = blocks \cup {p}
    BY <1>1, <1>4 DEF Popped
  <2>3. IsInjective(p)
    BY <1>1, <2>2 DEF Explored, NodesOnce
  <2>4. seen \subseteq seen'
    BY <1>4 DEF Popped
  <2>5. \A v \in Pending' : IsInjective(v.list) /\ Nodes(v.list) \subseteq seen'
    BY <1>2, <2>2, <2>4, ShortLists DEF Explored, NodesOnce
  <2> QED BY <2>1, <2>2, <2>3, <2>5 DEF Explored, NodesOnce
<1>11. OnlyEdges'
  BY <1>6, <1>8 DEF Explored, OnlyEdges
<1>12. AllEdges'
  <2> SUFFICES ASSUME NEW m \in Placed', NEW n \in OutNodes(m)
               PROVE  Kept(m, n)'
    BY <1>6 DEF AllEdges
  <2>1. CASE m \in Placed
    BY <1>6, <1>7, <1>8, <2>1 DEF Explored, AllEdges, Kept
  <2>2. CASE m = t.node
    BY <1>7, <2>2 DEF Kept
  <2> QED BY <1>9, <2>1, <2>2
<1>13. JoinsStart'
  <2> SUFFICES ASSUME NEW n \in seen'
               PROVE  InDegree(n) = 1 \/ n \in Started' \/ (OutNodes(n) = {} /\ n \in Lasts')
    BY <1>6 DEF JoinsStart
  <2>1. CASE n \in seen
    BY <1>7, <2>1 DEF Explored, JoinsStart
  <2>2. CASE n \in marked
    BY <1>7, <2>2
  <2> QED BY <1>4, <2>1, <2>2 DEF Popped
<1>14. CallsLast'
  BY <1>6, <1>7, <1>9 DEF Explored, CallsLast
<1>15. EntriesFirst'
  BY <1>6, <1>7 DEF Explored, EntriesFirst
<1> QED BY <1>10, <1>11, <1>12, <1>13, <1>14, <1>15 DEF Explored

\* The block of a visit goes on: a node with one edge into it and one out of it.
LEMMA Extends ==
  ASSUME Building, Explored, NEW t \in Steps, NEW under \in SUBSET Steps, NEW next \in icfg.nodes,
         Popped(t, under, <<>>, {Visit(next, Path(t))}, {t.node}),
         t.node \notin seen, OutNodes(t.node) = {next}, InDegree(t.node) = 1, ~IsCall(t.node)
  PROVE  Explored'
<1> DEFINE p == Path(t)
           w == Visit(next, p)
<1>1. /\ p \in Seq(icfg.nodes) /\ p # <<>> /\ Nodes(p) = Nodes(t.list) \cup {t.node} /\ LastOf(p) = t.node
      /\ p[1] = IF t.list = <<>> THEN t.node ELSE t.list[1]
      /\ IsInjective(t.list) /\ t.node \notin Nodes(t.list) => IsInjective(p)
  BY PathFacts
<1>2. w.list = p /\ w.node = next /\ \A m, n : Follows(Path(w), m, n) <=> Follows(p, m, n) \/ (m = t.node /\ n = next)
  <2>1. w.list = p /\ w.node = next /\ Path(w) = Append(p, next)
    BY VisitFacts
  <2> HIDE DEF p, w
  <2>2. PICK q : q = Append(p, next)
    OBVIOUS
  <2>3. \A m, n : Follows(q, m, n) <=> Follows(p, m, n) \/ (p # <<>> /\ m = LastOf(p) /\ n = next)
    <3>1. w \in Steps /\ q = Path(w)
      BY <1>1, <2>1, <2>2 DEF w, Visit, Steps
    <3> QED BY <2>1, <3>1, PathFacts
  <2> QED BY <1>1, <2>1, <2>2, <2>3
<1>4. Popped(t, under, <<>>, {w}, {t.node})
  OBVIOUS
<1>5. Path(t) = p
  OBVIOUS
<1> HIDE DEF p, w
<1>6. IntraEdges' = IntraEdges /\ (\A n : OutNodes(n)' = OutNodes(n)) /\ (\A n : InDegree(n)' = InDegree(n))
      /\ (\A n : IsCall(n)' = IsCall(n)) /\ icfg' = icfg /\ functions' = functions
  BY <1>4, IcfgKept DEF Popped
<1>7. Started \subseteq Started' /\ Heads \subseteq Heads' /\ Lasts' = Lasts
  <2>1. Started \subseteq Started'
    BY <1>1, <1>2, <1>4, PoppedSets
  <2>2. Heads \subseteq Heads'
    BY <1>1, <1>2, <1>4, <2>1, PoppedSets
  <2>3. Lasts' = Lasts
    BY <1>4 DEF Popped, Lasts
  <2> QED BY <2>1, <2>2, <2>3
<1>8. \A m, n : Consecutive(m, n)' <=> Consecutive(m, n) \/ (m = t.node /\ n = next)
  BY <1>2, <1>4, <1>5, PoppedSets
<1>9. Placed' = Placed \cup {t.node}
  BY <1>1, <1>2, <1>4, PoppedSets
<1>10. NodesOnce'
  <2>1. t \in Pending /\ Pending' = under \cup {w} /\ under \subseteq Pending /\ blocks' = blocks
    BY <1>4 DEF Popped
  <2>2. IsInjective(p) /\ Nodes(p) \subseteq seen'
    BY <1>1, <1>4, <2>1 DEF Explored, NodesOnce, Popped
  <2>3. seen \subseteq seen'
    BY <1>4 DEF Popped
  <2> QED BY <1>2, <2>1, <2>2, <2>3 DEF Explored, NodesOnce
<1>11. OnlyEdges'
  BY <1>6, <1>8 DEF Explored, OnlyEdges
<1>12. AllEdges'
  <2> SUFFICES ASSUME NEW m \in Placed', NEW n \in OutNodes(m)
               PROVE  Kept(m, n)'
    BY <1>6 DEF AllEdges
  <2>1. CASE m \in Placed
    BY <1>6, <1>7, <1>8, <2>1 DEF Explored, AllEdges, Kept
  <2>2. CASE m = t.node
    BY <1>8, <2>2 DEF Kept
  <2> QED BY <1>9, <2>1, <2>2
<1>13. JoinsStart'
  BY <1>4, <1>6, <1>7 DEF Popped, Explored, JoinsStart
<1>14. CallsLast'
  BY <1>6, <1>7, <1>9 DEF Explored, CallsLast
<1>15. EntriesFirst'
  BY <1>6, <1>7 DEF Explored, EntriesFirst
<1> QED BY <1>10, <1>11, <1>12, <1>13, <1>14, <1>15 DEF Explored

\* A node where paths join starts the block of what follows, and the block before it is closed.
LEMMA Joins ==
  ASSUME Building, Explored, NEW t \in Steps, NEW under \in SUBSET Steps, NEW after \in SUBSET icfg.nodes,
         Popped(t, under, t.list, {Visit(n, <<t.node>>) : n \in after}, {t.node}),
         t.node \notin seen, after = OutNodes(t.node), after # {}, ~IsCall(t.node)
  PROVE  Explored'
<1> DEFINE new == {Visit(n, <<t.node>>) : n \in after}
<1>1. \A v \in new : v \in Steps /\ v.list = <<t.node>> /\ v.node \in after
  <2>1. <<t.node>> \in Seq(icfg.nodes)
    BY SingletonSeq DEF Steps
  <2>2. \A n \in after : Visit(n, <<t.node>>) \in Steps
    BY <2>1 DEF Visit, Steps
  <2>3. \A n : Visit(n, <<t.node>>).list = <<t.node>> /\ Visit(n, <<t.node>>).node = n
    BY VisitFacts
  <2> QED BY <2>2, <2>3
<1>2. \A n \in after : \E v \in new : v.node = n
  <2>1. \A n : Visit(n, <<t.node>>).node = n
    BY VisitFacts
  <2> QED BY <2>1
<1>3. Popped(t, under, t.list, new, {t.node})
  OBVIOUS
<1> HIDE DEF new
<1>4. \A v \in new : Nodes(v.list) = {t.node} /\ IsInjective(v.list) /\ v.list # <<>> /\ v.list[1] = t.node
  BY <1>1, ShortLists
<1>5. \A v \in new : \A m, n : Follows(Path(v), m, n) <=> m = t.node /\ n = v.node
  <2> SUFFICES ASSUME NEW v \in new, NEW m, NEW n
               PROVE  Follows(Path(v), m, n) <=> m = t.node /\ n = v.node
    OBVIOUS
  <2>1. \A a, b : Follows(Path(v), a, b) <=> Follows(v.list, a, b) \/ (v.list # <<>> /\ a = LastOf(v.list) /\ b = v.node)
    BY <1>1, PathFacts
  <2>2. ~Follows(v.list, m, n) /\ v.list # <<>> /\ LastOf(v.list) = t.node
    BY <1>1, ShortLists
  <2> QED BY <2>1, <2>2
<1>6. IntraEdges' = IntraEdges /\ (\A n : OutNodes(n)' = OutNodes(n)) /\ (\A n : InDegree(n)' = InDegree(n))
      /\ (\A n : IsCall(n)' = IsCall(n)) /\ icfg' = icfg /\ functions' = functions
  BY <1>3, IcfgKept DEF Popped
<1>7. Started \subseteq Started' /\ Heads \subseteq Heads' /\ t.node \in Started' /\ Lasts \subseteq Lasts'
  <2>1. Started \subseteq Started' /\ t.node \in Started'
    BY <1>2, <1>3, <1>4, PoppedSets
  <2>2. Heads \subseteq Heads'
    BY <1>3, <2>1, PoppedSets
  <2>3. Lasts \subseteq Lasts'
    BY <1>3, PoppedSets
  <2> QED BY <2>1, <2>2, <2>3
<1>8. t.list # <<>> => LastOf(t.list) \in Lasts'
  BY <1>3, PoppedSets
<1>9. \A m, n : Follows(Path(t), m, n) <=> Follows(t.list, m, n) \/ (t.list # <<>> /\ m = LastOf(t.list) /\ n = t.node)
  BY PathFacts
<1>10. \A m, n : ~Follows(<<>>, m, n)
  BY ShortLists
<1>11. \A m, n : Consecutive(m, n) =>
          Consecutive(m, n)' \/ (t.list # <<>> /\ m = LastOf(t.list) /\ n = t.node)
  BY <1>3, <1>9, <1>10, PoppedSets
<1>12. \A m, n : Consecutive(m, n)' => Consecutive(m, n) \/ (m = t.node /\ n \in after)
  BY <1>1, <1>3, <1>5, <1>9, PoppedSets
<1>13. \A n \in after : Consecutive(t.node, n)'
  BY <1>2, <1>3, <1>5, PoppedSets
<1>14. Placed' \subseteq Placed \cup {t.node}
  BY <1>3, <1>4, PoppedSets
<1>15. NodesOnce'
  <2>1. \A b \in blocks : Nodes(b) \cap Nodes(t.list) = {}
    BY <1>3 DEF Popped, Allocated
  <2>2. t \in Pending /\ Pending' = under \cup new /\ under \subseteq Pending /\ blocks' \subseteq blocks \cup {t.list}
    BY <1>3 DEF Popped
  <2>3. seen \subseteq seen' /\ t.node \in seen'
    BY <1>3 DEF Popped
  <2>4. \A v \in Pending' : IsInjective(v.list) /\ Nodes(v.list) \subseteq seen'
    BY <1>4, <2>2, <2>3 DEF Explored, NodesOnce
  <2> QED BY <2>1, <2>2, <2>4 DEF Explored, NodesOnce
<1>16. OnlyEdges'
  BY <1>6, <1>12 DEF Explored, OnlyEdges
<1>17. AllEdges'
  <2> SUFFICES ASSUME NEW m \in Placed', NEW n \in OutNodes(m)
               PROVE  Kept(m, n)'
    BY <1>6 DEF AllEdges
  <2>1. CASE m \in Placed
    <3>1. Kept(m, n)
      BY <2>1 DEF Explored, AllEdges
    <3>2. CASE Consecutive(m, n)
      <4>1. Consecutive(m, n)' \/ (m \in Lasts' /\ n \in Heads')
        BY <1>3, <1>7, <1>8, <1>11, <3>2, PoppedSets
      <4> QED BY <4>1 DEF Kept
    <3>3. CASE m \in Lasts /\ (n \in Heads \/ (OutNodes(n) = {} /\ n \in Lasts))
      BY <1>6, <1>7, <3>3 DEF Kept
    <3> QED BY <3>1, <3>2, <3>3 DEF Kept
  <2>2. CASE m = t.node
    BY <1>13, <2>2 DEF Kept
  <2> QED BY <1>14, <2>1, <2>2
<1>18. JoinsStart'
  <2> SUFFICES ASSUME NEW n \in seen'
               PROVE  InDegree(n) = 1 \/ n \in Started' \/ (OutNodes(n) = {} /\ n \in Lasts')
    BY <1>6 DEF JoinsStart
  <2> QED BY <1>3, <1>7 DEF Popped, Explored, JoinsStart
<1>19. CallsLast'
  BY <1>6, <1>7, <1>14 DEF Explored, CallsLast
<1>20. EntriesFirst'
  BY <1>6, <1>7 DEF Explored, EntriesFirst
<1> QED BY <1>15, <1>16, <1>17, <1>18, <1>19, <1>20 DEF Explored

\* A second visit of a node closes the block that led to it.
LEMMA Drops ==
  ASSUME Building, Explored, NEW t \in Steps, NEW under \in SUBSET Steps,
         Popped(t, under, t.list, {}, {}),
         t.node \in seen, InDegree(t.node) # 1, t.node \notin Entries
  PROVE  Explored'
<1>1. t.node \in Started \/ (OutNodes(t.node) = {} /\ t.node \in Lasts)
  BY DEF Explored, JoinsStart
<1>2. IntraEdges' = IntraEdges /\ (\A n : OutNodes(n)' = OutNodes(n)) /\ (\A n : InDegree(n)' = InDegree(n))
      /\ (\A n : IsCall(n)' = IsCall(n)) /\ icfg' = icfg /\ functions' = functions /\ seen' = seen
  BY IcfgKept DEF Popped
<1>3. Started \subseteq Started' /\ Lasts \subseteq Lasts'
  <2>1. Started \subseteq Started'
    BY PoppedSets
  <2> QED BY <2>1, PoppedSets
<1>4. Heads \subseteq Heads' \cup {t.node} /\ Started' \subseteq Heads'
  BY <1>3, PoppedSets
<1>5. t.list # <<>> => LastOf(t.list) \in Lasts'
  BY PoppedSets
<1>6. \A m, n : Follows(Path(t), m, n) <=> Follows(t.list, m, n) \/ (t.list # <<>> /\ m = LastOf(t.list) /\ n = t.node)
  BY PathFacts
<1>7. \A m, n : ~Follows(<<>>, m, n)
  BY ShortLists
<1>8. \A m, n : Consecutive(m, n) =>
          Consecutive(m, n)' \/ (t.list # <<>> /\ m = LastOf(t.list) /\ n = t.node)
  BY <1>6, <1>7, PoppedSets
<1>9. \A m, n : Consecutive(m, n)' => Consecutive(m, n)
  BY <1>6, PoppedSets
<1>10. Placed' \subseteq Placed
  BY PoppedSets
<1>11. NodesOnce'
  <2>1. \A b \in blocks : Nodes(b) \cap Nodes(t.list) = {}
    BY DEF Popped, Allocated
  <2>2. t \in Pending /\ Pending' \subseteq Pending /\ blocks' \subseteq blocks \cup {t.list}
    BY DEF Popped
  <2> QED BY <1>2, <2>1, <2>2 DEF Explored, NodesOnce
<1>12. OnlyEdges'
  BY <1>2, <1>9 DEF Explored, OnlyEdges
<1>13. AllEdges'
  <2> SUFFICES ASSUME NEW m \in Placed', NEW n \in OutNodes(m)
               PROVE  Kept(m, n)'
    BY <1>2 DEF AllEdges
  <2>1. Kept(m, n)
    BY <1>10 DEF Explored, AllEdges
  <2>2. CASE Consecutive(m, n)
    <3>1. CASE Consecutive(m, n)'
      BY <3>1 DEF Kept
    <3>2. CASE m \in Lasts' /\ n = t.node
      BY <1>1, <1>2, <1>3, <1>4, <3>2 DEF Kept
    <3> QED BY <1>5, <1>8, <2>2, <3>1, <3>2
  <2>3. CASE m \in Lasts /\ (n \in Heads \/ (OutNodes(n) = {} /\ n \in Lasts))
    BY <1>1, <1>2, <1>3, <1>4, <2>3 DEF Kept
  <2> QED BY <2>1, <2>2, <2>3 DEF Kept
<1>14. JoinsStart'
  BY <1>2, <1>3 DEF Explored, JoinsStart
<1>15. CallsLast'
  BY <1>2, <1>3, <1>10 DEF Explored, CallsLast
<1>16. EntriesFirst'
  BY <1>2, <1>4 DEF Explored, EntriesFirst, Entries
<1> QED BY <1>11, <1>12, <1>13, <1>14, <1>15, <1>16 DEF Explored

LEMMA NodeKinds ==
  ASSUME Building
  PROVE  /\ \A e \in IntraEdges : ~IsExit(e[1]) /\ e[2] \notin Entries
         /\ \A m, n : <<m, n>> \in IntraEdges /\ IsCall(m) => \E s \in icfg.sites \ InternalSites : s.call = m /\ s.ret = n
         /\ \A m, n : <<m, n>> \in IntraEdges => \A s \in icfg.sites : s.ret = n => IsCall(m)
         /\ \A s \in icfg.sites : s.ret \notin Entries /\ ~IsCall(s.ret)
         /\ \A n \in Entries : ~IsExit(n) /\ ~IsCall(n)
         /\ \A n : IsExit(n) => ~IsCall(n)
<1> DEFINE entries == {icfg.entry[f] : f \in DOMAIN icfg.entry}
           exits == {icfg.exit[f] : f \in DOMAIN icfg.exit}
           calls == {s.call : s \in icfg.sites}
           rets == {s.ret : s \in icfg.sites}
<1>1. /\ entries \cap (exits \cup calls \cup rets) = {} /\ exits \cap (calls \cup rets) = {} /\ calls \cap rets = {}
      /\ \A e \in icfg.intra : e[1] \notin exits \cup calls /\ e[2] \notin entries \cup rets
  BY NodeKindsAssumption DEF Building
<1>2. Entries = entries /\ (\A n : IsExit(n) <=> n \in exits) /\ (\A n : IsCall(n) <=> n \in calls)
  BY DEF Entries, IsExit, IsCall
<1>3. /\ \A s \in icfg.sites : s.ret \in rets /\ s.call \in calls
      /\ \A n \in rets : \E s \in icfg.sites : s.ret = n
  OBVIOUS
<1>4. \A e \in IntraEdges : e \in icfg.intra \/ \E s \in icfg.sites \ InternalSites : e = <<s.call, s.ret>>
  BY DEF IntraEdges
<1> HIDE DEF entries, exits, calls, rets
<1>5. \A e \in IntraEdges : ~IsExit(e[1]) /\ e[2] \notin Entries
  BY <1>1, <1>2, <1>3, <1>4
<1>6. ASSUME NEW m, NEW n, <<m, n>> \in IntraEdges, IsCall(m)
      PROVE  \E s \in icfg.sites \ InternalSites : s.call = m /\ s.ret = n
  <2>1. <<m, n>> \notin icfg.intra
    BY <1>1, <1>2, <1>6
  <2> QED BY <1>4, <1>6, <2>1
<1>7. ASSUME NEW m, NEW n, <<m, n>> \in IntraEdges, NEW s \in icfg.sites, s.ret = n
      PROVE  IsCall(m)
  <2>1. <<m, n>> \notin icfg.intra
    BY <1>1, <1>3, <1>7
  <2> QED BY <1>2, <1>3, <1>4, <1>7, <2>1
<1>8. \A s \in icfg.sites : s.ret \notin Entries /\ ~IsCall(s.ret)
  BY <1>1, <1>2, <1>3
<1>9. (\A n \in Entries : ~IsExit(n) /\ ~IsCall(n)) /\ (\A n : IsExit(n) => ~IsCall(n))
  BY <1>1, <1>2
<1> QED BY <1>5, <1>6, <1>7, <1>8, <1>9

\* In-degree one: one edge into the node or one call site that returns to it.
LEMMA OneWayIn ==
  ASSUME Building, NEW n, InDegree(n) = 1
  PROVE  /\ \A l, m : <<l, n>> \in IntraEdges /\ <<m, n>> \in IntraEdges => l = m
         /\ \A r, s \in InternalSites : r.ret = n /\ s.ret = n => r = s
         /\ \A m : \A s \in InternalSites : ~(<<m, n>> \in IntraEdges /\ s.ret = n)
<1> DEFINE into == {e \in IntraEdges : e[2] = n}
           back == {s \in InternalSites : s.ret = n \/ icfg.entry[s.fun] = n}
<1>1. IsFiniteSet(IntraEdges) /\ IsFiniteSet(InternalSites)
  <2>1. IsFiniteSet(icfg.nodes) /\ IsFiniteSet(icfg.sites)
    BY IcfgsAssumption DEF Building
  <2>2. IntraEdges \subseteq icfg.nodes \X icfg.nodes
    BY IcfgsAssumption DEF Building, IntraEdges, InternalSites
  <2>3. IsFiniteSet(icfg.nodes \X icfg.nodes)
    BY <2>1, FS_Product
  <2> QED BY <2>1, <2>2, <2>3, FS_Subset DEF InternalSites
<1>2. IsFiniteSet(into) /\ IsFiniteSet(back)
  BY <1>1, FS_Subset
<1>3. Cardinality(into) + Cardinality(back) = 1
  BY DEF InDegree
<1> HIDE DEF into, back
<1>4. Cardinality(into) \in Nat /\ Cardinality(back) \in Nat
  BY <1>2, FS_CardinalityType
<1>5. \/ Cardinality(into) = 0 /\ Cardinality(back) = 1
      \/ Cardinality(into) = 1 /\ Cardinality(back) = 0
  BY <1>3, <1>4
<1>6. \/ into = {} /\ \E x : back = {x}
      \/ (\E x : into = {x}) /\ back = {}
  BY <1>2, <1>5, FS_EmptySet, FS_Singleton
<1>7. \A m : <<m, n>> \in IntraEdges => <<m, n>> \in into
  BY DEF into
<1>8. \A s \in InternalSites : s.ret = n => s \in back
  BY DEF back
<1>9. \A l, m : <<l, n>> = <<m, n>> => l = m
  OBVIOUS
<1> QED BY <1>6, <1>7, <1>8, <1>9

Under == {working[i] : i \in 1..(Len(working) - 1)}

\* The visits w take the place of the top of the stack.
Pushed(w) ==
  /\ working # <<>> /\ w \in Seq(Steps) /\ working' \in Seq(Steps)
  /\ Len(working') = Len(working) - 1 + Len(w)
  /\ \A i \in 1..(Len(working) - 1) : working'[i] = working[i]
  /\ \A i \in 1..Len(w) : working'[Len(working) - 1 + i] = w[i]

LEMMA StackSets ==
  ASSUME Building, NEW w, Pushed(w)
  PROVE  /\ Len(working) \in Nat \ {0} /\ DOMAIN working = 1..Len(working)
         /\ Pending = Under \cup {Top} /\ Pending' = Under \cup {w[i] : i \in 1..Len(w)}
         /\ Top \in Steps /\ Under \subseteq Steps
<1> DEFINE L == Len(working) - 1
<1>1. Len(working) \in Nat \ {0} /\ L \in Nat /\ Len(working) = L + 1 /\ DOMAIN working = 1..Len(working)
  BY EmptySeq, LenProperties DEF Building, Pushed
<1>2. Len(w) \in Nat /\ Len(working') = L + Len(w) /\ DOMAIN working' = 1..(L + Len(w))
  BY LenProperties DEF Pushed
<1>3. \A i \in DOMAIN working : i \in 1..L \/ i = Len(working)
  BY <1>1
<1>4. \A i \in 1..L : i \in DOMAIN working
  BY <1>1
<1>5. Pending = Under \cup {Top}
  BY <1>1, <1>3, <1>4 DEF Pending, Under, Top
<1>6. \A i \in DOMAIN working' : i \in 1..L \/ \E k \in 1..Len(w) : i = L + k
  <2> SUFFICES ASSUME NEW i \in 1..(L + Len(w)), i \notin 1..L
               PROVE  \E k \in 1..Len(w) : i = L + k
    BY <1>2
  <2>1. i - L \in 1..Len(w) /\ i = L + (i - L)
    BY <1>1, <1>2
  <2> QED BY <2>1
<1>7. /\ \A i \in 1..L : i \in DOMAIN working' /\ working'[i] = working[i]
      /\ \A k \in 1..Len(w) : L + k \in DOMAIN working' /\ working'[L + k] = w[k]
  BY <1>1, <1>2 DEF Pushed
<1> HIDE DEF L
<1>8. Under = {working[i] : i \in 1..L}
  BY DEF Under, L
<1>9. Pending' = Under \cup {w[i] : i \in 1..Len(w)}
  BY <1>6, <1>7, <1>8 DEF Pending
<1>10. Pending \subseteq Steps
  BY ElementOfSeq, <1>1 DEF Pending, Building
<1> QED BY <1>1, <1>5, <1>9, <1>10

LEMMA VisitedOnceKept ==
  ASSUME Building, VisitedOnce, NEW w, Pushed(w), icfg' = icfg,
         NEW marked, marked \subseteq {Top.node}, seen' = seen \cup marked, Allocated \subseteq Allocated',
         \A i \in 1..Len(w) : InDegree(w[i].node) = 1 =>
           /\ w[i].node \notin seen \cup PendingNodes
           /\ \A j \in 1..Len(w) : w[i].node = w[j].node => i = j
           /\ \A m : <<m, w[i].node>> \in IntraEdges => m \in seen' \/ (IsCall(m) /\ m \in Allocated')
           /\ \A s \in InternalSites : s.ret = w[i].node => s.call \in Allocated'
  PROVE  VisitedOnce'
<1> DEFINE L == Len(working) - 1
<1>1. /\ Len(working) \in Nat \ {0} /\ DOMAIN working = 1..Len(working)
      /\ Pending = Under \cup {Top} /\ Pending' = Under \cup {w[i] : i \in 1..Len(w)}
  BY StackSets
<1>2. L \in Nat /\ Len(working) = L + 1 /\ Top = working[L + 1]
  BY <1>1 DEF Top
<1> HIDE DEF L
<1>3. Len(w) \in Nat /\ DOMAIN working' = 1..(L + Len(w))
  BY LenProperties DEF Pushed, L
<1>4. \A i \in 1..L : working'[i] = working[i] /\ i \in DOMAIN working /\ i # L + 1
  <2>1. \A i \in 1..L : i \in 1..(L + 1) /\ i # L + 1
    BY <1>2
  <2>2. \A i \in 1..L : working'[i] = working[i]
    BY DEF Pushed, L
  <2> QED BY <1>1, <1>2, <2>1, <2>2
<1>5. \A k \in 1..Len(w) : working'[L + k] = w[k]
  BY DEF Pushed, L
<1>6. \A i \in DOMAIN working' : i \in 1..L \/ \E k \in 1..Len(w) : i = L + k
  <2> SUFFICES ASSUME NEW i \in 1..(L + Len(w)), i \notin 1..L
               PROVE  \E k \in 1..Len(w) : i = L + k
    BY <1>3
  <2>1. i - L \in 1..Len(w) /\ i = L + (i - L)
    BY <1>2, <1>3
  <2> QED BY <2>1
<1>7. L + 1 \in DOMAIN working
  BY <1>1, <1>2
<1>8. /\ IntraEdges' = IntraEdges /\ InternalSites' = InternalSites
      /\ (\A n : InDegree(n)' = InDegree(n)) /\ (\A n : IsCall(n)' = IsCall(n))
  BY IcfgKept
<1>9. /\ \A i \in 1..L : working[i].node \in PendingNodes
      /\ Top.node \in PendingNodes
      /\ \A n \in PendingNodes' : n \in PendingNodes \/ \E i \in 1..Len(w) : n = w[i].node
  <2>1. \A i \in 1..L : working[i] \in Pending
    BY <1>4 DEF Pending
  <2> QED BY <1>1, <2>1 DEF PendingNodes
<1>10. ASSUME NEW i \in 1..L, InDegree(working[i].node) = 1
       PROVE  working[i].node \notin seen'
  <2>1. working[i].node # Top.node /\ working[i].node \notin seen
    BY <1>2, <1>4, <1>7, <1>10 DEF VisitedOnce
  <2> QED BY <2>1
<1>11. ASSUME NEW i \in 1..Len(w), InDegree(w[i].node) = 1
       PROVE  w[i].node \notin seen' /\ w[i].node \notin PendingNodes
  BY <1>9, <1>11
<1>12. ASSUME NEW i \in DOMAIN working', NEW j \in DOMAIN working', InDegree(working'[i].node) = 1
       PROVE  working'[i].node \notin seen' /\ (working'[i].node = working'[j].node => i = j)
  <2>1. CASE i \in 1..L /\ j \in 1..L
    <3>1. working'[i] = working[i] /\ working'[j] = working[j] /\ i \in DOMAIN working /\ j \in DOMAIN working
      BY <1>4, <2>1
    <3>2. working[i].node \notin seen'
      BY <1>10, <1>12, <2>1, <3>1
    <3> QED BY <1>12, <3>1, <3>2 DEF VisitedOnce
  <2>2. ASSUME i \in 1..L, NEW k \in 1..Len(w), j = L + k
        PROVE  working'[i].node \notin seen' /\ working'[i].node # working'[j].node
    <3>1. working'[i] = working[i] /\ working'[j] = w[k]
      BY <1>4, <1>5, <2>2
    <3>2. working[i].node \notin seen' /\ working[i].node \in PendingNodes
      BY <1>9, <1>10, <1>12, <2>2, <3>1
    <3>3. CASE working[i].node = w[k].node
      BY <1>11, <1>12, <3>1, <3>2, <3>3
    <3> QED BY <3>1, <3>2, <3>3
  <2>3. ASSUME NEW k \in 1..Len(w), i = L + k, j \in 1..L
        PROVE  working'[i].node \notin seen' /\ working'[i].node # working'[j].node
    <3>1. working'[j] = working[j] /\ working'[i] = w[k]
      BY <1>4, <1>5, <2>3
    <3> QED BY <1>9, <1>11, <1>12, <2>3, <3>1
  <2>4. ASSUME NEW k \in 1..Len(w), i = L + k, NEW l \in 1..Len(w), j = L + l
        PROVE  working'[i].node \notin seen' /\ (working'[i].node = working'[j].node => i = j)
    <3>1. working'[i] = w[k] /\ working'[j] = w[l]
      BY <1>5, <2>4
    <3>2. w[k].node \notin seen' /\ (w[k].node = w[l].node => k = l)
      BY <1>11, <1>12, <3>1
    <3> QED BY <2>4, <3>1, <3>2
  <2> QED BY <1>6, <2>1, <2>2, <2>3, <2>4
<1>13. ASSUME NEW n \in seen' \cup PendingNodes', InDegree(n) = 1
       PROVE  /\ \A m : <<m, n>> \in IntraEdges => m \in seen' \/ (IsCall(m) /\ m \in Allocated')
              /\ \A s \in InternalSites : s.ret = n => s.call \in Allocated'
  <2>1. CASE n \in seen \cup PendingNodes
    BY <1>13, <2>1 DEF VisitedOnce
  <2>2. CASE \E i \in 1..Len(w) : n = w[i].node
    BY <1>13, <2>2
  <2> QED BY <1>9, <2>1, <2>2
<1> QED BY <1>8, <1>12, <1>13 DEF VisitedOnce

LEMMA RestFacts ==
  ASSUME Building, working # <<>>
  PROVE  /\ Len(working) \in Nat \ {0} /\ Rest \in Seq(Steps) /\ Len(Rest) = Len(working) - 1
         /\ \A i \in 1..(Len(working) - 1) : Rest[i] = working[i]
<1>1. Len(working) \in Nat \ {0} /\ \A i \in 1..Len(working) : working[i] \in Steps
  BY EmptySeq, ElementOfSeq DEF Building
<1>2. \A i \in 1..(Len(working) - 1) : working[i] \in Steps
  BY <1>1
<1> DEFINE L == Len(working) - 1
<1>3. L \in Nat
  BY <1>1
<1>4. /\ SubSeq(working, 1, L) \in Seq(Steps)
      /\ Len(SubSeq(working, 1, L)) = (IF 1 <= L THEN L - 1 + 1 ELSE 0)
      /\ \A i \in 1..(L - 1 + 1) : SubSeq(working, 1, L)[i] = working[1 + i - 1]
  <2> HIDE DEF L
  <2>1. \A i \in 1..L : working[i] \in Steps
    BY <1>2 DEF L
  <2> QED BY <1>3, <2>1, SubSeqProperties
<1>5. Rest = SubSeq(working, 1, L)
  BY DEF Rest
<1> HIDE DEF L
<1>6. Rest \in Seq(Steps) /\ Len(Rest) = L /\ \A i \in 1..L : Rest[i] = working[i]
  BY <1>3, <1>4, <1>5
<1> QED BY <1>1, <1>6 DEF L

\* The three forms of a step on the stack.
LEMMA PushMany ==
  ASSUME Building, working # <<>>, NEW w \in Seq(Steps), working' = Rest \o w
  PROVE  Pushed(w)
<1>1. /\ Len(working) \in Nat \ {0} /\ Rest \in Seq(Steps) /\ Len(Rest) = Len(working) - 1
      /\ \A i \in 1..(Len(working) - 1) : Rest[i] = working[i]
  BY RestFacts
<1>2. Len(w) \in Nat
  BY LenProperties
<1>3. /\ working' \in Seq(Steps) /\ Len(working') = Len(Rest) + Len(w)
      /\ \A i \in 1..(Len(Rest) + Len(w)) : working'[i] = IF i <= Len(Rest) THEN Rest[i] ELSE w[i - Len(Rest)]
  BY <1>1, ConcatProperties
<1> DEFINE L == Len(Rest)
<1>4. L \in Nat
  BY <1>1
<1> HIDE DEF L
<1>5. /\ \A i \in 1..L : i \in 1..(L + Len(w)) /\ i <= L
      /\ \A i \in 1..Len(w) : L + i \in 1..(L + Len(w)) /\ ~(L + i <= L) /\ L + i - L = i
  BY <1>2, <1>4
<1>6. (\A i \in 1..L : working'[i] = Rest[i]) /\ (\A i \in 1..Len(w) : working'[L + i] = w[i])
  BY <1>3, <1>5 DEF L
<1> QED BY <1>1, <1>3, <1>6 DEF Pushed, L

LEMMA PopOnly ==
  ASSUME Building, working # <<>>, working' = Rest
  PROVE  Pushed(<<>>)
<1>1. Rest \in Seq(Steps) /\ Rest = Rest \o <<>>
  BY RestFacts
<1>2. <<>> \in Seq(Steps)
  OBVIOUS
<1> QED BY <1>1, <1>2, PushMany

LEMMA PushOne ==
  ASSUME Building, working # <<>>, NEW v \in Steps, working' = Append(Rest, v)
  PROVE  Pushed(<<v>>)
<1>1. Rest \in Seq(Steps) /\ Append(Rest, v) = Rest \o <<v>>
  BY RestFacts
<1>2. <<v>> \in Seq(Steps)
  BY SingletonSeq
<1> QED BY <1>1, <1>2, PushMany

\* No visit but the first of a function is one of an entry.
LEMMA ExploringKept ==
  ASSUME Building, Exploring, NEW w, Pushed(w), icfg' = icfg, Explored', VisitedOnce',
         \A i \in 1..Len(w) : w[i].node \notin Entries
  PROVE  Exploring'
<1>1. /\ Len(working) \in Nat \ {0} /\ DOMAIN working = 1..Len(working)
      /\ Pending' = Under \cup {w[i] : i \in 1..Len(w)}
  BY StackSets
<1>2. ASSUME NEW i \in 1..(Len(working) - 1)
      PROVE  working[i].node \notin Entries
  <2>1. i \in DOMAIN working /\ Len(working) # 1
    BY <1>1
  <2>2. working[i].node \in PendingNodes
    BY <2>1 DEF PendingNodes, Pending
  <2> QED BY <2>1, <2>2 DEF Exploring, EntriesAlone
<1>3. \A v \in Pending' : v.node \notin Entries
  BY <1>1, <1>2 DEF Under
<1>4. PendingNodes' \cap Entries' = {}
  BY <1>3, IcfgKept DEF PendingNodes
<1>5. EntriesAlone'
  BY <1>4 DEF EntriesAlone
<1> QED BY <1>5 DEF Exploring

\* addIBBNode without a conflict, in the terms of Popped.
LEMMA AddedBlock ==
  ASSUME Building, NEW list, AddIBBNode(list), pc = "blocks", pc' = "blocks"
  PROVE  Nodes(list) \cap Allocated = {} /\ blocks' = (IF list = <<>> THEN blocks ELSE blocks \cup {list})
BY DEF AddIBBNode

LEMMA TopPending ==
  ASSUME Building, working # <<>>
  PROVE  Top \in Steps /\ Top \in Pending /\ Len(working) \in DOMAIN working /\ working[Len(working)] = Top
<1>1. Len(working) \in DOMAIN working
  BY EmptySeq, LenProperties DEF Building
<1> QED BY <1>1, StackTyped DEF Top, Pending

LEMMA AlreadyVisitedStep ==
  ASSUME Building, Exploring, AlreadyVisited, pc' = "blocks"
  PROVE  Exploring'
<1>1. working # <<>> /\ pc = "blocks" /\ Top.node \in seen /\ working' = Rest /\ UNCHANGED <<icfg, functions, seen>>
  BY DEF AlreadyVisited, Visiting
<1>2. Pushed(<<>>)
  BY <1>1, PopOnly
<1>3. PICK t \in Steps : t = Top
  BY <1>1, TopPending
<1>4. PICK under \in SUBSET Steps : under = Under
  BY <1>2, StackSets
<1>5. Popped(t, under, t.list, {}, {})
  <2>1. Nodes(t.list) \cap Allocated = {} /\ blocks' = (IF t.list = <<>> THEN blocks ELSE blocks \cup {t.list})
    BY <1>1, <1>3, AddedBlock DEF AlreadyVisited
  <2>2. Pending = Under \cup {Top} /\ Pending' = Under \cup {<<>>[i] : i \in 1..Len(<<>>)}
    BY <1>2, StackSets
  <2>3. Pending' = Under
    BY <2>2
  <2> QED BY <1>1, <1>3, <1>4, <2>1, <2>2, <2>3 DEF Popped
<1>6. InDegree(t.node) # 1
  BY <1>1, <1>3, TopPending DEF Exploring, VisitedOnce
<1>7. t.node \notin Entries
  BY <1>1, <1>3, TopPending DEF Exploring, EntriesAlone, PendingNodes
<1>8. Explored'
  BY <1>1, <1>3, <1>5, <1>6, <1>7, Drops DEF Exploring
<1>9. VisitedOnce'
  <2>1. Allocated \subseteq Allocated'
    BY <1>5, PoppedSets
  <2>2. 1..Len(<<>>) = {}
    OBVIOUS
  <2>3. {} \subseteq {Top.node} /\ seen' = seen \cup {}
    BY <1>1
  <2> QED BY <1>1, <1>2, <2>1, <2>2, <2>3, VisitedOnceKept DEF Exploring
<1> QED BY <1>1, <1>2, <1>8, <1>9, ExploringKept

\* The block is closed and nothing follows: at an exit, or at a dead end.
LEMMA EndStep ==
  ASSUME Building, Exploring, pc = "blocks", pc' = "blocks", working # <<>>, Top.node \notin seen,
         AddIBBNode(Path(Top)), working' = Rest, UNCHANGED <<icfg, functions>>,
         NEW marked \in SUBSET {Top.node}, seen' = seen \cup marked, OutNodes(Top.node) = {}
  PROVE  Exploring'
<1>1. Pushed(<<>>)
  BY PopOnly
<1>2. PICK t \in Steps : t = Top
  BY TopPending
<1>3. PICK under \in SUBSET Steps : under = Under
  BY <1>1, StackSets
<1>4. Popped(t, under, Path(t), {Visit(n, <<>>) : n \in {}}, marked)
  <2>1. Nodes(Path(t)) \cap Allocated = {} /\ blocks' = (IF Path(t) = <<>> THEN blocks ELSE blocks \cup {Path(t)})
    BY <1>2, AddedBlock
  <2>2. Pending = Under \cup {Top} /\ Pending' = Under \cup {<<>>[i] : i \in 1..Len(<<>>)}
    BY <1>1, StackSets
  <2>3. Pending' = Under
    BY <2>2
  <2>4. {Visit(n, <<>>) : n \in {}} = {}
    OBVIOUS
  <2> QED BY <1>2, <1>3, <2>1, <2>2, <2>3, <2>4 DEF Popped
<1>5. Explored'
  <2>1. OutNodes(t.node) = {} /\ t.node \notin seen /\ marked \subseteq {t.node}
    BY <1>2
  <2> QED BY <1>4, <2>1, Closes DEF Exploring
<1>6. VisitedOnce'
  <2>1. Allocated \subseteq Allocated'
    BY <1>4, PoppedSets
  <2>2. 1..Len(<<>>) = {}
    OBVIOUS
  <2> QED BY <1>1, <2>1, <2>2, VisitedOnceKept DEF Exploring
<1>7. \A i \in 1..Len(<<>>) : <<>>[i].node \notin Entries
  OBVIOUS
<1> QED BY <1>1, <1>5, <1>6, <1>7, ExploringKept

LEMMA AtExitStep ==
  ASSUME Building, Exploring, AtExit, pc' = "blocks"
  PROVE  Exploring'
<1>1. /\ pc = "blocks" /\ working # <<>> /\ Top.node \notin seen /\ AddIBBNode(Path(Top)) /\ working' = Rest
      /\ UNCHANGED <<icfg, functions>> /\ {} \in SUBSET {Top.node} /\ seen' = seen \cup {}
  BY DEF AtExit, Visiting, Path
<1>2. OutNodes(Top.node) = {}
  <2>1. IsExit(Top.node)
    BY DEF AtExit
  <2> QED BY <2>1, NodeKinds DEF OutNodes
<1> QED BY <1>1, <1>2, EndStep

LEMMA OutNodesFinite ==
  ASSUME Building, NEW n
  PROVE  IsFiniteSet(OutNodes(n))
<1>1. IsFiniteSet(icfg.nodes)
  BY IcfgsAssumption DEF Building
<1> QED BY <1>1, OutNodesTyped, FS_Subset

LEMMA DeadEndStep ==
  ASSUME Building, Exploring, DeadEnd, pc' = "blocks"
  PROVE  Exploring'
<1>1. /\ pc = "blocks" /\ working # <<>> /\ Top.node \notin seen /\ AddIBBNode(Path(Top)) /\ working' = Rest
      /\ UNCHANGED <<icfg, functions>> /\ {Top.node} \in SUBSET {Top.node} /\ seen' = seen \cup {Top.node}
  BY DEF DeadEnd, Inner, Visiting, Path
<1>2. OutNodes(Top.node) = {}
  <2>1. Cardinality(OutNodes(Top.node)) = 0
    BY DEF DeadEnd, OutDegree
  <2> QED BY <2>1, OutNodesFinite, FS_EmptySet
<1> QED BY <1>1, <1>2, EndStep

LEMMA AtCallStep ==
  ASSUME Building, Exploring, AtCall, pc' = "blocks"
  PROVE  Exploring'
<1>1. /\ pc = "blocks" /\ working # <<>> /\ Top.node \notin seen /\ AddIBBNode(Path(Top))
      /\ UNCHANGED <<icfg, functions, seen>>
  BY DEF AtCall, Visiting, Path
<1>2. PICK s \in icfg.sites : s.call = Top.node /\ working' = Append(Rest, Visit(s.ret, <<>>))
  BY DEF AtCall
<1>3. PICK t \in Steps : t = Top
  BY <1>1, TopPending
<1>4. PICK v \in Steps : v = Visit(s.ret, <<>>) /\ v.node = s.ret
  <2>1. s.ret \in icfg.nodes
    BY IcfgsAssumption DEF Building
  <2>2. <<>> \in Seq(icfg.nodes)
    OBVIOUS
  <2> QED BY <2>1, <2>2, VisitTyped
<1>5. Pushed(<<v>>)
  BY <1>1, <1>2, <1>4, PushOne
<1>6. PICK under \in SUBSET Steps : under = Under
  BY <1>5, StackSets
<1>7. Popped(t, under, Path(t), {Visit(n, <<>>) : n \in {s.ret}}, {})
  <2>1. Nodes(Path(t)) \cap Allocated = {} /\ blocks' = (IF Path(t) = <<>> THEN blocks ELSE blocks \cup {Path(t)})
    BY <1>1, <1>3, AddedBlock
  <2>2. Pending = Under \cup {Top} /\ Pending' = Under \cup {<<v>>[i] : i \in 1..Len(<<v>>)}
    BY <1>5, StackSets
  <2>3. Pending' = Under \cup {v}
    BY <2>2
  <2>4. {Visit(n, <<>>) : n \in {s.ret}} = {v}
    BY <1>4
  <2> QED BY <1>1, <1>3, <1>6, <2>1, <2>2, <2>3, <2>4 DEF Popped
<1>8. OutNodes(t.node) \subseteq {s.ret}
  <2>1. ASSUME NEW n \in OutNodes(t.node)
        PROVE  n = s.ret
    <3>1. <<t.node, n>> \in IntraEdges /\ IsCall(t.node)
      BY <1>2, <1>3, OutNodesTyped, IcfgsAssumption DEF OutNodes, IsCall, IntraEdges, Building
    <3>2. PICK r \in icfg.sites : r.call = t.node /\ r.ret = n
      BY <3>1, NodeKinds
    <3> QED BY <1>2, <1>3, <3>2, IcfgsAssumption DEF Building
  <2> QED BY <2>1
<1>9. Explored'
  <2>1. PICK marked : marked = {}
    OBVIOUS
  <2>2. Popped(t, under, Path(t), {Visit(n, <<>>) : n \in {s.ret}}, marked)
    BY <1>7, <2>1
  <2>3. t.node \notin seen /\ marked \subseteq {t.node} /\ (marked # {} => InDegree(t.node) = 1 \/ OutNodes(t.node) = {})
    BY <1>1, <1>3, <2>1
  <2>4. PICK after : after = {s.ret}
    OBVIOUS
  <2>5. Popped(t, under, Path(t), {Visit(n, <<>>) : n \in after}, marked) /\ OutNodes(t.node) \subseteq after
    BY <1>8, <2>2, <2>4
  <2> QED BY <2>3, <2>5, Closes DEF Exploring
<1>10. t.node \notin Allocated /\ t.node \in Allocated' /\ Allocated \subseteq Allocated'
  <2>1. t.node \in Nodes(Path(t)) /\ Path(t) # <<>>
    BY PathFacts
  <2>2. blocks' = blocks \cup {Path(t)} /\ Nodes(Path(t)) \cap Allocated = {}
    BY <1>7, <2>1 DEF Popped
  <2>3. Allocated' = Allocated \cup Nodes(Path(t))
    BY <2>2 DEF Allocated
  <2> QED BY <2>1, <2>2, <2>3
<1>11. ASSUME InDegree(v.node) = 1
       PROVE  /\ v.node \notin seen \cup PendingNodes
              /\ \A m : <<m, v.node>> \in IntraEdges => m \in seen' \/ (IsCall(m) /\ m \in Allocated')
              /\ \A r \in InternalSites : r.ret = v.node => r.call \in Allocated'
  <2>1. CASE s \in InternalSites
    BY <1>2, <1>3, <1>4, <1>10, <1>11, <2>1, OneWayIn DEF Exploring, VisitedOnce
  <2>2. CASE s \notin InternalSites
    <3>1. <<t.node, v.node>> \in IntraEdges /\ IsCall(t.node)
      BY <1>2, <1>3, <1>4, <2>2 DEF IntraEdges, IsCall
    <3> QED BY <1>1, <1>3, <1>10, <1>11, <3>1, OneWayIn DEF Exploring, VisitedOnce
  <2> QED BY <2>1, <2>2
<1>12. \A i \in 1..Len(<<v>>) : <<v>>[i] = v /\ \A j \in 1..Len(<<v>>) : i = j
  OBVIOUS
<1>13. VisitedOnce'
  <2>1. {} \subseteq {Top.node} /\ seen' = seen \cup {}
    BY <1>1
  <2>2. \A i \in 1..Len(<<v>>) : InDegree(<<v>>[i].node) = 1 =>
           /\ <<v>>[i].node \notin seen \cup PendingNodes
           /\ \A j \in 1..Len(<<v>>) : <<v>>[i].node = <<v>>[j].node => i = j
           /\ \A m : <<m, <<v>>[i].node>> \in IntraEdges => m \in seen' \/ (IsCall(m) /\ m \in Allocated')
           /\ \A r \in InternalSites : r.ret = <<v>>[i].node => r.call \in Allocated'
    BY <1>11, <1>12
  <2> QED BY <1>1, <1>5, <1>10, <2>1, <2>2, VisitedOnceKept DEF Exploring
<1>14. \A i \in 1..Len(<<v>>) : <<v>>[i].node \notin Entries
  BY <1>4, <1>12, NodeKinds
<1> QED BY <1>1, <1>5, <1>9, <1>13, <1>14, ExploringKept

LEMMA InOut ==
  ASSUME Building, NEW m, NEW n
  PROVE  n \in OutNodes(m) <=> <<m, n>> \in IntraEdges
<1>1. IntraEdges \subseteq icfg.nodes \X icfg.nodes
  BY IcfgsAssumption DEF Building, IntraEdges, InternalSites
<1> QED BY <1>1 DEF OutNodes

LEMMA StraightStep ==
  ASSUME Building, Exploring, Straight
  PROVE  Exploring'
<1>1. /\ pc = "blocks" /\ working # <<>> /\ Top.node \notin seen /\ ~IsCall(Top.node)
      /\ InDegree(Top.node) = 1 /\ Cardinality(OutNodes(Top.node)) = 1
      /\ seen' = seen \cup {Top.node} /\ UNCHANGED <<icfg, functions, blocks>>
  BY DEF Straight, Inner, Visiting, OutDegree
<1>2. PICK next \in OutNodes(Top.node) : working' = Append(Rest, Visit(next, Append(Top.list, Top.node)))
  BY DEF Straight
<1>3. PICK t \in Steps : t = Top
  BY <1>1, TopPending
<1>4. OutNodes(t.node) = {next} /\ next \in icfg.nodes
  <2>1. \E x : OutNodes(t.node) = {x}
    BY <1>1, <1>3, OutNodesFinite, FS_Singleton
  <2> QED BY <1>2, <1>3, <2>1, OutNodesTyped
<1>5. PICK v \in Steps : v = Visit(next, Path(t)) /\ v.node = next
  <2>1. Path(t) \in Seq(icfg.nodes)
    BY PathFacts
  <2> QED BY <1>4, <2>1, VisitTyped
<1>6. Pushed(<<v>>)
  BY <1>1, <1>2, <1>3, <1>5, PushOne DEF Path
<1>7. PICK under \in SUBSET Steps : under = Under
  BY <1>6, StackSets
<1>8. Popped(t, under, <<>>, {Visit(next, Path(t))}, {t.node})
  <2>1. Pending = Under \cup {Top} /\ Pending' = Under \cup {<<v>>[i] : i \in 1..Len(<<v>>)}
    BY <1>6, StackSets
  <2>2. Pending' = Under \cup {v}
    BY <2>1
  <2>3. Nodes(<<>>) \cap Allocated = {}
    BY ShortLists
  <2> QED BY <1>1, <1>3, <1>5, <1>7, <2>1, <2>2, <2>3 DEF Popped
<1>9. Explored'
  BY <1>1, <1>3, <1>4, <1>8, Extends DEF Exploring
<1>10. <<t.node, v.node>> \in IntraEdges
  BY <1>4, <1>5, InOut
<1>11. ASSUME InDegree(v.node) = 1
       PROVE  /\ v.node \notin seen \cup PendingNodes
              /\ \A m : <<m, v.node>> \in IntraEdges => m \in seen' \/ (IsCall(m) /\ m \in Allocated')
              /\ \A r \in InternalSites : r.ret = v.node => r.call \in Allocated'
  BY <1>1, <1>3, <1>10, <1>11, OneWayIn DEF Exploring, VisitedOnce
<1>12. \A i \in 1..Len(<<v>>) : <<v>>[i] = v /\ \A j \in 1..Len(<<v>>) : i = j
  OBVIOUS
<1>13. VisitedOnce'
  <2>1. \A i \in 1..Len(<<v>>) : InDegree(<<v>>[i].node) = 1 =>
           /\ <<v>>[i].node \notin seen \cup PendingNodes
           /\ \A j \in 1..Len(<<v>>) : <<v>>[i].node = <<v>>[j].node => i = j
           /\ \A m : <<m, <<v>>[i].node>> \in IntraEdges => m \in seen' \/ (IsCall(m) /\ m \in Allocated')
           /\ \A r \in InternalSites : r.ret = <<v>>[i].node => r.call \in Allocated'
    BY <1>11, <1>12
  <2>2. Allocated' = Allocated
    BY <1>1 DEF Allocated
  <2> QED BY <1>1, <1>6, <2>1, <2>2, VisitedOnceKept DEF Exploring
<1>14. \A i \in 1..Len(<<v>>) : <<v>>[i].node \notin Entries
  BY <1>10, <1>12, NodeKinds
<1> QED BY <1>1, <1>6, <1>9, <1>13, <1>14, ExploringKept

LEMMA SplitStep ==
  ASSUME Building, Exploring, Split, pc' = "blocks"
  PROVE  Exploring'
<1>1. /\ pc = "blocks" /\ working # <<>> /\ Top.node \notin seen /\ ~IsCall(Top.node)
      /\ OutDegree(Top.node) # 0 /\ AddIBBNode(SplitLists[1])
      /\ seen' = seen \cup {Top.node} /\ UNCHANGED <<icfg, functions>>
  BY DEF Split, Inner, Visiting
<1>2. PICK order \in [1..OutDegree(Top.node) -> OutNodes(Top.node)] :
         /\ {order[k] : k \in DOMAIN order} = OutNodes(Top.node)
         /\ working' = Rest \o [k \in DOMAIN order |-> Visit(order[k], SplitLists[2])]
  BY DEF Split
<1>3. PICK t \in Steps : t = Top
  BY <1>1, TopPending
<1>4. PICK after \in SUBSET icfg.nodes : after = OutNodes(t.node)
  BY OutNodesTyped
<1>5. PICK n \in Nat \ {0} : n = Cardinality(after)
  BY <1>1, <1>3, <1>4, OutNodesTyped DEF OutDegree
<1>6. order \in [1..n -> after] /\ {order[k] : k \in 1..n} = after
  BY <1>2, <1>3, <1>4, <1>5 DEF OutDegree
<1>7. after # {} /\ \A i, j \in 1..n : order[i] = order[j] => i = j
  <2>1. order \in Surjection(1..n, after)
    BY <1>6 DEF Surjection
  <2>2. IsFiniteSet(1..n) /\ Cardinality(1..n) = n
    BY <1>5, FS_Interval
  <2>3. order \in Injection(1..n, after)
    BY <1>5, <2>1, <2>2, FS_SurjSameCardinalityImpliesInj
  <2>4. DOMAIN order = 1..n /\ 1 \in 1..n /\ order[1] \in after
    BY <1>5, <1>6
  <2>5. \A i, j \in DOMAIN order : order[i] = order[j] => i = j
    BY <2>3 DEF Injection, IsInjective
  <2> QED BY <2>4, <2>5
<1>8. PICK first : first = SplitLists[2]
  OBVIOUS
<1>9. \/ InDegree(t.node) = 1 /\ SplitLists[1] = Path(t) /\ first = <<>>
      \/ InDegree(t.node) # 1 /\ SplitLists[1] = t.list /\ first = <<t.node>>
  BY <1>3, <1>8 DEF SplitLists, Path
<1>10. first \in Seq(icfg.nodes)
  <2>1. <<t.node>> \in Seq(icfg.nodes)
    BY SingletonSeq DEF Steps
  <2>2. <<>> \in Seq(icfg.nodes)
    OBVIOUS
  <2> QED BY <1>9, <2>1, <2>2
<1>11. PICK w : w = [k \in 1..n |-> Visit(order[k], first)]
  OBVIOUS
<1>12. /\ w \in Seq(Steps) /\ Len(w) = n /\ working' = Rest \o w
       /\ \A k \in 1..n : w[k] = Visit(order[k], first) /\ w[k].node = order[k]
  <2>1. \A k \in 1..n : Visit(order[k], first) \in Steps /\ Visit(order[k], first).node = order[k]
    BY <1>6, <1>10 DEF Visit, Steps
  <2> HIDE DEF Steps
  <2>2. w \in [1..n -> Steps]
    BY <1>11, <2>1
  <2>3. w \in Seq(Steps) /\ Len(w) = n
    <3>1. w \in UNION {[1..d -> Steps] : d \in Nat}
      BY <1>5, <2>2
    <3>2. w \in Seq(Steps)
      BY <3>1, SeqDef
    <3> QED BY <1>5, <2>2, <3>2, LenProperties
  <2> QED BY <1>2, <1>6, <1>8, <1>11, <2>1, <2>3
<1>13. Pushed(w)
  BY <1>1, <1>12, PushMany
<1>14. PICK under \in SUBSET Steps : under = Under
  BY <1>13, StackSets
<1>15. Pending = under \cup {t} /\ Pending' = under \cup {Visit(m, first) : m \in after}
  <2>1. Pending = Under \cup {Top} /\ Pending' = Under \cup {w[i] : i \in 1..Len(w)}
    BY <1>13, StackSets
  <2>2. {w[i] : i \in 1..n} = {Visit(m, first) : m \in after}
    <3>1. \A i \in 1..n : order[i] \in after /\ w[i] = Visit(order[i], first)
      BY <1>6, <1>12
    <3>2. \A m \in after : \E i \in 1..n : m = order[i]
      BY <1>6
    <3> QED BY <3>1, <3>2
  <2> QED BY <1>3, <1>12, <1>14, <2>1, <2>2
<1>16. PICK list : list = SplitLists[1]
  OBVIOUS
<1>17. Nodes(list) \cap Allocated = {} /\ blocks' = (IF list = <<>> THEN blocks ELSE blocks \cup {list})
  BY <1>1, <1>16, AddedBlock
<1>18. Popped(t, under, list, {Visit(m, first) : m \in after}, {t.node})
  BY <1>1, <1>3, <1>15, <1>17 DEF Popped
<1>19. Explored'
  <2>1. CASE InDegree(t.node) = 1
    <3>1. Popped(t, under, Path(t), {Visit(m, <<>>) : m \in after}, {t.node})
      BY <1>9, <1>16, <1>18, <2>1
    <3> QED BY <1>1, <1>3, <1>4, <2>1, <3>1, Closes DEF Exploring
  <2>2. CASE InDegree(t.node) # 1
    <3>1. Popped(t, under, t.list, {Visit(m, <<t.node>>) : m \in after}, {t.node})
      BY <1>9, <1>16, <1>18, <2>2
    <3> QED BY <1>1, <1>3, <1>4, <1>7, <3>1, Joins DEF Exploring
  <2> QED BY <2>1, <2>2
<1>20. ASSUME NEW o \in after
       PROVE  /\ <<t.node, o>> \in IntraEdges /\ o \notin Entries
              /\ InDegree(o) = 1 =>
                   /\ o \notin seen \cup PendingNodes
                   /\ \A m : <<m, o>> \in IntraEdges => m \in seen' \/ (IsCall(m) /\ m \in Allocated')
                   /\ \A r \in InternalSites : r.ret = o => r.call \in Allocated'
  <2>1. <<t.node, o>> \in IntraEdges
    BY <1>4, <1>20, InOut
  <2>2. o \notin Entries
    BY <2>1, NodeKinds
  <2>3. ASSUME InDegree(o) = 1
        PROVE  /\ o \notin seen \cup PendingNodes
               /\ \A m : <<m, o>> \in IntraEdges => m \in seen' \/ (IsCall(m) /\ m \in Allocated')
               /\ \A r \in InternalSites : r.ret = o => r.call \in Allocated'
    BY <1>1, <1>3, <2>1, <2>3, OneWayIn DEF Exploring, VisitedOnce
  <2> QED BY <2>1, <2>2, <2>3
<1>21. VisitedOnce'
  <2>1. \A i \in 1..Len(w) : InDegree(w[i].node) = 1 =>
           /\ w[i].node \notin seen \cup PendingNodes
           /\ \A j \in 1..Len(w) : w[i].node = w[j].node => i = j
           /\ \A m : <<m, w[i].node>> \in IntraEdges => m \in seen' \/ (IsCall(m) /\ m \in Allocated')
           /\ \A r \in InternalSites : r.ret = w[i].node => r.call \in Allocated'
    <3>1. \A i \in 1..n : w[i].node = order[i] /\ order[i] \in after
      BY <1>6, <1>12
    <3>2. \A i, j \in 1..n : w[i].node = w[j].node => i = j
      BY <1>7, <3>1
    <3> QED BY <1>12, <1>20, <3>1, <3>2
  <2>2. Allocated \subseteq Allocated'
    BY <1>18, PoppedSets
  <2> QED BY <1>1, <1>13, <2>1, <2>2, VisitedOnceKept DEF Exploring
<1>22. \A i \in 1..Len(w) : w[i].node \notin Entries
  BY <1>6, <1>12, <1>20
<1> QED BY <1>1, <1>13, <1>19, <1>21, <1>22, ExploringKept

\* A function starts with an empty stack.
LEMMA StartStep ==
  ASSUME Building, Exploring, NEW f \in functions, StartFunction(f)
  PROVE  Exploring'
<1>1. /\ working = <<>> /\ functions' = functions \ {f} /\ seen' = {} /\ UNCHANGED <<icfg, blocks>>
      /\ working' = <<Visit(icfg.entry[f], <<>>)>>
  BY DEF StartFunction
<1>2. f \in DOMAIN icfg.entry /\ icfg.entry[f] \in icfg.nodes
  BY IcfgsAssumption DEF Building
<1>3. PICK n \in icfg.nodes : n = icfg.entry[f]
  BY <1>2
<1>4. PICK v \in Steps : v = Visit(n, <<>>) /\ v.node = n /\ v.list = <<>> /\ Path(v) = <<n>>
  <2>1. <<>> \in Seq(icfg.nodes)
    OBVIOUS
  <2> QED BY <2>1, VisitTyped, VisitFacts, FirstAppend
<1>5. DOMAIN working' = {1} /\ Len(working') = 1 /\ working'[1] = v
  BY <1>1, <1>3, <1>4
<1>6. Pending = {} /\ PendingNodes = {}
  BY <1>1 DEF Pending, PendingNodes
<1>7. Pending' = {v} /\ PendingNodes' = {n}
  BY <1>4, <1>5 DEF Pending, PendingNodes
<1>8. /\ IntraEdges' = IntraEdges /\ InternalSites' = InternalSites /\ Entries' = Entries
      /\ (\A m : OutNodes(m)' = OutNodes(m)) /\ (\A m : InDegree(m)' = InDegree(m)) /\ (\A m : IsCall(m)' = IsCall(m))
  BY <1>1, IcfgKept
<1>9. Allocated' = Allocated /\ Lasts' = Lasts
  BY <1>1 DEF Allocated, Lasts
<1>10. Placed' = Placed
  BY <1>4, <1>6, <1>7, <1>9, ShortLists DEF Placed
<1>11. Started' = Started /\ Heads \subseteq Heads' /\ n \in Heads'
  <2>1. Started' = Started
    BY <1>1, <1>4, <1>6, <1>7 DEF Started
  <2> QED BY <1>4, <1>6, <1>7, <2>1 DEF Heads
<1>12. \A m, o : Consecutive(m, o)' <=> Consecutive(m, o)
  BY <1>1, <1>4, <1>6, <1>7, ShortLists DEF Consecutive
<1>13. NodesOnce'
  BY <1>1, <1>4, <1>7, ShortLists DEF Exploring, Explored, NodesOnce
<1>14. OnlyEdges'
  BY <1>8, <1>12 DEF Exploring, Explored, OnlyEdges
<1>15. AllEdges'
  BY <1>8, <1>9, <1>10, <1>11, <1>12 DEF Exploring, Explored, AllEdges, Kept
<1>16. JoinsStart' /\ CallsLast'
  BY <1>1, <1>8, <1>9, <1>10 DEF Exploring, Explored, JoinsStart, CallsLast
<1>17. EntriesFirst'
  BY <1>1, <1>3, <1>11 DEF Exploring, Explored, EntriesFirst
<1>18. EntriesAlone'
  BY <1>1, <1>5 DEF EntriesAlone
<1>19. VisitedOnce'
  <2>1. n \in Entries
    BY <1>2, <1>3 DEF Entries
  <2>2. \A m : <<m, n>> \notin IntraEdges
    BY <2>1, NodeKinds
  <2>3. \A s \in InternalSites : s.ret # n
    BY <2>1, NodeKinds DEF InternalSites
  <2> QED BY <1>1, <1>5, <1>7, <1>8, <2>2, <2>3 DEF VisitedOnce
<1> QED BY <1>13, <1>14, <1>15, <1>16, <1>17, <1>18, <1>19 DEF Exploring, Explored

\* When nothing is pending, every block is straight.
LEMMA Finished ==
  ASSUME Building, Exploring, working = <<>>, functions = {}
  PROVE  /\ \A b, c \in blocks : b # c => Nodes(b) \cap Nodes(c) = {}
         /\ \A b \in blocks : Cardinality(Nodes(b)) = Len(b)
         /\ \A e \in {e \in IntraEdges : e[1] \in Allocated} :
              \/ \E b \in blocks : \E k \in 1..(Len(b) - 1) : e = <<b[k], b[k + 1]>>
              \/ \E b, c \in blocks : e = <<LastOf(b), c[1]>>
              \/ OutNodes(e[2]) = {} /\ \E b, c \in blocks : e = <<LastOf(b), LastOf(c)>>
         /\ \A b \in blocks : \A k \in 1..(Len(b) - 1) : OutNodes(b[k]) = {b[k + 1]}
         /\ \A s \in InternalSites : s.call \in Allocated =>
              \E b, c \in blocks : LastOf(b) = s.call /\ c[1] = icfg.entry[s.fun]
<1>1. Pending = {}
  BY DEF Pending
<1>2. /\ Placed = Allocated /\ Heads = {b[1] : b \in blocks}
      /\ \A m, n : Consecutive(m, n) <=> \E b \in blocks : Follows(b, m, n)
  BY <1>1 DEF Placed, Heads, Started, Consecutive
<1>3. \A b \in blocks : b \in Seq(icfg.nodes) /\ Len(b) \in Nat \ {0} /\ DOMAIN b = 1..Len(b)
  BY EmptySeq, LenProperties DEF Building
<1>4. \A b, c \in blocks : b # c => Nodes(b) \cap Nodes(c) = {}
  BY DEF Exploring, Explored, NodesOnce
<1>5. \A b \in blocks : IsInjective(b)
  BY DEF Exploring, Explored, NodesOnce
<1>6. \A b \in blocks : Cardinality(Nodes(b)) = Len(b)
  <2> SUFFICES ASSUME NEW b \in blocks PROVE Cardinality(Nodes(b)) = Len(b)
    OBVIOUS
  <2>1. b \in Injection(1..Len(b), Nodes(b)) /\ b \in Surjection(1..Len(b), Nodes(b))
    BY <1>3, <1>5 DEF Injection, Surjection, Nodes
  <2>2. IsFiniteSet(1..Len(b)) /\ Cardinality(1..Len(b)) = Len(b)
    BY <1>3, FS_Interval
  <2> QED BY <2>1, <2>2, FS_Surjection
<1>7. \A m \in Allocated : \A n \in OutNodes(m) : (\E b \in blocks : Follows(b, m, n)) \/
         (m \in Lasts /\ ((\E c \in blocks : c[1] = n) \/ (OutNodes(n) = {} /\ n \in Lasts)))
  BY <1>2 DEF Exploring, Explored, AllEdges, Kept
<1>8. ASSUME NEW e \in IntraEdges, e[1] \in Allocated
      PROVE  \/ \E b \in blocks : \E k \in 1..(Len(b) - 1) : e = <<b[k], b[k + 1]>>
             \/ \E b, c \in blocks : e = <<LastOf(b), c[1]>>
             \/ OutNodes(e[2]) = {} /\ \E b, c \in blocks : e = <<LastOf(b), LastOf(c)>>
  <2>1. e = <<e[1], e[2]>>
    BY IcfgsAssumption DEF IntraEdges, InternalSites, Building
  <2>2. e[2] \in OutNodes(e[1])
    BY <2>1, InOut
  <2>3. CASE \E b \in blocks : Follows(b, e[1], e[2])
    BY <2>1, <2>3 DEF Follows
  <2>4. CASE e[1] \in Lasts /\ ((\E c \in blocks : c[1] = e[2]) \/ (OutNodes(e[2]) = {} /\ e[2] \in Lasts))
    BY <2>1, <2>4 DEF Lasts
  <2> QED BY <1>7, <1>8, <2>2, <2>3, <2>4
<1>9. ASSUME NEW b \in blocks, NEW k \in 1..(Len(b) - 1)
      PROVE  OutNodes(b[k]) = {b[k + 1]}
  <2>1. k \in DOMAIN b /\ k + 1 \in DOMAIN b /\ Len(b) \in DOMAIN b /\ k # Len(b)
    BY <1>3
  <2>2. b[k] \in Nodes(b) /\ b[k] \in Allocated
    BY <2>1 DEF Nodes, Allocated
  <2>3. b[k + 1] \in OutNodes(b[k])
    BY <1>2 DEF Follows, Exploring, Explored, OnlyEdges
  <2>4. \A c \in blocks : b[k] \in Nodes(c) => c = b
    BY <1>4, <2>2
  <2>5. b[k] \notin Lasts
    <3> SUFFICES ASSUME NEW c \in blocks, LastOf(c) = b[k] PROVE FALSE
      BY DEF Lasts
    <3>1. Len(c) \in DOMAIN c
      BY <1>3
    <3>2. c = b
      BY <2>4, <3>1 DEF LastOf, Nodes
    <3> QED BY <1>5, <2>1, <3>2 DEF LastOf, IsInjective
  <2>6. ASSUME NEW n \in OutNodes(b[k])
        PROVE  n = b[k + 1]
    <3>1. PICK c \in blocks : Follows(c, b[k], n)
      BY <1>7, <2>2, <2>5, <2>6
    <3>2. PICK l \in 1..(Len(c) - 1) : c[l] = b[k] /\ c[l + 1] = n
      BY <3>1 DEF Follows
    <3>3. l \in DOMAIN c
      BY <1>3
    <3>4. c = b
      BY <2>4, <3>2, <3>3 DEF Nodes
    <3>5. l = k
      BY <1>5, <2>1, <3>2, <3>3, <3>4 DEF IsInjective
    <3> QED BY <3>2, <3>4, <3>5
  <2> QED BY <2>3, <2>6
<1>10. ASSUME NEW s \in InternalSites, s.call \in Allocated
       PROVE  \E b, c \in blocks : LastOf(b) = s.call /\ c[1] = icfg.entry[s.fun]
  <2>1. IsCall(s.call) /\ s.fun \in DOMAIN icfg.entry
    BY IcfgsAssumption DEF IsCall, InternalSites, Building
  <2>2. s.call \in Lasts
    BY <1>2, <1>10, <2>1 DEF Exploring, Explored, CallsLast
  <2>3. icfg.entry[s.fun] \in Heads
    BY <2>1 DEF Exploring, Explored, EntriesFirst
  <2> QED BY <1>2, <2>2, <2>3 DEF Lasts
<1> QED BY <1>4, <1>6, <1>8, <1>9, <1>10

\* What BlocksAreStraight says of a graph that is built, and that it depends on the ICFG and the blocks alone.
Straights ==
  /\ \A b, c \in blocks : b # c => Nodes(b) \cap Nodes(c) = {}
  /\ \A b \in blocks : Cardinality(Nodes(b)) = Len(b)
  /\ \A e \in {e \in IntraEdges : e[1] \in Allocated} :
       \/ \E b \in blocks : \E k \in 1..(Len(b) - 1) : e = <<b[k], b[k + 1]>>
       \/ \E b, c \in blocks : e = <<LastOf(b), c[1]>>
       \/ OutNodes(e[2]) = {} /\ \E b, c \in blocks : e = <<LastOf(b), LastOf(c)>>
  /\ \A b \in blocks : \A k \in 1..(Len(b) - 1) : OutNodes(b[k]) = {b[k + 1]}
  /\ \A s \in InternalSites : s.call \in Allocated =>
       \E b, c \in blocks : LastOf(b) = s.call /\ c[1] = icfg.entry[s.fun]

LEMMA SameStraights ==
  ASSUME Straights, UNCHANGED <<icfg, blocks>>
  PROVE  Straights'
<1>1. /\ IntraEdges' = IntraEdges /\ InternalSites' = InternalSites /\ Allocated' = Allocated
      /\ icfg' = icfg /\ blocks' = blocks
  BY IcfgKept DEF Allocated
<1>2. \A n : OutNodes(n)' = OutNodes(n)
  BY IcfgKept
<1>3. (\A b, c \in blocks : b # c => Nodes(b) \cap Nodes(c) = {})'
  BY <1>1 DEF Straights
<1>4. (\A b \in blocks : Cardinality(Nodes(b)) = Len(b))'
  BY <1>1 DEF Straights
<1>5. (\A e \in {e \in IntraEdges : e[1] \in Allocated} :
         \/ \E b \in blocks : \E k \in 1..(Len(b) - 1) : e = <<b[k], b[k + 1]>>
         \/ \E b, c \in blocks : e = <<LastOf(b), c[1]>>
         \/ OutNodes(e[2]) = {} /\ \E b, c \in blocks : e = <<LastOf(b), LastOf(c)>>)'
  <2> SUFFICES ASSUME NEW e \in IntraEdges, e[1] \in Allocated
               PROVE  \/ \E b \in blocks : \E k \in 1..(Len(b) - 1) : e = <<b[k], b[k + 1]>>
                      \/ \E b, c \in blocks : e = <<LastOf(b), c[1]>>
                      \/ OutNodes(e[2])' = {} /\ \E b, c \in blocks : e = <<LastOf(b), LastOf(c)>>
    BY <1>1
  <2>1. OutNodes(e[2])' = OutNodes(e[2])
    BY <1>2
  <2> QED BY <2>1 DEF Straights
<1>6. (\A b \in blocks : \A k \in 1..(Len(b) - 1) : OutNodes(b[k]) = {b[k + 1]})'
  BY <1>1, <1>2 DEF Straights
<1>7. (\A s \in InternalSites : s.call \in Allocated =>
         \E b, c \in blocks : LastOf(b) = s.call /\ c[1] = icfg.entry[s.fun])'
  BY <1>1 DEF Straights
<1> QED BY <1>3, <1>4, <1>5, <1>6, <1>7 DEF Straights

\* The graph does not change once it is built.
LEMMA StraightKept ==
  ASSUME BlocksInv, UNCHANGED <<icfg, blocks>>, pc \notin {"blocks", "conflict"} \/ pc' = pc
  PROVE  pc' \notin {"blocks"} => BlocksInv'
<1> SUFFICES ASSUME pc' \notin {"blocks", "conflict"} PROVE BlocksAreStraight'
  BY DEF BlocksInv, BlocksAreStraight
<1>1. Straights
  BY DEF BlocksInv, BlocksAreStraight, Straights
<1>2. Straights'
  BY <1>1, SameStraights
<1> QED BY <1>2 DEF BlocksAreStraight, Straights

LEMMA BlocksStart == Init => BlocksInv
<1> SUFFICES ASSUME Init PROVE BlocksInv
  OBVIOUS
<1>1. /\ pc = "blocks" /\ functions = DOMAIN icfg.entry /\ working = <<>> /\ seen = {} /\ blocks = {}
      /\ Pending = {} /\ PendingNodes = {} /\ Placed = {}
  BY DEF Init, InitBuild, Pending, PendingNodes, Placed, Allocated
<1>2. Explored
  BY <1>1 DEF Explored, NodesOnce, OnlyEdges, AllEdges, JoinsStart, CallsLast, EntriesFirst, Consecutive
<1>3. VisitedOnce /\ EntriesAlone
  BY <1>1 DEF VisitedOnce, EntriesAlone
<1> QED BY <1>1, <1>2, <1>3 DEF BlocksInv, Exploring, BlocksAreStraight

LEMMA BlocksBuilt ==
  ASSUME Building, BlocksInv, Build
  PROVE  BlocksInv'
<1>1. CASE pc' = "conflict"
  BY <1>1 DEF BlocksInv, BlocksAreStraight
<1>2. CASE pc' = "blocks" /\ pc = "blocks"
  <2>1. Exploring'
    <3>1. Exploring
      BY <1>2 DEF BlocksInv
    <3>2. ~AddEdges
      BY <1>2 DEF AddEdges
    <3> QED BY <1>2, <3>1, <3>2, StartStep, AlreadyVisitedStep, AtExitStep, AtCallStep, StraightStep, DeadEndStep,
               SplitStep DEF Build
  <2> QED BY <1>2, <2>1 DEF BlocksInv, BlocksAreStraight
<1>3. CASE AddEdges
  <2>1. Exploring /\ working = <<>> /\ functions = {} /\ UNCHANGED <<icfg, blocks>> /\ pc' = "built"
    BY <1>3 DEF AddEdges, BlocksInv
  <2>2. Straights
    BY <2>1, Finished DEF Straights
  <2>3. BlocksAreStraight'
    BY <2>1, <2>2, SameStraights DEF BlocksAreStraight, Straights
  <2> QED BY <2>1, <2>3 DEF BlocksInv
<1>4. pc = "blocks" /\ (pc' \in {"blocks", "conflict"} \/ AddEdges)
  <2>1. \A list : AddIBBNode(list) => pc' \in {pc, "conflict"}
    BY DEF AddIBBNode
  <2>2. CASE \E f \in functions : StartFunction(f)
    BY <2>2 DEF StartFunction
  <2>3. CASE AlreadyVisited \/ DeadEnd \/ AtExit
    BY <2>1, <2>3 DEF AlreadyVisited, AtExit, DeadEnd, Inner, Visiting
  <2>4. CASE AtCall
    BY <2>1, <2>4 DEF AtCall, Visiting
  <2>5. CASE Straight
    BY <2>5 DEF Straight, Inner, Visiting
  <2>6. CASE Split
    BY <2>1, <2>6 DEF Split, Inner, Visiting
  <2>7. CASE AddEdges
    BY <2>7 DEF AddEdges
  <2> QED BY <2>2, <2>3, <2>4, <2>5, <2>6, <2>7 DEF Build
<1> QED BY <1>1, <1>2, <1>3, <1>4

LEMMA BlocksStep == IInv /\ BlocksInv /\ [Next]_vars => BlocksInv'
<1> SUFFICES ASSUME IInv, BlocksInv, [Next]_vars PROVE BlocksInv'
  OBVIOUS
<1>1. CASE Build
  BY <1>1, BlocksBuilt DEF IInv
<1>2. CASE Analyse \/ (\E e \in edges : Walk(e)) \/ Explore
  <2>1. UNCHANGED <<icfg, blocks>> /\ pc \notin {"blocks", "conflict"} /\ pc' # "blocks"
    BY <1>2 DEF Analyse, NoRoot, StartDom, NoPair, UpdateDom, NextSweep, DomDone, Walk, Explore, Avoid, GoOn, buildVars
  <2> QED BY <2>1, StraightKept
<1>3. CASE UNCHANGED vars
  <2>1. UNCHANGED <<icfg, pc, functions, working, seen, blocks>>
    BY <1>3 DEF vars, buildVars
  <2>2. CASE pc = "blocks"
    BY <2>1, <2>2, IcfgKept DEF BlocksInv, Exploring, Explored, NodesOnce, OnlyEdges, AllEdges, JoinsStart, VisitedOnce,
       CallsLast, EntriesFirst, EntriesAlone, Consecutive, Kept, Pending, PendingNodes, Placed, Started, Heads, Lasts,
       Allocated, BlocksAreStraight
  <2> QED BY <2>1, <2>2, StraightKept
<1> QED BY <1>1, <1>2, <1>3 DEF Next

\* The blocks of every graph are straight: what inferSubGraph builds says what the ICFG says.
THEOREM BlocksStraight == Spec => []BlocksAreStraight
<1>1. BlocksInv => BlocksAreStraight
  BY DEF BlocksInv
<1> QED BY <1>1, BlocksStart, BlocksStep, Inductive, PTL DEF Spec
-----------------------------------------------------------------------------
(* The analysis is exact. *)

\* The function of a node, and the block in which the execution comes into the function of a block.
Owner == CHOOSE owner \in [icfg.nodes -> DOMAIN icfg.entry] : OwnedBy(icfg, owner)
StartNode(f) == IF post THEN icfg.exit[f] ELSE icfg.entry[f]
StartOf(n) == BlockOf(StartNode(Owner[n[1]]))

Linking == pc \notin {"blocks", "conflict"} => edges = BlockEdges

NoOrphans == \A n \in blocks \ {Root} : Into(n) # {}

\* A set that holds the executions that avoid b, and more maybe.
ClosedUnder(S, b) == FromRoot(b) \cup Beyond(S, b) \subseteq S

Reaches(n, b) == \A S : ClosedUnder(S, b) => <<StartOf(n), n>> \in S

\* Whatever the sweeps have taken away from a block can be avoided on the way to it.
Complete ==
  pc \in {"dom", "done", "avoiding"} /\ NoOrphans =>
    \A n, b \in blocks : b \notin dom[n] => Reaches(n, b)

\* The executions that avoid a block have not come to one that it dominates.
Avoiding ==
  pc = "avoiding" =>
    /\ avoid \in blocks /\ FromRoot(avoid) \subseteq reached
    /\ \A p \in reached : p[2] \in blocks /\ avoid \notin dom[p[2]]
-----------------------------------------------------------------------------
LEMMA OwnerFacts ==
  ASSUME Building
  PROVE  /\ Owner \in [icfg.nodes -> DOMAIN icfg.entry]
         /\ \A f \in DOMAIN icfg.entry : Owner[icfg.entry[f]] = f /\ Owner[icfg.exit[f]] = f
         /\ \A e \in IntraEdges : Owner[e[1]] = Owner[e[2]]
         /\ \A s \in icfg.sites : Owner[s.call] = Owner[s.ret]
<1>1. \E owner \in [icfg.nodes -> DOMAIN icfg.entry] : OwnedBy(icfg, owner)
  BY FunctionsAssumption DEF Building
<1>2. Owner \in [icfg.nodes -> DOMAIN icfg.entry] /\ OwnedBy(icfg, Owner)
  BY <1>1 DEF Owner
<1>3. /\ \A f \in DOMAIN icfg.entry : Owner[icfg.entry[f]] = f /\ Owner[icfg.exit[f]] = f
      /\ \A e \in icfg.intra : Owner[e[1]] = Owner[e[2]]
      /\ \A s \in icfg.sites : Owner[s.call] = Owner[s.ret]
  BY <1>2 DEF OwnedBy
<1>4. ASSUME NEW e \in IntraEdges
      PROVE  Owner[e[1]] = Owner[e[2]]
  <2>1. CASE e \in icfg.intra
    BY <1>3, <2>1
  <2>2. CASE e \notin icfg.intra
    <3>1. PICK s \in icfg.sites : e = <<s.call, s.ret>>
      BY <1>4, <2>2 DEF IntraEdges
    <3> QED BY <1>3, <3>1
  <2> QED BY <2>1, <2>2
<1> QED BY <1>2, <1>3, <1>4

\* The nodes of a block are of one function: the first that is not would follow one that is.
LEMMA OneOwner ==
  ASSUME Building, Straights, NEW b \in blocks, NEW k \in DOMAIN b
  PROVE  Owner[b[k]] = Owner[b[1]]
<1> DEFINE T == {i \in DOMAIN b : Owner[b[i]] # Owner[b[1]]}
<1>1. b \in Seq(icfg.nodes) /\ DOMAIN b = 1..Len(b) /\ Len(b) \in Nat
  BY DEF Building
<1> SUFFICES ASSUME T # {} PROVE FALSE
  OBVIOUS
<1>2. T \subseteq Nat
  BY <1>1
<1>3. PICK i \in T : \A j \in T : ~(<<j, i>> \in OpToRel(<, Nat))
  <2> HIDE DEF T
  <2> QED BY <1>2, NatLessThanWellFounded, WFMin
<1>4. \A j \in T : ~(j < i)
  BY <1>2, <1>3 DEF OpToRel
<1>5. i \in 1..Len(b) /\ i # 1
  BY <1>1
<1>6. i - 1 \in 1..(Len(b) - 1) /\ i - 1 \in 1..Len(b) /\ i - 1 < i /\ (i - 1) + 1 = i
  BY <1>1, <1>5
<1>7. i - 1 \notin T
  BY <1>4, <1>6
<1>8. Owner[b[i - 1]] = Owner[b[1]]
  BY <1>1, <1>6, <1>7
<1>9. b[i] \in OutNodes(b[i - 1])
  BY <1>6 DEF Straights
<1>10. PICK e \in IntraEdges : e[1] = b[i - 1] /\ e[2] = b[i]
  BY <1>9 DEF OutNodes
<1>11. Owner[b[i]] = Owner[b[i - 1]]
  BY <1>10, OwnerFacts
<1> QED BY <1>8, <1>11

LEMMA BlockOfNode ==
  ASSUME Building, Straights, NEW n \in Allocated
  PROVE  BlockOf(n) \in blocks /\ n \in Nodes(BlockOf(n)) /\ Owner[BlockOf(n)[1]] = Owner[n]
<1>1. \E b \in blocks : n \in Nodes(b)
  BY DEF Allocated
<1>2. BlockOf(n) \in blocks /\ n \in Nodes(BlockOf(n))
  BY <1>1 DEF BlockOf
<1>3. PICK k \in DOMAIN BlockOf(n) : n = BlockOf(n)[k]
  BY <1>2 DEF Nodes
<1> QED BY <1>2, <1>3, OneOwner

LEMMA ExitsLast ==
  ASSUME Building, Straights, NEW f \in DOMAIN icfg.entry, icfg.exit[f] \in Allocated
  PROVE  \E b \in blocks : LastOf(b) = icfg.exit[f]
<1>1. PICK b \in blocks : icfg.exit[f] \in Nodes(b)
  BY DEF Allocated
<1>2. PICK k \in DOMAIN b : b[k] = icfg.exit[f]
  BY <1>1 DEF Nodes
<1>3. b \in Seq(icfg.nodes) /\ DOMAIN b = 1..Len(b) /\ Len(b) \in Nat
  BY DEF Building
<1>4. k = Len(b)
  <2> SUFFICES ASSUME k # Len(b) PROVE FALSE
    OBVIOUS
  <2>1. k \in 1..(Len(b) - 1)
    BY <1>3
  <2>2. b[k + 1] \in OutNodes(icfg.exit[f])
    BY <1>2, <2>1 DEF Straights
  <2>3. PICK e \in IntraEdges : e[1] = icfg.exit[f]
    BY <2>2 DEF OutNodes
  <2>4. IsExit(icfg.exit[f])
    BY IcfgsAssumption DEF IsExit, Building
  <2> QED BY <2>3, <2>4, NodeKinds
<1> QED BY <1>2, <1>4 DEF LastOf

\* What the three kinds of edges have to do with functions.
LEMMA BlockEdgeKinds ==
  ASSUME NEW e \in BlockEdges
  PROVE  \/ /\ e.kind = "intra"
            /\ \E x \in IntraEdges : Linked(x[1], x[2]) /\ e = Edge(x[1], x[2], "intra", NoBlock)
         \/ /\ e.kind = "call"
            /\ \E s \in InternalSites : /\ Linked(s.call, icfg.entry[s.fun])
                                         /\ e = Edge(s.call, icfg.entry[s.fun], "call", PairOf(s, s.ret))
         \/ /\ e.kind = "ret"
            /\ \E s \in InternalSites : /\ Linked(icfg.exit[s.fun], s.ret)
                                         /\ e = Edge(icfg.exit[s.fun], s.ret, "ret", PairOf(s, s.call))
<1>1. \A m, n, k, o : Edge(m, n, k, o).kind = k
  BY DEF Edge
<1>2. CASE e \in {Edge(x[1], x[2], "intra", NoBlock) : x \in {x \in IntraEdges : Linked(x[1], x[2])}}
  BY <1>1, <1>2
<1>3. CASE e \in {Edge(s.call, icfg.entry[s.fun], "call", PairOf(s, s.ret)) :
                    s \in {s \in InternalSites : Linked(s.call, icfg.entry[s.fun])}}
  BY <1>1, <1>3
<1>4. CASE e \in {Edge(icfg.exit[s.fun], s.ret, "ret", PairOf(s, s.call)) :
                    s \in {s \in InternalSites : Linked(icfg.exit[s.fun], s.ret)}}
  BY <1>1, <1>4
<1> QED BY <1>2, <1>3, <1>4 DEF BlockEdges

LEMMA SiteFacts ==
  ASSUME Building, NEW s \in InternalSites
  PROVE  /\ s \in icfg.sites /\ s.fun \in DOMAIN icfg.entry
         /\ Owner[icfg.entry[s.fun]] = s.fun /\ Owner[icfg.exit[s.fun]] = s.fun /\ Owner[s.call] = Owner[s.ret]
<1>1. s \in icfg.sites /\ s.fun \in DOMAIN icfg.entry
  BY IcfgsAssumption DEF InternalSites, Building
<1> QED BY <1>1, OwnerFacts

LEMMA LinkedNodes ==
  ASSUME Building, NEW m, NEW n, Linked(m, n)
  PROVE  m \in Allocated /\ n \in Allocated
BY LastAllocated DEF Linked

\* The edge and the return edge of a call are both there when they are paired.
LEMMA PairedEdges ==
  ASSUME Building, Straights, NEW s \in InternalSites, Paired(s)
  PROVE  /\ Edge(s.call, icfg.entry[s.fun], "call", PairOf(s, s.ret)) \in BlockEdges
         /\ Edge(icfg.exit[s.fun], s.ret, "ret", PairOf(s, s.call)) \in BlockEdges
<1>1. s.fun \in DOMAIN icfg.entry
  BY SiteFacts
<1>2. {s.call, s.ret, icfg.entry[s.fun], icfg.exit[s.fun]} \subseteq Allocated
  BY DEF Paired
<1>3. Linked(s.call, icfg.entry[s.fun])
  BY <1>2 DEF Linked, Straights
<1>4. Linked(icfg.exit[s.fun], s.ret)
  BY <1>1, <1>2, ExitsLast DEF Linked
<1> QED BY <1>3, <1>4 DEF BlockEdges

\* An edge inside a function stays inside; a call comes in at the start; a return closes a call that came from
\* the same function, and of which the callee is the one that it comes from.
LEMMA EdgeStarts ==
  ASSUME Building, Straights, edges = BlockEdges, NEW e \in edges
  PROVE  /\ ~Opening(e) /\ ~Closing(e) => StartOf(From(e)) = StartOf(To(e))
         /\ Opening(e) => StartOf(To(e)) = To(e)
         /\ Closing(e) /\ e.other # NoBlock =>
              /\ StartOf(e.other) = StartOf(To(e))
              /\ \E o \in edges : Opening(o) /\ From(o) = e.other /\ To(o) = StartOf(From(e))
<1>1. post \in BOOLEAN
  BY DEF Building
<1>2. \A m, n, k, o : /\ Edge(m, n, k, o).src = BlockOf(m) /\ Edge(m, n, k, o).dst = BlockOf(n)
                     /\ Edge(m, n, k, o).kind = k /\ Edge(m, n, k, o).other = o
  BY DEF Edge
<1>3. CASE e.kind = "intra"
  <2>1. PICK x \in IntraEdges : Linked(x[1], x[2]) /\ e = Edge(x[1], x[2], "intra", NoBlock)
    BY <1>3, BlockEdgeKinds
  <2>2. Owner[e.src[1]] = Owner[e.dst[1]]
    BY <1>2, <2>1, LinkedNodes, BlockOfNode, OwnerFacts
  <2> QED BY <1>1, <1>3, <2>2 DEF Opening, Closing, StartOf, From, To
<1>4. CASE e.kind # "intra"
  <2>1. PICK s \in InternalSites :
          \/ Linked(s.call, icfg.entry[s.fun]) /\ e = Edge(s.call, icfg.entry[s.fun], "call", PairOf(s, s.ret))
          \/ Linked(icfg.exit[s.fun], s.ret) /\ e = Edge(icfg.exit[s.fun], s.ret, "ret", PairOf(s, s.call))
    BY <1>4, BlockEdgeKinds
  <2> DEFINE call == Edge(s.call, icfg.entry[s.fun], "call", PairOf(s, s.ret))
             ret == Edge(icfg.exit[s.fun], s.ret, "ret", PairOf(s, s.call))
  <2>2. /\ call.src = BlockOf(s.call) /\ call.dst = BlockOf(icfg.entry[s.fun]) /\ call.kind = "call"
        /\ call.other = PairOf(s, s.ret)
        /\ ret.src = BlockOf(icfg.exit[s.fun]) /\ ret.dst = BlockOf(s.ret) /\ ret.kind = "ret"
        /\ ret.other = PairOf(s, s.call)
    BY <1>2
  <2>3. e = call \/ e = ret
    BY <2>1
  <2>4. Paired(s) => call \in edges /\ ret \in edges
    BY PairedEdges
  <2>5. /\ e = call => s.call \in Allocated /\ icfg.entry[s.fun] \in Allocated
        /\ e = ret => icfg.exit[s.fun] \in Allocated /\ s.ret \in Allocated
    BY <1>2, <2>1, LinkedNodes
  <2> HIDE DEF call, ret
  <2>6. CASE Opening(e)
    <3>1. ~Closing(e) /\ To(e) = BlockOf(StartNode(s.fun)) /\ StartNode(s.fun) \in Allocated
      BY <1>1, <2>2, <2>3, <2>5, <2>6 DEF Opening, Closing, To, StartNode
    <3>2. Owner[To(e)[1]] = Owner[StartNode(s.fun)]
      BY <3>1, BlockOfNode
    <3>3. Owner[StartNode(s.fun)] = s.fun
      BY SiteFacts DEF StartNode
    <3>4. Owner[To(e)[1]] = s.fun
      BY <3>2, <3>3
    <3>5. StartOf(To(e)) = To(e)
      BY <3>1, <3>4 DEF StartOf
    <3> QED BY <2>6, <3>1, <3>5
  <2>7. CASE Closing(e) /\ e.other # NoBlock
    <3>1. Paired(s)
      BY <2>2, <2>3, <2>7 DEF PairOf
    <3>2. PairOf(s, s.ret) = BlockOf(s.ret) /\ PairOf(s, s.call) = BlockOf(s.call)
      BY <3>1 DEF PairOf
    <3>3. {s.call, s.ret, icfg.entry[s.fun], icfg.exit[s.fun]} \subseteq Allocated
      BY <3>1 DEF Paired
    <3>4. /\ Owner[BlockOf(s.call)[1]] = Owner[s.call] /\ Owner[BlockOf(s.ret)[1]] = Owner[s.ret]
          /\ Owner[BlockOf(icfg.entry[s.fun])[1]] = s.fun /\ Owner[BlockOf(icfg.exit[s.fun])[1]] = s.fun
          /\ Owner[s.call] = Owner[s.ret]
      BY <3>3, BlockOfNode, SiteFacts
    <3>5. CASE post
      <4>1. e = call
        BY <2>2, <2>3, <2>7, <3>5 DEF Closing
      <4>2. e.other = BlockOf(s.ret) /\ To(e) = BlockOf(s.call) /\ From(e) = BlockOf(icfg.entry[s.fun])
        BY <2>2, <3>2, <3>5, <4>1 DEF To, From
      <4>3. Opening(ret) /\ From(ret) = BlockOf(s.ret) /\ To(ret) = BlockOf(icfg.exit[s.fun])
        BY <2>2, <3>5 DEF Opening, From, To
      <4>4. StartOf(e.other) = StartOf(To(e)) /\ StartOf(From(e)) = BlockOf(icfg.exit[s.fun])
        BY <3>4, <3>5, <4>2 DEF StartOf, StartNode
      <4> QED BY <2>4, <2>7, <3>1, <3>5, <4>1, <4>2, <4>3, <4>4, <2>2 DEF Opening
    <3>6. CASE ~post
      <4>1. e = ret
        BY <2>2, <2>3, <2>7, <3>6 DEF Closing
      <4>2. e.other = BlockOf(s.call) /\ To(e) = BlockOf(s.ret) /\ From(e) = BlockOf(icfg.exit[s.fun])
        BY <2>2, <3>2, <3>6, <4>1 DEF To, From
      <4>3. Opening(call) /\ From(call) = BlockOf(s.call) /\ To(call) = BlockOf(icfg.entry[s.fun])
        BY <2>2, <3>6 DEF Opening, From, To
      <4>4. StartOf(e.other) = StartOf(To(e)) /\ StartOf(From(e)) = BlockOf(icfg.entry[s.fun])
        BY <3>4, <3>6, <4>2 DEF StartOf, StartNode
      <4> QED BY <2>4, <2>7, <3>1, <3>6, <4>1, <4>2, <4>3, <4>4, <2>2 DEF Opening
    <3> QED BY <3>5, <3>6
  <2>8. CASE ~Opening(e) /\ ~(Closing(e) /\ e.other # NoBlock)
    <3>1. Closing(e)
      BY <1>1, <2>2, <2>3, <2>8 DEF Opening, Closing
    <3> QED BY <2>8, <3>1
  <2> QED BY <2>6, <2>7, <2>8
<1> QED BY <1>3, <1>4
-----------------------------------------------------------------------------
(* The sets of pairs. *)

\* Nothing that they look at changes once the graph is built.
LEMMA ExploringKeeps ==
  ASSUME UNCHANGED <<icfg, blocks, edges, post>>
  PROVE  /\ \A b : FromRoot(b)' = FromRoot(b)
         /\ \A S, b : Beyond(S, b)' = Beyond(S, b)
         /\ \A n, b : Reaches(n, b)' = Reaches(n, b)
         /\ NoOrphans' = NoOrphans
<1>1. \A e : From(e)' = From(e) /\ To(e)' = To(e) /\ Closing(e)' = Closing(e) /\ Opening(e)' = Opening(e)
  BY DEF From, To, Closing, Opening
<1>2. \A b : FromRoot(b)' = FromRoot(b)
  BY GraphKept DEF FromRoot
<1>3. \A S, i, n : Passes(S, i, n)' = Passes(S, i, n)
  BY <1>1, GraphKept DEF Passes
<1>4. \A S, b : Beyond(S, b)' = Beyond(S, b)
  BY <1>1, <1>3 DEF Beyond
<1>5. \A S, b : ClosedUnder(S, b)' = ClosedUnder(S, b)
  BY <1>2, <1>4 DEF ClosedUnder
<1>6. \A n : StartOf(n)' = StartOf(n)
  BY DEF StartOf, StartNode, Owner, BlockOf
<1>7. \A n, b : Reaches(n, b)' = Reaches(n, b)
  BY <1>5, <1>6 DEF Reaches
<1>8. NoOrphans' = NoOrphans
  BY GraphKept DEF NoOrphans
<1> QED BY <1>2, <1>4, <1>7, <1>8

LEMMA RootReached ==
  ASSUME Building, Straights, RootNode \in Allocated, NEW b, b # Root
  PROVE  Reaches(Root, b)
<1>1. icfg.main \in DOMAIN icfg.entry /\ RootNode = StartNode(icfg.main)
  BY IcfgsAssumption DEF RootNode, StartNode, Building
<1>2. Owner[RootNode] = icfg.main
  BY <1>1, OwnerFacts DEF StartNode
<1>3. StartOf(Root) = Root
  BY <1>1, <1>2, BlockOfNode DEF StartOf, Root
<1>4. <<Root, Root>> \in FromRoot(b)
  BY DEF FromRoot
<1> QED BY <1>3, <1>4 DEF Reaches, ClosedUnder

\* One step of a sweep: a dominator is taken away only where an edge brings an execution that avoids it.
LEMMA ReachesThrough ==
  ASSUME Building, EdgesOK, Straights, edges = BlockEdges, NEW n \in blocks, NEW b, b # n,
         NEW e \in Into(n), HasPairs(n), \A m \in Ahead(e) : Reaches(m, b)
  PROVE  Reaches(n, b)
<1> SUFFICES ASSUME NEW S, ClosedUnder(S, b) PROVE <<StartOf(n), n>> \in S
  BY DEF Reaches
<1>1. e \in edges /\ To(e) = n /\ (Closing(e) => e.other # NoBlock) /\ (Opening(e) => ~Closing(e))
  BY DEF Into, HasPairs, Opening, Closing
<1>2. <<StartOf(From(e)), From(e)>> \in S
  BY DEF Ahead, Reaches
<1>3. CASE Opening(e)
  <2>1. \E p \in S : p[2] = From(e)
    BY <1>2
  <2>2. <<To(e), To(e)>> \in Beyond(S, b)
    BY <1>1, <1>3, <2>1 DEF Beyond
  <2> QED BY <1>1, <1>3, <2>2, EdgeStarts DEF ClosedUnder
<1>4. CASE ~Opening(e)
  <2>1. Passes(S, StartOf(n), n) /\ \E p \in S : p[1] = StartOf(n)
    <3>1. CASE ~Closing(e)
      <4>1. <<StartOf(n), From(e)>> \in S
        BY <1>1, <1>2, <1>4, <3>1, EdgeStarts
      <4> QED BY <1>4, <3>1, <4>1 DEF Passes
    <3>2. CASE Closing(e)
      <4>1. <<StartOf(e.other), e.other>> \in S
        BY <3>2 DEF Ahead, Reaches
      <4>2. StartOf(e.other) = StartOf(n)
        BY <1>1, <3>2, EdgeStarts
      <4>3. PICK o \in edges : Opening(o) /\ From(o) = e.other /\ To(o) = StartOf(From(e))
        BY <1>1, <3>2, EdgeStarts
      <4> QED BY <1>2, <3>2, <4>1, <4>2, <4>3 DEF Passes
    <3> QED BY <3>1, <3>2
  <2>2. <<StartOf(n), n>> \in {p[1] : p \in S} \X (blocks \ {b})
    BY <2>1
  <2>3. <<StartOf(n), n>> \in Beyond(S, b)
    BY <2>1, <2>2 DEF Beyond
  <2> QED BY <2>3 DEF ClosedUnder
<1> QED BY <1>3, <1>4

LEMMA CompleteStart ==
  ASSUME IInv, BlocksInv, Linking, StartDom
  PROVE  Complete'
<1>1. UNCHANGED <<icfg, blocks, edges, post>> /\ pc = "built" /\ RootNode \in Allocated
  BY DEF StartDom
<1>2. Building /\ Straights
  BY <1>1 DEF IInv, BlocksInv, BlocksAreStraight, Straights
<1>3. ASSUME NEW n \in blocks, NEW b \in blocks, b \notin dom'[n]
      PROVE  Reaches(n, b)
  <2>1. dom'[n] = Guess(n)
    BY DEF StartDom
  <2>2. n = Root /\ b # Root
    BY <1>3, <2>1 DEF Guess
  <2> QED BY <1>1, <1>2, <2>2, RootReached
<1> QED BY <1>1, <1>3, ExploringKeeps DEF Complete

LEMMA CompleteUpdate ==
  ASSUME IInv, BlocksInv, Linking, Complete, NEW n, UpdateDom(n)
  PROVE  Complete'
<1>1. Building /\ EdgesOK /\ Straights /\ edges = BlockEdges
  BY Updated DEF IInv, BlocksInv, BlocksAreStraight, Straights, Linking
<1>2. ASSUME NoOrphans, NEW m \in blocks, NEW b \in blocks, b \notin dom'[m]
      PROVE  Reaches(m, b)
  <2>1. CASE m # n
    BY <1>2, <2>1, Updated DEF Complete
  <2>2. CASE m = n
    <3>1. b \notin NewDom(dom, n) /\ n \in blocks /\ HasPairs(n) /\ Into(n) # {}
      BY <1>2, <2>2, Updated DEF NoOrphans
    <3>2. b # n /\ \E e \in Into(n) : b \notin Through(dom, e)
      BY <3>1 DEF NewDom
    <3>3. PICK e \in Into(n) : b \notin Through(dom, e)
      BY <3>2
    <3>4. \A k \in Ahead(e) : k \in blocks /\ b \notin dom[k]
      BY <1>1, <3>1, <3>3, AheadTyped DEF Through
    <3>5. \A k \in Ahead(e) : Reaches(k, b)
      BY <1>2, <3>4, Updated DEF Complete
    <3> QED BY <1>1, <2>2, <3>1, <3>2, <3>5, ReachesThrough
  <2> QED BY <2>1, <2>2
<1> QED BY <1>2, Updated, ExploringKeeps DEF Complete

LEMMA CompleteStep == IInv /\ BlocksInv /\ Linking /\ Complete /\ [Next]_vars => Complete'
<1> SUFFICES ASSUME IInv, BlocksInv, Linking, Complete, [Next]_vars PROVE Complete'
  OBVIOUS
<1>1. CASE StartDom
  BY <1>1, CompleteStart
<1>2. CASE \E n \in todo : UpdateDom(n)
  BY <1>2, CompleteUpdate
<1>3. CASE UNCHANGED <<icfg, blocks, edges, post, dom>> /\ pc \in {"dom", "done", "avoiding"}
  BY <1>3, ExploringKeeps DEF Complete
<1>4. CASE pc' \notin {"dom", "done", "avoiding"}
  BY <1>4 DEF Complete
<1>5. StartDom \/ (\E n \in todo : UpdateDom(n)) \/ pc' \notin {"dom", "done", "avoiding"} \/
      (UNCHANGED <<icfg, blocks, edges, post, dom>> /\ pc \in {"dom", "done", "avoiding"})
  <2>1. CASE Build /\ UNCHANGED <<domVars, walkVars>>
    BY <2>1, BuildKeeps DEF IInv, domVars
  <2>2. CASE Analyse
    BY <2>2 DEF Analyse, NoRoot, NoPair, NextSweep, DomDone, domVars, buildVars
  <2>3. CASE (\E e \in edges : Walk(e)) \/ Explore
    BY <2>3 DEF Walk, Explore, Avoid, GoOn, domVars, buildVars
  <2>4. CASE UNCHANGED vars
    BY <2>4 DEF vars, domVars, buildVars
  <2> QED BY <2>1, <2>2, <2>3, <2>4 DEF Next
<1> QED BY <1>1, <1>2, <1>3, <1>4, <1>5

LEMMA LinkingStep == IInv /\ BlocksInv /\ Linking /\ [Next]_vars => Linking'
<1> SUFFICES ASSUME IInv, Linking, [Next]_vars PROVE Linking'
  OBVIOUS
<1>1. ASSUME UNCHANGED <<icfg, blocks>>
      PROVE  BlockEdges' = BlockEdges
  <2>1. IntraEdges' = IntraEdges /\ InternalSites' = InternalSites /\ Allocated' = Allocated
    BY <1>1, IcfgKept DEF Allocated
  <2>2. /\ \A n : BlockOf(n)' = BlockOf(n)
        /\ \A m, n : Linked(m, n)' = Linked(m, n)
    BY <1>1, <2>1 DEF BlockOf, Linked, LastOf
  <2>3. \A s : Paired(s)' = Paired(s)
    BY <1>1, <2>1 DEF Paired
  <2>4. \A s, n : PairOf(s, n)' = PairOf(s, n)
    BY <2>2, <2>3 DEF PairOf
  <2>5. \A m, n, k, o : Edge(m, n, k, o)' = Edge(m, n, k, o)
    BY <2>2 DEF Edge
  <2> QED BY <1>1, <2>1, <2>2, <2>4, <2>5 DEF BlockEdges
<1>2. CASE AddEdges
  BY <1>1, <1>2 DEF AddEdges, Linking
<1>3. CASE UNCHANGED <<icfg, blocks, edges>> /\ pc \notin {"blocks", "conflict"}
  BY <1>1, <1>3 DEF Linking
<1>4. CASE pc' \in {"blocks", "conflict"}
  BY <1>4 DEF Linking
<1>5. AddEdges \/ pc' \in {"blocks", "conflict"} \/ (UNCHANGED <<icfg, blocks, edges>> /\ pc \notin {"blocks", "conflict"})
  <2>1. CASE Build
    <3>1. \A list : AddIBBNode(list) => pc' \in {pc, "conflict"}
      BY DEF AddIBBNode
    <3> QED BY <2>1, <3>1 DEF Build, StartFunction, AlreadyVisited, AtExit, AtCall, Straight, DeadEnd, Split, Inner, Visiting
  <2>2. CASE Analyse
    BY <2>2 DEF Analyse, NoRoot, StartDom, NoPair, UpdateDom, NextSweep, DomDone, buildVars
  <2>3. CASE (\E e \in edges : Walk(e)) \/ Explore
    BY <2>3 DEF Walk, Explore, Avoid, GoOn, buildVars
  <2>4. CASE UNCHANGED vars
    BY <2>4 DEF vars, buildVars
  <2> QED BY <2>1, <2>2, <2>3, <2>4 DEF Next
<1> QED BY <1>2, <1>3, <1>4, <1>5

\* What avoids a block has come only to blocks that it does not dominate: the equations, edge by edge.
LEMMA AvoidingStep == IInv /\ Avoiding /\ [Next]_vars => Avoiding'
<1> SUFFICES ASSUME IInv, Avoiding, [Next]_vars, pc' = "avoiding" PROVE Avoiding'
  BY DEF Avoiding
<1>1. CASE \E b \in blocks : Avoid(b)
  <2>1. PICK b \in blocks : Avoid(b)
    BY <1>1
  <2>2. UNCHANGED <<icfg, blocks, edges, post, dom>> /\ pc = "done" /\ avoid' = b /\ reached' = FromRoot(b)
    BY <2>1 DEF Avoid, domVars
  <2>3. \A p \in FromRoot(b) : p[2] = Root /\ b # Root
    BY DEF FromRoot
  <2>4. Root \in blocks /\ dom[Root] = {Root}
    BY <2>2 DEF IInv, DomOK
  <2> QED BY <2>2, <2>3, <2>4, ExploringKeeps DEF Avoiding
<1>2. CASE GoOn
  <2>1. UNCHANGED <<icfg, blocks, edges, post, dom, avoid>> /\ pc = "avoiding"
        /\ reached' = reached \cup Beyond(reached, avoid)
    BY <1>2 DEF GoOn, domVars, buildVars
  <2>2. ASSUME NEW p \in Beyond(reached, avoid)
        PROVE  \E e \in edges : To(e) = p[2] /\ p[2] # avoid /\ \A m \in Ahead(e) : \E q \in reached : q[2] = m
    <3>1. CASE p \in {q \in {p1[1] : p1 \in reached} \X (blocks \ {avoid}) : Passes(reached, q[1], q[2])}
      <4>1. p[2] # avoid /\ Passes(reached, p[1], p[2])
        BY <3>1
      <4>2. PICK e \in Into(p[2]) :
              \/ ~Opening(e) /\ ~Closing(e) /\ <<p[1], From(e)>> \in reached
              \/ /\ Closing(e) /\ <<p[1], e.other>> \in reached
                 /\ \E o \in edges : Opening(o) /\ From(o) = e.other /\ <<To(o), From(e)>> \in reached
        BY <4>1 DEF Passes
      <4>3. e \in edges /\ To(e) = p[2]
        BY DEF Into
      <4>4. \A x, m : <<x, m>> \in reached => \E q \in reached : q[2] = m
        OBVIOUS
      <4> QED BY <4>1, <4>2, <4>3, <4>4 DEF Ahead
    <3>2. CASE p \in {<<To(e), To(e)>> : e \in {e \in edges : Opening(e) /\ To(e) # avoid /\ \E q \in reached : q[2] = From(e)}}
      <4>1. PICK e \in edges : p = <<To(e), To(e)>> /\ Opening(e) /\ To(e) # avoid /\ \E q \in reached : q[2] = From(e)
        BY <3>2
      <4> QED BY <4>1 DEF Ahead, Opening, Closing
    <3> QED BY <3>1, <3>2 DEF Beyond
  <2>3. ASSUME NEW p \in Beyond(reached, avoid)
        PROVE  p[2] \in blocks /\ avoid \notin dom[p[2]]
    <3>1. PICK e \in edges : To(e) = p[2] /\ p[2] # avoid /\ \A m \in Ahead(e) : \E q \in reached : q[2] = m
      BY <2>2
    <3>2. p[2] \in blocks
      BY <3>1 DEF IInv, EdgesOK, To
    <3>3. \A m \in Ahead(e) : avoid \notin dom[m]
      BY <2>1, <3>1 DEF Avoiding
    <3>4. avoid \notin Through(dom, e) /\ e \in Into(p[2])
      BY <3>1, <3>3 DEF Through, Into
    <3>5. CASE p[2] = Root
      BY <2>1, <3>1, <3>2, <3>5 DEF IInv, DomOK
    <3>6. CASE p[2] # Root
      <4>1. dom[p[2]] = NewDom(dom, p[2])
        BY <2>1, <3>2, <3>6 DEF IInv, Fixed
      <4> QED BY <3>1, <3>2, <3>4, <4>1 DEF NewDom
    <3> QED BY <3>5, <3>6
  <2> QED BY <2>1, <2>3, ExploringKeeps DEF Avoiding
<1>3. CASE UNCHANGED vars
  <2>1. UNCHANGED <<icfg, blocks, edges, post, dom, pc, avoid, reached>>
    BY <1>3 DEF vars, buildVars, domVars, walkVars
  <2> QED BY <2>1, ExploringKeeps DEF Avoiding
<1>4. (\E b \in blocks : Avoid(b)) \/ GoOn \/ UNCHANGED vars
  <2>1. CASE Build /\ UNCHANGED <<domVars, walkVars>>
    BY <2>1, BuildKeeps DEF IInv, domVars
  <2>2. ~Analyse
    BY DEF Analyse, NoRoot, StartDom, NoPair, UpdateDom, NextSweep, DomDone, buildVars, IInv
  <2>3. \A e \in edges : ~Walk(e)
    BY DEF Walk, buildVars
  <2> QED BY <2>1, <2>2, <2>3 DEF Next, Explore
<1> QED BY <1>1, <1>2, <1>3, <1>4

\* The analysis is exact on every graph and for every order of the sweeps: a block is said to dominate (post-dominate)
\* another exactly when no execution, its calls being matched by its returns, avoids it on the way there (buildDom).
THEOREM DominatorsExact == Spec => []DomIsExact
<1>1. Init => Linking /\ Complete /\ Avoiding
  BY DEF Init, InitBuild, Linking, Complete, Avoiding
<1>2. IInv /\ Complete /\ Avoiding => DomIsExact
  <2> SUFFICES ASSUME IInv, Complete, Avoiding, pc = "avoiding", Beyond(reached, avoid) \subseteq reached,
                      \A n \in blocks \ {Root} : Into(n) # {}, NEW n \in blocks
               PROVE  avoid \in dom[n] <=> n \notin {p[2] : p \in reached}
    BY DEF DomIsExact
  <2>1. ClosedUnder(reached, avoid) /\ avoid \in blocks
    BY DEF Avoiding, ClosedUnder
  <2>2. ASSUME avoid \notin dom[n]
        PROVE  n \in {p[2] : p \in reached}
    <3>1. <<StartOf(n), n>> \in reached
      BY <2>1, <2>2 DEF Complete, NoOrphans, Reaches
    <3> QED BY <3>1
  <2>3. ASSUME n \in {p[2] : p \in reached}
        PROVE  avoid \notin dom[n]
    BY <2>3 DEF Avoiding
  <2> QED BY <2>2, <2>3
<1> QED BY <1>1, <1>2, LinkingStep, CompleteStep, AvoidingStep, BlocksStart, BlocksStep, Inductive, PTL DEF Spec
-----------------------------------------------------------------------------
(* The cache, for every block graph, every set of access types and any number *)
(* of runs: a complete file is as good as computing, and a file that was cut   *)
(* between two numbers prunes less and never more.                             *)


Passed(k) == IF k = "dom" THEN phase \in {"post", "prune", "done"} ELSE phase \in {"prune", "done"}

\* What the end of a file says about its contents.
FilesOK ==
  \A k \in Kinds :
    /\ file[k].cut = "complete" => file[k].pairs = Doms[file[k].by][k]
    /\ file[k].cut = "short" => file[k].pairs \subseteq Doms[file[k].by][k]

\* The relations in memory were computed or come from the file.
MemoryOK ==
  /\ dumping => phase \in Kinds /\ doms[phase] = Doms[option][phase]
  /\ \A k \in Kinds : Passed(k) => file[k] \in Files /\ doms[k] \in {Doms[option][k], Read(file[k].pairs, option)}

KeptOK == phase = "done" => kept = Pruned(Accesses[option], doms)

CacheInv == TypeOK /\ FilesOK /\ MemoryOK /\ KeptOK
-----------------------------------------------------------------------------
(* Pruning. *)

LEMMA DominatesMonotone ==
  ASSUME NEW k \in Kinds, NEW r, NEW s, r \subseteq s, NEW a, NEW b, Dominates(k, r, a, b)
  PROVE  Dominates(k, s, a, b)
BY DEF Dominates, NodeDominates

\* Fewer dominators, fewer prunings.
LEMMA PruneMonotone ==
  ASSUME NEW ats, NEW r, NEW s, \A k \in Kinds : r[k] \subseteq s[k]
  PROVE  Pruned(ats, s) \subseteq Pruned(ats, r)
<1>0. "dom" \in Kinds /\ "post" \in Kinds
  BY DEF Kinds
<1>1. Undone(ats, r) \subseteq Undone(ats, s)
  <2> SUFFICES ASSUME NEW q \in CreateDelete(ats), Dominates("post", r["post"], q[2], q[1])
               PROVE  Dominates("post", s["post"], q[2], q[1])
    BY Zenon DEF Undone
  <2> QED BY <1>0, DominatesMonotone
<1>2. Renewed(ats, r) \subseteq Renewed(ats, s)
  <2> SUFFICES ASSUME NEW q \in CreateDelete(ats), Dominates("dom", r["dom"], q[1], q[2])
               PROVE  Dominates("dom", s["dom"], q[1], q[2])
    BY Zenon DEF Renewed
  <2> QED BY <1>0, DominatesMonotone
<1>3. Overwritten(ats, r) \subseteq Overwritten(ats, s)
  <2> SUFFICES ASSUME NEW q \in WriteRead(ats), Dominates("dom", r["dom"], q[1], q[2])
               PROVE  Dominates("dom", s["dom"], q[1], q[2])
    BY Zenon DEF Overwritten
  <2> QED BY <1>0, DominatesMonotone
<1> QED BY <1>1, <1>2, <1>3 DEF Pruned

\* getNode finds every block of the graph the file was made from.
LEMMA ReadOfOwn ==
  ASSUME CacheAssumption, NEW o \in Options, NEW k \in Kinds, NEW pairs, pairs \subseteq Doms[o][k]
  PROVE  Read(pairs, o) = pairs
BY DEF Read, CacheAssumption
-----------------------------------------------------------------------------
(* The invariant. *)

LEMMA InitCacheInv == InitCache => CacheInv
<1> SUFFICES ASSUME InitCache PROVE CacheInv
  OBVIOUS
<1>1. TypeOK
  <2>1. file \in [Kinds -> Files \cup {NoFile}] /\ doms \in [Kinds -> SUBSET (Blocks[option] \X Blocks[option])]
    BY DEF InitCache
  <2>2. kept \subseteq Accesses[option] /\ starts \in 0..MaxStarts
    BY CacheAssumption DEF InitCache, CacheAssumption
  <2>3. option \in Options /\ phase = "idle" /\ dumping = FALSE
    BY DEF InitCache
  <2> QED BY <2>1, <2>2, <2>3 DEF TypeOK
<1>2. FilesOK
  BY DEF InitCache, FilesOK, NoFile
<1>3. MemoryOK /\ KeptOK
  BY DEF InitCache, MemoryOK, KeptOK, Passed
<1> QED BY <1>1, <1>2, <1>3 DEF CacheInv

LEMMA CacheStep == CacheInv /\ [NextCache]_cacheVars => CacheInv'
<1> SUFFICES ASSUME CacheInv, [NextCache]_cacheVars PROVE CacheInv'
  OBVIOUS
<1> USE CacheAssumption DEF CacheInv
<1>1. ASSUME NEW o \in Options, StartRun(o)
      PROVE  CacheInv'
  BY <1>1 DEF StartRun, CacheAssumption, TypeOK, FilesOK, MemoryOK, KeptOK, Passed, Kinds
<1>2. ASSUME NEW k \in Kinds, Load(k)
      PROVE  CacheInv'
  <2>0. Read(file[k].pairs, option) \in SUBSET (Blocks[option] \X Blocks[option])
    <3>1. file[k].pairs \subseteq Nat \X Nat
      BY <1>2 DEF Load, TypeOK, Files, NoFile
    <3> QED BY <3>1 DEF Read
  <2>1. TypeOK'
    BY <1>2, <2>0 DEF Load, TypeOK, Kinds, After
  <2>2. file[k] \in Files
    BY <1>2 DEF Load, TypeOK
  <2>3. doms'[k] = Read(file[k].pairs, option) /\ \A j \in Kinds \ {k} : doms'[j] = doms[j]
    BY <1>2 DEF Load, TypeOK
  <2>4. FilesOK' /\ KeptOK'
    BY <1>2 DEF Load, FilesOK, KeptOK, After, Kinds
  <2>5. MemoryOK'
    BY <1>2, <2>2, <2>3 DEF Load, MemoryOK, After, Passed, Kinds, Read
  <2> QED BY <2>1, <2>4, <2>5
<1>3. ASSUME NEW k \in Kinds, Create(k)
      PROVE  CacheInv'
  <2>1. TypeOK'
    BY <1>3 DEF Create, TypeOK, CacheAssumption
  <2>2. doms'[k] = Doms[option][k] /\ \A j \in Kinds \ {k} : doms'[j] = doms[j]
    BY <1>3 DEF Create, TypeOK
  <2>3. FilesOK' /\ KeptOK'
    BY <1>3 DEF Create, FilesOK, KeptOK, Kinds
  <2>4. MemoryOK'
    BY <1>3, <2>2 DEF Create, MemoryOK, Passed, Kinds, Read
  <2> QED BY <2>1, <2>3, <2>4
<1>4. ASSUME NEW k \in Kinds, NEW f \in Files, phase = k, dumping,
             f.by = option, f.cut = "complete" => f.pairs = Doms[option][k],
             f.cut = "short" => f.pairs \subseteq Doms[option][k],
             file' = [file EXCEPT ![k] = f], dumping' = FALSE, phase' \in {After(k), "idle"},
             UNCHANGED <<option, doms, kept, starts>>
      PROVE  CacheInv'
  <2>1. TypeOK'
    BY <1>4 DEF TypeOK, Kinds, After
  <2>2. file'[k] = f /\ \A j \in Kinds \ {k} : file'[j] = file[j]
    BY <1>4 DEF TypeOK
  <2>3. FilesOK'
    BY <1>4, <2>2 DEF FilesOK
  <2>4. MemoryOK' /\ KeptOK'
    BY <1>4, <2>2 DEF MemoryOK, KeptOK, Passed, After, Kinds, Read
  <2> QED BY <2>1, <2>3, <2>4
<1>5. ASSUME NEW k \in Kinds, Dump(k)
      PROVE  CacheInv'
  <2> DEFINE f == [pairs |-> Dumped(doms[k]), by |-> option, cut |-> "complete"]
  <2>1. doms[k] = Doms[option][k] /\ doms[k] \subseteq Nat \X Nat
    BY <1>5 DEF Dump, MemoryOK, TypeOK, CacheAssumption
  <2>2. f \in Files /\ f.by = option /\ f.cut = "complete" /\ f.pairs = Doms[option][k]
    BY <2>1 DEF Files, Dumped, TypeOK
  <2> QED BY <1>4, <1>5, <2>2 DEF Dump, Write
<1>6. ASSUME NEW k \in Kinds, DumpPart(k)
      PROVE  CacheInv'
  <2>1. doms[k] = Doms[option][k] /\ doms[k] \subseteq Blocks[option] \X Blocks[option] /\ Blocks[option] \subseteq Nat
    BY <1>6 DEF DumpPart, MemoryOK, TypeOK, CacheAssumption
  <2>2. PICK pairs \in SUBSET doms[k], last \in Blocks[option] :
          \/ Write(k, pairs, "short")
          \/ \E n \in Blocks[option] : \E m \in Misread[n] : Write(k, pairs \cup {<<last, m>>}, "misread")
    BY <1>6 DEF DumpPart, Line
  <2>3. PICK f \in Files :
          file' = [file EXCEPT ![k] = f] /\ f.by = option /\ f.cut # "complete"
          /\ (f.cut = "short" => f.pairs \subseteq doms[k])
    <3>1. CASE Write(k, pairs, "short")
      <4> DEFINE f == [pairs |-> pairs, by |-> option, cut |-> "short"]
      <4>1. f \in Files
        BY <2>1 DEF Files, TypeOK
      <4> QED BY <2>2, <3>1, <4>1 DEF Write
    <3>2. ASSUME NEW n \in Blocks[option], NEW m \in Misread[n], Write(k, pairs \cup {<<last, m>>}, "misread")
          PROVE  \E f \in Files :
                   file' = [file EXCEPT ![k] = f] /\ f.by = option /\ f.cut # "complete"
                   /\ (f.cut = "short" => f.pairs \subseteq doms[k])
      <4> DEFINE f == [pairs |-> pairs \cup {<<last, m>>}, by |-> option, cut |-> "misread"]
      <4>1. last \in Nat /\ m \in Nat
        BY <2>1, <3>2, CacheAssumption DEF CacheAssumption, TypeOK
      <4>2. f \in Files
        BY <2>1, <4>1 DEF Files, TypeOK
      <4> QED BY <3>2, <4>2 DEF Write
    <3> QED BY <2>2, <3>1, <3>2
  <2> QED BY <1>4, <1>6, <2>1, <2>3 DEF DumpPart
<1>7. CASE Prune
  BY <1>7 DEF Prune, Pruned, TypeOK, FilesOK, MemoryOK, KeptOK, Passed, Kinds
<1>8. CASE Killed
  BY <1>8 DEF Killed, TypeOK, FilesOK, MemoryOK, KeptOK, Passed, Kinds
<1>9. CASE UNCHANGED cacheVars
  BY <1>9 DEF cacheVars, TypeOK, FilesOK, MemoryOK, KeptOK, Passed, Read
<1> QED BY <1>1, <1>2, <1>3, <1>5, <1>6, <1>7, <1>8, <1>9 DEF NextCache
-----------------------------------------------------------------------------
(* The theorems. *)

\* What is in memory relates blocks of the graph, whatever the files hold.
THEOREM CacheTypeCorrect == CacheSpec => []TypeOK
<1>1. CacheInv => TypeOK
  BY DEF CacheInv
<1> QED BY <1>1, InitCacheInv, CacheStep, PTL DEF CacheSpec

LEMMA ShortInMemory ==
  ASSUME CacheInv, phase = "done", NEW k \in Kinds, file[k].by = option, file[k].cut # "misread"
  PROVE  doms[k] \subseteq Doms[option][k] /\ (file[k].cut = "complete" => doms[k] = Doms[option][k])
<1>1. option \in Options /\ file[k] \in Files /\ doms[k] \in {Doms[option][k], Read(file[k].pairs, option)}
  BY DEF CacheInv, TypeOK, MemoryOK, Passed
<1>2. file[k].pairs \subseteq Doms[option][k] /\ (file[k].cut = "complete" => file[k].pairs = Doms[option][k])
  BY <1>1 DEF CacheInv, FilesOK, Files
<1>3. Read(file[k].pairs, option) = file[k].pairs
  BY <1>1, <1>2, CacheAssumption, ReadOfOwn
<1> QED BY <1>1, <1>2, <1>3

\* An analysis from complete files keeps what one without a cache keeps.
THEOREM CompleteExact == CacheSpec => []CompleteCacheIsExact
<1>1. CacheInv => CompleteCacheIsExact
  <2> SUFFICES ASSUME CacheInv, phase = "done", \A k \in Kinds : file[k].by = option /\ file[k].cut = "complete"
               PROVE  kept = Expected
    BY DEF CompleteCacheIsExact
  <2>1. \A k \in Kinds : doms[k] = Doms[option][k]
    BY ShortInMemory
  <2>2. Pruned(Accesses[option], doms) = Expected
    <3>1. Pruned(Accesses[option], doms) \subseteq Expected
      BY <2>1, PruneMonotone DEF Expected
    <3>2. Expected \subseteq Pruned(Accesses[option], doms)
      BY <2>1, PruneMonotone DEF Expected
    <3> QED BY <3>1, <3>2
  <2> QED BY <2>2 DEF CacheInv, KeptOK
<1> QED BY <1>1, InitCacheInv, CacheStep, PTL DEF CacheSpec

\* A file that ends early, but not inside a number, never has an access type pruned that should stay.
THEOREM ShortOnlyKeeps == CacheSpec => []ShortCacheOnlyKeeps
<1>1. CacheInv => ShortCacheOnlyKeeps
  <2> SUFFICES ASSUME CacheInv, phase = "done", \A k \in Kinds : file[k].by = option /\ file[k].cut # "misread"
               PROVE  Expected \subseteq kept
    BY DEF ShortCacheOnlyKeeps
  <2>1. \A k \in Kinds : doms[k] \subseteq Doms[option][k]
    BY ShortInMemory
  <2>2. Expected \subseteq Pruned(Accesses[option], doms)
    BY <2>1, PruneMonotone DEF Expected
  <2> QED BY <2>2 DEF CacheInv, KeptOK
<1> QED BY <1>1, InitCacheInv, CacheStep, PTL DEF CacheSpec
=============================================================================
