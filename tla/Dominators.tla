----------------------------- MODULE Dominators -----------------------------
(***************************************************************************)
(* Interprocedural dominators and post-dominators (buildDom of             *)
(* condition_extractor/src/Dominators.cpp and PostDominators.cpp) on the   *)
(* block graph.  Sweeps over the blocks shrink a first guess until one     *)
(* changes nothing.  The blocks are kept in a set of pointers, so a sweep  *)
(* takes them in any order.                                                *)
(*                                                                         *)
(* Post-dominators are dominators of the reversed graph: "post" chooses.   *)
(* When the analysis is done the model goes on with an execution of the    *)
(* analysed program (backwards for post-dominators): its calls return to   *)
(* where they came from.  Or it goes on with all executions at once that   *)
(* never come to one block, and collects where they get.                   *)
(***************************************************************************)
EXTENDS IBBGraph

CONSTANT MaxDepth  \* bounds the call stack of the execution
ASSUME MaxDepthAssumption == MaxDepth \in Nat

VARIABLES post,            \* the direction
          dom,             \* block -> the blocks that dominate it
          todo,            \* blocks left in this sweep
          is_changed,
          at, visited, stack, \* the execution: its block, the blocks it passed, the open calls
          avoid, reached      \* all executions that avoid a block: <<start of a function, block in it>>

domVars == <<post, dom, todo, is_changed>>
walkVars == <<at, visited, stack, avoid, reached>>
vars == <<buildVars, domVars, walkVars>>

Init ==
  /\ InitBuild
  /\ post \in BOOLEAN
  /\ dom = <<>> /\ todo = {} /\ is_changed = FALSE
  /\ at = <<>> /\ visited = {} /\ stack = <<>>
  /\ avoid = NoBlock /\ reached = {}
-----------------------------------------------------------------------------
RootNode == IF post THEN icfg.exit[icfg.main] ELSE icfg.entry[icfg.main]
Root == BlockOf(RootNode)

From(e) == IF post THEN e.dst ELSE e.src
To(e) == IF post THEN e.src ELSE e.dst

\* Edges in R_ibbg, or in C_ibbg when the graph is reversed, and those paired with them.
Closing(e) == e.kind = (IF post THEN "call" ELSE "ret")
Opening(e) == e.kind = (IF post THEN "ret" ELSE "call")

\* Mutant of Ahead: what dominates the call does not count after the return.
AheadCalleeOnly(e) == {From(e)}

\* ahead and behind: after a return, what dominates the call counts too.
Ahead(e) == {From(e)} \cup (IF Closing(e) THEN {e.other} ELSE {})

Into(n) == {e \in edges : To(e) = n}
Through(d, e) == UNION {d[m] : m \in Ahead(e)}

\* The blocks that every edge into n comes through, and n.
NewDom(d, n) == {n} \cup {b \in UNION {Through(d, e) : e \in Into(n)} : \A e \in Into(n) : b \in Through(d, e)}

\* The first guess: all blocks dominate a block, the root only itself.
Guess(n) == IF n = Root THEN {Root} ELSE blocks

\* getIBBNode: the entry function never returns.  The extractor ends at its assertion, or, where that is
\* compiled out, at the null block in dumpDom.
NoRoot ==
  /\ pc = "built" /\ RootNode \notin Allocated
  /\ pc' = "aborted"
  /\ UNCHANGED <<icfg, functions, working, seen, blocks, edges, domVars, walkVars>>

StartDom ==
  /\ pc = "built" /\ RootNode \in Allocated
  /\ pc' = "dom"
  /\ dom' = [n \in blocks |-> Guess(n)]
  /\ todo' = blocks \ {Root} /\ is_changed' = FALSE
  /\ UNCHANGED <<icfg, functions, working, seen, blocks, edges, post, walkVars>>

\* Mutant of Flag: the flag says whether the last block changed.
FlagLast(change) == change

\* Mutant of Flag: every sweep is followed by another.
FlagAlways(change) == TRUE

Flag(change) == is_changed \/ change

HasPairs(n) == \A e \in Into(n) : Closing(e) => e.other # NoBlock

\* behind looks for the return edge of a call that does not return.
NoPair(n) ==
  /\ pc = "dom" /\ n \in todo /\ ~HasPairs(n)
  /\ pc' = "aborted"
  /\ UNCHANGED <<icfg, functions, working, seen, blocks, edges, domVars, walkVars>>

UpdateDom(n) ==
  /\ pc = "dom" /\ n \in todo /\ HasPairs(n)
  /\ dom' = [dom EXCEPT ![n] = NewDom(dom, n)]
  /\ is_changed' = Flag(NewDom(dom, n) # dom[n])
  /\ todo' = todo \ {n}
  /\ UNCHANGED <<buildVars, post, walkVars>>

NextSweep ==
  /\ pc = "dom" /\ todo = {} /\ is_changed
  /\ todo' = blocks \ {Root} /\ is_changed' = FALSE
  /\ UNCHANGED <<buildVars, post, dom, walkVars>>

DomDone ==
  /\ pc = "dom" /\ todo = {} /\ ~is_changed
  /\ pc' = "done"
  /\ at' = Root /\ visited' = {Root} /\ stack' = <<>>
  /\ UNCHANGED <<icfg, functions, working, seen, blocks, edges, domVars, avoid, reached>>
-----------------------------------------------------------------------------
(* An execution. *)

Walk(e) ==
  /\ pc = "done" /\ e \in edges /\ From(e) = at
  /\ \/ Opening(e) /\ Len(stack) < MaxDepth /\ stack' = Append(stack, at)
     \/ Closing(e) /\ stack # <<>> /\ e.other = stack[Len(stack)] /\ stack' = SubSeq(stack, 1, Len(stack) - 1)
     \/ ~Opening(e) /\ ~Closing(e) /\ UNCHANGED stack
  /\ at' = To(e) /\ visited' = visited \cup {To(e)}
  /\ UNCHANGED <<buildVars, domVars, avoid, reached>>
-----------------------------------------------------------------------------
(* All executions that avoid a block.  A pair says that one that has come to the start of a function, by *)
(* whatever calls, can come to the block with the calls in between matched by their returns.             *)

FromRoot(b) == {<<Root, Root>>} \ {<<b, b>>}

\* After an edge inside the function, or after a call that an execution can go through.
Passes(S, start, n) ==
  \E e \in Into(n) :
    \/ ~Opening(e) /\ ~Closing(e) /\ <<start, From(e)>> \in S
    \/ /\ Closing(e) /\ <<start, e.other>> \in S
       /\ \E o \in edges : Opening(o) /\ From(o) = e.other /\ <<To(o), From(e)>> \in S

Beyond(S, b) ==
  {q \in {p[1] : p \in S} \X (blocks \ {b}) : Passes(S, q[1], q[2])} \cup
  {<<To(e), To(e)>> : e \in {e \in edges : Opening(e) /\ To(e) # b /\ \E p \in S : p[2] = From(e)}}

Avoid(b) ==
  /\ pc = "done" /\ visited = {Root} /\ stack = <<>>
  /\ pc' = "avoiding" /\ avoid' = b /\ reached' = FromRoot(b)
  /\ UNCHANGED <<icfg, functions, working, seen, blocks, edges, domVars, at, visited, stack>>

GoOn ==
  /\ pc = "avoiding" /\ ~(Beyond(reached, avoid) \subseteq reached)
  /\ reached' = reached \cup Beyond(reached, avoid)
  /\ UNCHANGED <<buildVars, domVars, at, visited, stack, avoid>>

Explore == (\E b \in blocks : Avoid(b)) \/ GoOn

Analyse == NoRoot \/ StartDom \/ (\E n \in todo : NoPair(n) \/ UpdateDom(n)) \/ NextSweep \/ DomDone

Next == (Build /\ UNCHANGED <<domVars, walkVars>>) \/ Analyse \/ (\E e \in edges : Walk(e)) \/ Explore

Spec == Init /\ [][Next]_vars
\* The extractor runs until it is done; the execution need not go on.
FairSpec == Spec /\ WF_vars((Build /\ UNCHANGED <<domVars, walkVars>>) \/ Analyse)
-----------------------------------------------------------------------------
(* Properties. *)

\* Sound: however the program got to a block, it has passed every block that is said to dominate it.
DominatorsWerePassed == pc = "done" => dom[at] \subseteq visited

\* Exact: what is said to dominate a block is what no execution can avoid on the way to it, no more and no
\* less (ahead and behind look at the call as well as at the end of the function called), unless a block
\* has no edge into it and is therefore said to be dominated by itself only.
DomIsExact ==
  pc = "avoiding" /\ Beyond(reached, avoid) \subseteq reached /\ (\A n \in blocks \ {Root} : Into(n) # {}) =>
    \A n \in blocks : avoid \in dom[n] <=> n \notin {p[2] : p \in reached}

\* The sweeps only take away, which bounds their number; a step never brings a dominator back.
DomShrinks == [][pc = "dom" => \A n \in DOMAIN dom : dom'[n] \subseteq dom[n]]_vars

\* The analysis comes to an end.
AnalysisEnds == <>(pc \in {"done", "aborted", "conflict"})
=============================================================================
