------------------------------ MODULE DomCache ------------------------------
(***************************************************************************)
(* The cache of dominators and what the extractor does with them           *)
(* (condition_extractor/src: ConditionExtractor.cpp, dumpDom and loadDom   *)
(* of GenericDominatorTy.cpp).  With -dom and -cache_folder every function *)
(* has a file of dominators and one of post-dominators.  A file that       *)
(* exists is loaded; otherwise the relation is computed and dumped.  Then  *)
(* access types that others dominate are pruned.                           *)
(*                                                                         *)
(* One function of one library, analysed again and again with the same     *)
(* cache folder.  The extractor may be killed at any time: dumpDom itself  *)
(* tells the user to when it takes too long.  A number that names no block *)
(* is the null pointer in the release build that bootstrap.sh makes, and   *)
(* null dominates nothing.                                                 *)
(***************************************************************************)
EXTENDS Naturals

CONSTANTS Options,   \* -do_indirect_jumps: each value gives another block graph
          Blocks,    \* option -> the ids of the blocks
          Doms,      \* option -> kind -> what createDom computes: pairs of a block and one that dominates it
          Accesses,  \* option -> the access types of a parameter
          Misread,   \* id -> what its first digits read as
          MaxStarts  \* bounds the runs of the extractor

Kinds == {"dom", "post"}

\* A node of the control flow graph is its block and its place there.
ASSUME CacheAssumption ==
  /\ \A o \in Options :
       /\ Blocks[o] \subseteq Nat
       /\ \A k \in Kinds : Doms[o][k] \subseteq Blocks[o] \X Blocks[o]
       /\ \A n \in Blocks[o] : Misread[n] \subseteq Nat
       /\ \A a \in Accesses[o] : a.nodes \subseteq [block : Blocks[o], pos : Nat]
  /\ MaxStarts \in Nat

VARIABLES option,   \* of the running extractor
          phase,    \* what it is at: a kind, or "idle", "prune", "done"
          dumping,  \* inside dumpDom
          doms,     \* kind -> the relation in memory
          file,     \* kind -> the cache file, or NoFile
          kept,     \* the access types left after pruning
          starts

cacheVars == <<option, phase, dumping, doms, file, kept, starts>>

NoFile == [pairs |-> {}, by |-> "nobody", cut |-> "absent"]

\* The pairs a file holds.  Whose options it was made with (by) and where it ends (cut) are written nowhere.
Files == [pairs : SUBSET (Nat \X Nat), by : Options, cut : {"complete", "short", "misread"}]

InitCache ==
  /\ option \in Options /\ phase = "idle" /\ dumping = FALSE
  /\ doms = [k \in Kinds |-> {}] /\ file = [k \in Kinds |-> NoFile]
  /\ kept = {} /\ starts = 0

StartRun(o) ==
  /\ phase \in {"idle", "done"} /\ starts < MaxStarts
  /\ option' = o /\ phase' = "dom" /\ doms' = [k \in Kinds |-> {}] /\ kept' = {} /\ starts' = starts + 1
  /\ UNCHANGED <<dumping, file>>

After(k) == IF k = "dom" THEN "post" ELSE "prune"
-----------------------------------------------------------------------------
(* The relations. *)

\* Mutant of Read: a block without a line keeps the first guess, all blocks.
ReadGuess(pairs, o) ==
  {p \in pairs : p[1] \in Blocks[o] /\ p[2] \in Blocks[o]}
  \cup {p \in Blocks[o] \X Blocks[o] : \A q \in pairs : q[1] # p[1]}

\* addDom of what getNode finds.
Read(pairs, o) == {p \in pairs : p[1] \in Blocks[o] /\ p[2] \in Blocks[o]}

Load(k) ==
  /\ phase = k /\ ~dumping /\ file[k] # NoFile
  /\ doms' = [doms EXCEPT ![k] = Read(file[k].pairs, option)]
  /\ phase' = After(k)
  /\ UNCHANGED <<option, dumping, file, kept, starts>>

Create(k) ==
  /\ phase = k /\ ~dumping /\ file[k] = NoFile
  /\ doms' = [doms EXCEPT ![k] = Doms[option][k]]
  /\ dumping' = TRUE
  /\ UNCHANGED <<option, phase, file, kept, starts>>

\* Mutant of Dumped: the last number of a line is left out.
DumpedOneLess(d) == {p \in d : \E q \in d : q[1] = p[1] /\ q[2] > p[2]}

Dumped(d) == d

Write(k, pairs, cut) == file' = [file EXCEPT ![k] = [pairs |-> pairs, by |-> option, cut |-> cut]]

Dump(k) ==
  /\ phase = k /\ dumping
  /\ Write(k, Dumped(doms[k]), "complete")
  /\ dumping' = FALSE /\ phase' = After(k)
  /\ UNCHANGED <<option, doms, kept, starts>>

Line(d, b) == {n \in Blocks[option] : <<b, n>> \in d}

\* The disk is full, which dumpDom does not ask, or the extractor is killed: whole lines are there, and
\* the beginning of a last one, whose last number may lack digits.  The blocks and their dominators are
\* in sets of pointers, so they come in any order.
DumpPart(k) ==
  /\ phase = k /\ dumping
  /\ \E whole \in SUBSET Blocks[option] :
       \E last \in Blocks[option] \ whole :
         \E some \in SUBSET Line(doms[k], last) :
           LET pairs == {p \in doms[k] : p[1] \in whole} \cup {p \in doms[k] : p[1] = last /\ p[2] \in some}
           IN  \/ Write(k, pairs, "short")
               \/ \E n \in Line(doms[k], last) \ some :
                    \E m \in Misread[n] : Write(k, pairs \cup {<<last, m>>}, "misread")
  /\ dumping' = FALSE /\ phase' \in {After(k), "idle"}
  /\ UNCHANGED <<option, doms, kept, starts>>

Killed ==
  /\ phase \in Kinds \cup {"prune"} /\ ~dumping
  /\ phase' = "idle"
  /\ UNCHANGED <<option, dumping, doms, file, kept, starts>>
-----------------------------------------------------------------------------
(* prune_access_types. *)

\* dominates: in one block the order of the nodes counts, backwards for post-dominators.
NodeDominates(k, rel, m, n) ==
  IF m.block = n.block
  THEN IF k = "dom" THEN m.pos <= n.pos ELSE n.pos <= m.pos
  ELSE <<n.block, m.block>> \in rel

Dominates(k, rel, a, b) == \A n \in b.nodes : \E m \in a.nodes : NodeDominates(k, rel, m, n)

\* operator==: the nodes are not part of it.
Same(a, b) == a.fields = b.fields /\ a.kind = b.kind /\ a.type = b.type

CreateDelete(ats) == {p \in ats \X ats : p[1].kind = "create" /\ p[2].kind = "del" /\ p[1].fields = p[2].fields}
WriteRead(ats) ==
  {p \in ats \X ats : p[1].kind = "write" /\ p[2].kind \in {"write", "read"}
                      /\ p[1].fields = p[2].fields /\ ~Same(p[1], p[2])}

\* The first rule that holds for a pair decides.  The pairs are collected before anything is removed.
Undone(ats, r) == UNION {{p[1], p[2]} : p \in {q \in CreateDelete(ats) : Dominates("post", r["post"], q[2], q[1])}}
Renewed(ats, r) == {p[2] : p \in {q \in CreateDelete(ats) : Dominates("dom", r["dom"], q[1], q[2])}}
Overwritten(ats, r) == {p[2] : p \in {q \in WriteRead(ats) : Dominates("dom", r["dom"], q[1], q[2])}}

Pruned(ats, r) == ats \ (Undone(ats, r) \cup Renewed(ats, r) \cup Overwritten(ats, r))

Prune ==
  /\ phase = "prune"
  /\ kept' = Pruned(Accesses[option], doms)
  /\ phase' = "done"
  /\ UNCHANGED <<option, dumping, doms, file, starts>>

NextCache ==
  \/ \E o \in Options : StartRun(o)
  \/ \E k \in Kinds : Load(k) \/ Create(k) \/ Dump(k) \/ DumpPart(k)
  \/ Prune \/ Killed

CacheSpec == InitCache /\ [][NextCache]_cacheVars
-----------------------------------------------------------------------------
(* Properties. *)

\* What is in memory relates blocks of the graph: no stale or broken number gets past getNode.
TypeOK ==
  /\ option \in Options /\ phase \in Kinds \cup {"idle", "prune", "done"} /\ dumping \in BOOLEAN
  /\ doms \in [Kinds -> SUBSET (Blocks[option] \X Blocks[option])]
  /\ file \in [Kinds -> Files \cup {NoFile}]
  /\ kept \subseteq Accesses[option] /\ starts \in 0..MaxStarts

\* What createDom finds leads to this.
Expected == Pruned(Accesses[option], Doms[option])

\* The cache is incremental: with files of the same options that were dumped to the end, an analysis
\* that starts from the cache keeps what one without a cache keeps, whatever was killed in between.
CompleteCacheIsExact ==
  phase = "done" /\ (\A k \in Kinds : file[k].by = option /\ file[k].cut = "complete") => kept = Expected

\* A file cut between two numbers costs precision and nothing else: no access type is pruned that the
\* whole relation keeps.
ShortCacheOnlyKeeps ==
  phase = "done" /\ (\A k \in Kinds : file[k].by = option /\ file[k].cut # "misread") => Expected \subseteq kept
=============================================================================
