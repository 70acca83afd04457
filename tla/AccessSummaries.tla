-------------------------- MODULE AccessSummaries --------------------------
(***************************************************************************)
(* The access tracker of the condition extractor                           *)
(* (condition_extractor/src/AccessTracker.cpp, IntraAnalysis.cpp).  For    *)
(* each formal parameter, and for each returned pointer, it computes which *)
(* fields of the value are read, written, created or deleted, by walking   *)
(* forward over the value flow graph.  A call is not walked into: the      *)
(* summary of the callee's parameter is put behind the path that leads to  *)
(* the call.  Functions are done bottom-up over the call graph, recursive  *)
(* ones in rounds until no summary grows, three at most.                   *)
(*                                                                         *)
(* When all summaries are there the model goes on with walks of a value    *)
(* through the program, into calls and back to where they came from: what  *)
(* the summaries are about.                                                *)
(*                                                                         *)
(* External: the value flow graph, the alias sets and the components of    *)
(* the call graph (SVF).  Types are taken to be known and to match, so     *)
(* have_compatible_types accepts; a field stands for a pair of type and    *)
(* index, the key of visited_types.  Left out: the flags for file paths    *)
(* and sizes, the sources of lengths, global variables, copies, and memory *)
(* that a function reads or leaves behind otherwise.                       *)
(***************************************************************************)
EXTENDS Naturals, Sequences, SequencesExt, FiniteSets

CONSTANTS Programs,                 \* the analysed programs, see ProgramsAssumption
          MAX_FIELD_DEPTH, MAX_FIXPOINT_ITERATIONS, MAX_INDIRECT_TARGETS,
          MaxCalls                  \* open calls of a walk (bound of the model)

VARIABLES prog,                     \* the program
          scc, iter, changed, todo, \* process_scc: which component, which round, what it still has to do
          cur, sources, worklist,   \* summarize_from, summarize_return: the item, its sources, its paths
          visited, old,             \* the paths of this walk so far, and the summary before it
          summaries,                \* summaries and ret_summaries
          reported,                 \* a round was cut off, with a warning
          tracked,                  \* history: what the last walks from each item went through
          collided,                 \* history: a path was dropped for one that entered its store otherwise
          walk,                     \* afterwards: a value on its way through the program
          whom, places              \* or all ways of the value of an item: where it can come to

progress == <<scc, iter, changed, todo>>
item == <<cur, sources, worklist, visited, old>>
history == <<reported, tracked, collided>>
vars == <<prog, progress, item, summaries, history, walk, whom, places>>

None == ""
Deref == "deref"                    \* the field -1

\* The program.  sccs: the components of the call graph, callees first.  formals, ret, returns: the formal
\* parameters of a function, its returned value, and if that is a pointer.  A node has an operation, a
\* function and, if it is a GEP, a field; edges are labelled with the operand of a store they lead to, or as
\* memory edges.  An actual parameter is at a site, with a value; a site has arguments, possible targets and
\* the node of its result, and a value a node that defines it.  handlers: what is known of external functions.
Defined(pr) == UNION {pr.sccs[k] : k \in DOMAIN pr.sccs}

Called(pr, f) ==
  UNION {pr.sites[s].targets :
           s \in {pr.actual[a].site : a \in {x \in DOMAIN pr.actual : pr.fun[x] = f}} \cup
                 {x \in DOMAIN pr.sites : pr.sites[x].ret # None /\ pr.fun[pr.sites[x].ret] = f}}

\* The components of the call graph, callees first.
CallOrder(pr) ==
  /\ pr.sccs \in Seq(SUBSET Defined(pr)) /\ pr.sccs # <<>>
  /\ \A j, k \in DOMAIN pr.sccs : \A f \in pr.sccs[k] :
       /\ Called(pr, f) \cap pr.sccs[j] # {} => j <= k
       /\ f \in Called(pr, f) => f \in pr.recursive
       /\ j # k => f \notin pr.sccs[j]

\* Values flow within a function, except into the result of a call, and that is not by memory.
ValueFlow(pr) ==
  /\ None \notin DOMAIN pr.op \cup Defined(pr) /\ DOMAIN pr.op \cap Defined(pr) = {}
  /\ \A e \in pr.edges : /\ e.from \in DOMAIN pr.op /\ e.to \in DOMAIN pr.op
                         /\ pr.op[e.to] # "actualret" => pr.fun[e.from] = pr.fun[e.to]
                         /\ pr.op[e.to] = "actualret" => e.via # "memory"
  /\ \A n \in DOMAIN pr.op : pr.op[n] = "gep" => n \in DOMAIN pr.field

Parameters(pr) ==
  /\ DOMAIN pr.formals = Defined(pr) /\ pr.returns \subseteq Defined(pr)
  /\ \A f \in Defined(pr) : pr.formals[f] \in Seq({n \in DOMAIN pr.op : pr.op[n] = "formal" /\ pr.fun[n] = f})
  /\ \A n \in DOMAIN pr.op : pr.op[n] = "formal" =>
       pr.fun[n] \in Defined(pr) /\ \E k \in DOMAIN pr.formals[pr.fun[n]] : pr.formals[pr.fun[n]][k] = n

\* The nodes of a call are in the function that calls.
CallSites(pr) ==
  /\ \A n \in DOMAIN pr.op : /\ pr.op[n] = "actual" => n \in DOMAIN pr.actual
                             /\ pr.op[n] = "actualret" => \E s \in DOMAIN pr.sites : pr.sites[s].ret = n
  /\ \A a \in DOMAIN pr.actual :
       LET s == pr.sites[pr.actual[a].site] IN
       /\ pr.actual[a].site \in DOMAIN pr.sites
       /\ \E k \in DOMAIN s.args : s.args[k] = pr.actual[a].value
       /\ s.ret # None => pr.fun[s.ret] = pr.fun[a]
  /\ \A s \in DOMAIN pr.sites : DOMAIN pr.sites[s].args \subseteq Nat
  /\ \A s \in DOMAIN pr.sites : pr.sites[s].ret # None =>
       /\ pr.sites[s].ret \in DOMAIN pr.op
       /\ \A k \in DOMAIN pr.sites[s].args : pr.sites[s].args[k] \in DOMAIN pr.def =>
            LET d == pr.def[pr.sites[s].args[k]] IN d \in DOMAIN pr.op /\ pr.fun[d] = pr.fun[pr.sites[s].ret]

Finite(pr) ==
  /\ IsFiniteSet(pr.edges)
  /\ \A k \in DOMAIN pr.sccs : IsFiniteSet(pr.sccs[k])
  /\ \A s \in DOMAIN pr.sites : IsFiniteSet(pr.sites[s].targets)
  /\ \A f \in DOMAIN pr.handlers : IsFiniteSet(pr.handlers[f])

ASSUME ProgramsAssumption ==
  /\ {MAX_FIELD_DEPTH, MAX_FIXPOINT_ITERATIONS, MAX_INDIRECT_TARGETS, MaxCalls} \subseteq Nat
  /\ \A pr \in Programs : CallOrder(pr) /\ ValueFlow(pr) /\ Parameters(pr) /\ CallSites(pr) /\ Finite(pr)

Functions == Defined(prog)
Op(n) == prog.op[n]
FormalsOf(f) == {prog.formals[f][k] : k \in DOMAIN prog.formals[f]}
AllFormals == UNION {FormalsOf(f) : f \in Functions}

\* formals first, then rets: the formal parameters and the functions that return pointers.
Items(fs) == (UNION {FormalsOf(f) : f \in fs}) \cup (fs \cap prog.returns)

\* callee_targets: an indirect call has targets only with consider_indirect_calls.
callee_targets(s) ==
  IF prog.sites[s].indirect /\ ~prog.consider_indirect_calls THEN {} ELSE prog.sites[s].targets

TooManyTargets(s) == prog.sites[s].indirect /\ Cardinality(callee_targets(s)) > MAX_INDIRECT_TARGETS

IsInCycle(fs) == Cardinality(fs) > 1 \/ \E f \in fs : f \in prog.recursive

\* backward_slice: what a function returns comes from these nodes.
IsSource(n) == Op(n) \in {"addr", "actualret", "formal"}
CameFrom(n) == {e.from : e \in {x \in prog.edges : x.to = n /\ ~IsSource(n)}}
NodesOf(f) == {n \in DOMAIN prog.op : prog.fun[n] = f}
backward_slice(f) ==
  LET back[k \in Nat] == IF k = 0 THEN {prog.ret[f]}
                         ELSE LET b == back[k - 1] IN b \cup UNION {CameFrom(n) : n \in b \cap NodesOf(f)}
  IN {n \in back[Cardinality(DOMAIN prog.op)] \cap NodesOf(f) : IsSource(n)}
-----------------------------------------------------------------------------
(* One node (transfer_function, handleGep). *)

\* No field twice (MAX_GEP_RECURSION_DEPTH = 1), except the dereference, which is not counted.
Within(fields) ==
  /\ Len(fields) <= MAX_FIELD_DEPTH
  /\ \A j, k \in DOMAIN fields : fields[j] = fields[k] /\ fields[j] # Deref => j = k

\* The start of a path: Path(entry, nullptr, di_type).
Start(n) == [node |-> n, via |-> None, fields |-> <<>>, kind |-> "none", mem |-> None]

\* visit_key_t: how a store was entered (prevValue) is not part of it.
Key(p) == <<p.node, p.fields, p.kind, p.mem>>

StoresMalloc(n) ==
  \E e \in prog.edges : e.to = n /\ e.from \in DOMAIN prog.mallocs /\ prog.mallocs[e.from] = "malloc"

Written(p) == IF p.via = "pointer" THEN "write" ELSE IF p.via = "value" THEN "read" ELSE p.kind

KindAfter(p) ==
  CASE Op(p.node) \in {"load", "cmp"} -> "read"
    [] Op(p.node) = "store" /\ p.via # None -> IF StoresMalloc(p.node) THEN "create" ELSE Written(p)
    [] OTHER -> p.kind

\* A GEP with constant indices selects a field.
FieldOf(n) == IF Op(n) = "gep" THEN <<prog.field[n]>> ELSE <<>>

\* Other pointer arithmetic is an array access of the base value, and ends a path that is in a field.
Skipped(p) == Op(p.node) = "index" /\ p.fields # <<>>
IsArrayAccess(p) == Op(p.node) = "index" /\ p.fields = <<>>

Transfer(p) ==
  [p EXCEPT !.fields = @ \o FieldOf(p.node), !.kind = KindAfter(p),
            !.mem = IF Op(p.node) = "store" /\ p.via = "value" THEN p.node ELSE @]

\* What the node does to the value, behind the fields of the path.
Accesses(p) ==
  CASE Op(p.node) \in {"load", "cmp"} -> {[fields |-> <<>>, kind |-> "read", node |-> p.node]}
    [] Op(p.node) = "store" /\ p.via # None ->
         {[fields |-> <<>>, kind |-> k, node |-> p.node] : k \in {Written(p), KindAfter(p)}}
    [] Op(p.node) = "gep" -> {[fields |-> <<Deref>>, kind |-> "read", node |-> p.node]}
    [] OTHER -> {}

\* summarize_from goes on behind this node.
GoesOn(p) == ~Skipped(p) /\ Within(Transfer(p).fields)

\* The edges that are followed: of the memory edges those out of a store or a phi, and to a load only
\* if it may read what was stored.
Followed(p) ==
  LET q == Transfer(p) IN
  {e \in prog.edges :
     /\ e.from = p.node /\ GoesOn(p)
     /\ e.via = "memory" => Op(p.node) \in {"store", "phi"}
     /\ e.via = "memory" /\ q.mem # None /\ Op(e.to) = "load" => <<q.mem, e.to>> \in prog.alias}

\* Case 3: an edge within the function.
Next3(p) ==
  {[Transfer(p) EXCEPT !.node = e.to, !.via = e.via, !.mem = IF Op(e.to) = "load" THEN None ELSE @] :
     e \in {x \in Followed(p) : Op(x.to) \notin {"actual", "actualret"}}}

\* Case 1: the value is passed to a call; Case 2: it is returned.
Passed(p) == {e.to : e \in {x \in Followed(p) : Op(x.to) = "actual"}}
Returned(p) == {e.to : e \in {x \in Followed(p) : Op(x.to) = "actualret"}}
-----------------------------------------------------------------------------
(* One call (merge_summary, merge_access_type, get_resume_node). *)

SiteOf(a) == prog.actual[a].site
Positions(a) == {k \in DOMAIN prog.sites[SiteOf(a)].args : prog.sites[SiteOf(a)].args[k] = prog.actual[a].value}

\* The first argument with this value.
Position(a) == CHOOSE k \in Positions(a) : \A j \in Positions(a) : k <= j

\* formal_id_of, for a callee with a body.
CalleeFormals(a, n) ==
  {prog.formals[f][n] :
     f \in {g \in callee_targets(SiteOf(a)) \cap DOMAIN prog.formals : n \in DOMAIN prog.formals[g]}}

\* merge_access_type: with too many targets only what concerns the whole value is kept.
MayFollow(s, fields, suffix) ==
  /\ Within(fields \o suffix)
  /\ TooManyTargets(s) => suffix = <<>>

\* handlerDispatcher for an external callee; some handlers only know the whole value.
Handled(p, a, n) ==
  UNION {{[fields |-> FieldOf(p.node), kind |-> h.kind, node |-> SiteOf(a)] :
            h \in {x \in prog.handlers[f] : x.pos = n /\ (x.whole => Transfer(p).fields = <<>>)}} :
         f \in callee_targets(SiteOf(a)) \cap DOMAIN prog.handlers}

\* Mutant of Resumes: every call that the function returns to.
ResumesAnywhere(a, ret) == {e.to : e \in {x \in prog.edges : x.from = ret /\ Op(x.to) = "actualret"}}

\* get_resume_node: the path goes on at the call it went into.
Resumes(a, ret) ==
  {e.to : e \in {x \in prog.edges : x.from = ret /\ Op(x.to) = "actualret" /\ x.to = prog.sites[SiteOf(a)].ret}}

\* The summary of parameter c of a callee, behind the path that is passed at a.
EffectsBehind(p, a, c, sums) ==
  {[x EXCEPT !.fields = Transfer(p).fields \o @] :
     x \in {y \in sums[c].effects : MayFollow(SiteOf(a), Transfer(p).fields, y.fields)}}

PathsBehind(p, a, c, sums) ==
  UNION {{[Start(r) EXCEPT !.fields = Transfer(p).fields \o x.fields, !.kind = x.kind] : r \in Resumes(a, x.node)} :
         x \in {y \in sums[c].exits : MayFollow(SiteOf(a), Transfer(p).fields, y.fields)}}

EffectsMerged(p, sums) ==
  UNION {UNION {EffectsBehind(p, a, c, sums) : c \in CalleeFormals(a, Position(a))} : a \in Passed(p)}

PathsMerged(p, sums) ==
  UNION {UNION {PathsBehind(p, a, c, sums) : c \in CalleeFormals(a, Position(a))} : a \in Passed(p)}

\* isArray is taken over when the whole object is passed.
ArrayMerged(p, sums) ==
  /\ Transfer(p).fields = <<>>
  /\ \E a \in Passed(p) : ~TooManyTargets(SiteOf(a)) /\ \E c \in CalleeFormals(a, Position(a)) : sums[c].array

\* What one iteration of summarize_from finds itself, behind the fields of the path.
Touched(p, a_at) == Accesses(p) \cup UNION {Handled(p, x[1], x[2]) : x \in a_at}
Behind(fields, ts) == {[t EXCEPT !.fields = fields \o @] : t \in ts}

AtFirst(p) == {<<a, Position(a)>> : a \in Passed(p)}
AtAny(p) == UNION {{<<a, n>> : n \in Positions(a)} : a \in Passed(p)}

\* One iteration; a summary that is merged into itself is taken as it was before.
Iterated(s, p) ==
  [s EXCEPT !.effects = @ \cup Behind(p.fields, Touched(p, AtFirst(p))) \cup EffectsMerged(p, summaries),
            !.exits = IF Returned(p) = {} THEN @
                      ELSE @ \cup {[node |-> p.node, fields |-> Transfer(p).fields, kind |-> KindAfter(p)]},
            !.array = @ \/ IsArrayAccess(p) \/ ArrayMerged(p, summaries)]
-----------------------------------------------------------------------------
(* The summaries. *)

NoSummary == [effects |-> {}, exits |-> {}, array |-> FALSE, params |-> {}]

\* An entry of an AccessTypeSet is its fields and its kind; the nodes are attached to it.
AccessTypes(effects) == {[fields |-> e.fields, kind |-> e.kind] : e \in effects}

\* Mutant of Sizes: a new exit alone does not count.
SizesNoExits(s) == <<Cardinality(AccessTypes(s.effects)), 0, Cardinality(s.params), s.array>>

\* What is compared to see if a summary has changed.
Sizes(s) == <<Cardinality(AccessTypes(s.effects)), Cardinality(s.exits), Cardinality(s.params), s.array>>

\* No value is followed yet.
NoWalk == [item |-> None, of |-> None, calls |-> <<>>, in |-> None, at |-> Start(None), twice |-> FALSE]

Init ==
  /\ prog \in Programs
  /\ scc = 1 /\ iter = 1 /\ changed = FALSE /\ todo = Items(prog.sccs[1])
  /\ cur = None /\ sources = {} /\ worklist = {} /\ visited = {} /\ old = NoSummary
  /\ summaries = [i \in Items(Functions) |-> NoSummary]
  /\ tracked = [i \in Items(Functions) |-> {}]
  /\ reported = FALSE /\ collided = FALSE /\ walk = NoWalk
  /\ whom = None /\ places = {}

\* The formals of the component come first, then the returned pointers.
StartItem(i) ==
  /\ cur = None /\ i \in todo
  /\ i \in AllFormals \/ todo \cap AllFormals = {}
  /\ cur' = i /\ todo' = todo \ {i} /\ old' = summaries[i] /\ visited' = {}
  /\ IF i \in AllFormals
     THEN worklist' = {Start(i)} /\ sources' = {}
     ELSE worklist' = {} /\ sources' = backward_slice(i)
  /\ tracked' = [tracked EXCEPT ![i] = {}]
  /\ UNCHANGED <<prog, scc, iter, changed, summaries, reported, collided, walk>>

\* The call whose result is node n.
CallOf(n) == CHOOSE s \in DOMAIN prog.sites : prog.sites[s].ret = n

\* One source of a returned pointer.  A parameter: its summary is taken over.
FromFormal(s, n) ==
  LET f == prog.fun[n] IN
  [s EXCEPT !.params = @ \cup {k \in DOMAIN prog.formals[f] : prog.formals[f][k] = n},
            !.effects = @ \cup summaries[n].effects, !.array = @ \/ summaries[n].array]

\* What an external callee is known to do to the value it returns, at position 0.
Allocated(n, callees) ==
  UNION {{[fields |-> <<>>, kind |-> h.kind, node |-> n] : h \in {x \in prog.handlers[f] : x.pos = 0}} :
         f \in callees \cap DOMAIN prog.handlers}

FromMalloc(n) == IF n \in DOMAIN prog.mallocs THEN Allocated(n, {prog.mallocs[n]}) ELSE {}

\* The result of a call: what its callees do to it is taken over.
FromCall(s, site) ==
  LET rets == callee_targets(site) \cap prog.returns IN
  [s EXCEPT !.effects = @ \cup Allocated(site, callee_targets(site)) \cup UNION {summaries[f].effects : f \in rets},
            !.array = @ \/ \E f \in rets : summaries[f].array]

\* Where the walks from a source begin: at the source, and for the result of a call also at the
\* definitions of the arguments that come back: params has the positions each callee returns.
Begins(n, params) ==
  {Start(n)} \cup
  (IF Op(n) # "actualret" THEN {} ELSE
     LET s == CallOf(n) IN
     {Start(prog.def[prog.sites[s].args[k]]) :
        k \in {j \in DOMAIN prog.sites[s].args :
                 /\ prog.sites[s].args[j] \in DOMAIN prog.def
                 /\ \E f \in callee_targets(s) \cap prog.returns : j \in params[f]}})

\* summarize_return: the next source of the slice, in any order.  The walks of one source are taken
\* together, they add to the same summary.
NextSource(n) ==
  /\ cur \in Functions /\ worklist = {} /\ n \in sources
  /\ sources' = sources \ {n} /\ visited' = {}
  /\ summaries' = [summaries EXCEPT ![cur] =
       CASE Op(n) = "formal" -> FromFormal(@, n)
         [] Op(n) = "actualret" -> FromCall(@, CallOf(n))
         [] Op(n) = "addr" -> [@ EXCEPT !.effects = @ \cup FromMalloc(n)]]
  /\ worklist' = IF Op(n) = "formal" THEN {}
                 ELSE Begins(n, [f \in prog.returns |-> summaries[f].params])
  /\ UNCHANGED <<prog, progress, cur, old, history, walk>>

\* Mutant of Visited: every path is new.
VisitedNever(p) == FALSE

Visited(p) == \E q \in visited : Key(q) = Key(p)

\* A path with a known key is dropped, even if it entered a store as the other operand.
Drop(p) ==
  /\ p \in worklist /\ Visited(p)
  /\ worklist' = worklist \ {p}
  /\ collided' = (collided \/ p \notin visited)
  /\ UNCHANGED <<prog, progress, cur, sources, visited, old, summaries, reported, tracked, walk>>

\* One iteration of the loop of summarize_from; the order of the worklist is not relied on.
Track(p) ==
  /\ p \in worklist /\ ~Visited(p)
  /\ worklist' = (worklist \ {p}) \cup Next3(p) \cup PathsMerged(p, summaries)
  /\ summaries' = [summaries EXCEPT ![cur] = Iterated(@, p)]
  /\ visited' = visited \cup {p}
  /\ tracked' = [tracked EXCEPT ![cur] = @ \cup {p}]
  /\ UNCHANGED <<prog, progress, cur, sources, old, reported, collided, walk>>

\* The exits of a walk from a returned pointer are dropped with its temporary summary.
EndItem ==
  /\ cur # None /\ worklist = {} /\ sources = {}
  /\ summaries' = [summaries EXCEPT ![cur].exits = IF cur \in AllFormals THEN @ ELSE {}]
  /\ changed' = (changed \/ Sizes(summaries'[cur]) # Sizes(old))
  /\ cur' = None /\ visited' = {}
  /\ UNCHANGED <<prog, scc, iter, todo, sources, worklist, old, history, walk>>

RoundOver == cur = None /\ todo = {} /\ scc <= Len(prog.sccs)

\* process_scc of a recursive component: another round as long as something grows.
NextRound ==
  /\ RoundOver /\ IsInCycle(prog.sccs[scc]) /\ changed /\ iter < MAX_FIXPOINT_ITERATIONS
  /\ iter' = iter + 1 /\ changed' = FALSE /\ todo' = Items(prog.sccs[scc])
  /\ UNCHANGED <<prog, scc, item, summaries, history, walk>>

\* walk_inverted_scc: the next component; "did not reach a fixpoint" is said of this one if it did not.
NextScc ==
  /\ RoundOver /\ ~(IsInCycle(prog.sccs[scc]) /\ changed /\ iter < MAX_FIXPOINT_ITERATIONS)
  /\ reported' = (reported \/ (IsInCycle(prog.sccs[scc]) /\ changed))
  /\ scc' = scc + 1 /\ iter' = 1 /\ changed' = FALSE
  /\ todo' = IF scc < Len(prog.sccs) THEN Items(prog.sccs[scc + 1]) ELSE {}
  /\ UNCHANGED <<prog, item, summaries, tracked, collided, walk>>

Finished == scc > Len(prog.sccs)

Analyse ==
  \/ \E i \in todo : StartItem(i)
  \/ \E n \in sources : NextSource(n)
  \/ \E p \in worklist : Drop(p) \/ Track(p)
  \/ EndItem \/ NextRound \/ NextScc
-----------------------------------------------------------------------------
(* A value on its way through the program, from an item on.  of is the function whose returned pointer it *)
(* is, as long as it is open where that comes from.  Then it is at a path of the innermost call, which      *)
(* began at the item in; calls has where it was passed at each open call, and all its fields until there.   *)

\* The positions of the formals that a function returns.
ReturnedParams ==
  [f \in prog.returns |-> {k \in DOMAIN prog.formals[f] : prog.formals[f][k] \in backward_slice(f)}]

FirstSteps(i) ==
  IF i \in Functions THEN [NoWalk EXCEPT !.item = i, !.of = i]
                     ELSE [NoWalk EXCEPT !.item = i, !.in = i, !.at = Start(i)]

\* What a returned pointer may be, and, if it is the result of a call, what the callee returns.
Origins(w) ==
  IF w.of = None THEN {} ELSE
  UNION {{[w EXCEPT !.of = None, !.in = IF Op(n) = "formal" THEN n ELSE w.of, !.at = q] :
            q \in Begins(n, ReturnedParams)} \cup
         (IF Op(n) # "actualret" THEN {}
          ELSE {[w EXCEPT !.of = g] : g \in callee_targets(CallOf(n)) \cap prog.returns}) :
         n \in backward_slice(w.of)}

Along(w) == {[w EXCEPT !.at = q] : q \in Next3(w.at)}

\* All fields of the value until the innermost call.
Whole(w) == IF w.calls = <<>> THEN <<>> ELSE Last(w.calls).whole

Passing(w, a) == [in |-> w.in, at |-> w.at, a |-> a, whole |-> Whole(w) \o Transfer(w.at).fields]

\* Into a callee, at every position the value is passed at; twice tells that there were several.
Into(w) ==
  IF Len(w.calls) = MaxCalls THEN {} ELSE
  UNION {{[w EXCEPT !.calls = Append(@, Passing(w, x[1])), !.in = c, !.at = Start(c),
                    !.twice = @ \/ x[2] # Position(x[1])] :
            c \in CalleeFormals(x[1], x[2])} : x \in AtAny(w.at)}

\* Back to the call it went into; a call with too many targets is only returned from with the whole value.
Back(w) ==
  IF w.calls = <<>> THEN {} ELSE
  LET top == Last(w.calls)
      fields == Transfer(top.at).fields
  IN {[w EXCEPT !.calls = Front(@), !.in = top.in,
                !.at = [Start(r) EXCEPT !.fields = fields \o Transfer(w.at).fields, !.kind = KindAfter(w.at)]] :
        r \in {x \in Returned(w.at) : /\ x = prog.sites[SiteOf(top.a)].ret
                                      /\ MayFollow(SiteOf(top.a), fields, Transfer(w.at).fields)}}

Moves(w) == IF w.at.node = None THEN Origins(w) ELSE Along(w) \cup Into(w) \cup Back(w)

Move ==
  /\ Finished /\ whom = None
  /\ \/ walk = NoWalk /\ \E i \in Items(Functions) : walk' = FirstSteps(i)
     \/ walk' \in Moves(walk)
  /\ UNCHANGED <<prog, progress, item, summaries, history, whom, places>>
-----------------------------------------------------------------------------
(* All ways of the value of an item at once.  A place is where the value can come to: at a path of a       *)
(* function, which began at the item in, with the fields it had as it came there (whole).  It stands for    *)
(* any open calls it may have come through, so their number has no bound.                                  *)

Outset(i) ==
  IF i \in Functions THEN [of |-> i, whole |-> <<>>, in |-> None, at |-> Start(None)]
                     ELSE [of |-> None, whole |-> <<>>, in |-> i, at |-> Start(i)]

\* All fields of the value as it is passed on.
PassedFields(v) == v.whole \o Transfer(v.at).fields

Entering(v) ==
  UNION {{[of |-> None, whole |-> PassedFields(v), in |-> c, at |-> Start(c)] : c \in CalleeFormals(x[1], x[2])} :
         x \in {y \in AtAny(v.at) : Within(PassedFields(v))}}

\* From place w back to the call at place v, if that leads to where w began.
Leaving(w, v) ==
  {[v EXCEPT !.at = [Start(r) EXCEPT !.fields = Transfer(v.at).fields \o Transfer(w.at).fields, !.kind = KindAfter(w.at)]] :
     r \in {y \in Returned(w.at) : \E x \in AtAny(v.at) :
              /\ w.in \in CalleeFormals(x[1], x[2]) /\ y = prog.sites[SiteOf(x[1])].ret
              /\ MayFollow(SiteOf(x[1]), Transfer(v.at).fields, Transfer(w.at).fields)}}

Further(S) ==
  LET on == {v \in S : v.of = None}
      calls == {v \in on : Passed(v.at) # {}}
      ends == {w \in on : Returned(w.at) # {}}
  IN (UNION {Origins(v) : v \in S \ on}) \cup (UNION {Along(v) : v \in on}) \cup (UNION {Entering(v) : v \in calls}) \cup
     UNION {UNION {Leaving(w, v) : w \in {x \in ends : x.whole = PassedFields(v)}} : v \in calls}

FollowAll(i) ==
  /\ Finished /\ walk = NoWalk /\ whom = None
  /\ whom' = i /\ places' = {Outset(i)}
  /\ UNCHANGED <<prog, progress, item, summaries, history, walk>>

GoOn ==
  /\ whom # None
  /\ LET more == Further(places) IN ~(more \subseteq places) /\ places' = places \cup more
  /\ UNCHANGED <<prog, progress, item, summaries, history, walk, whom>>

Explore == (\E i \in Items(Functions) : FollowAll(i)) \/ GoOn

Analysis == Analyse /\ UNCHANGED <<whom, places>>
Next == Analysis \/ Move \/ Explore
Spec == Init /\ [][Next]_vars
FairSpec == Spec /\ WF_vars(Analysis)
-----------------------------------------------------------------------------
(* Properties. *)

\* What is done to the value where it is.
Done(w) == IF w.at.node = None THEN {} ELSE Behind(Whole(w) \o w.at.fields, Touched(w.at, AtAny(w.at)))

\* A summary has to tell of it, unless it is too deep, or in a field of what was passed to too many targets.
Told(w, fields) ==
  w.calls # <<>> => /\ Within(fields)
                    /\ \A k \in DOMAIN w.calls : TooManyTargets(SiteOf(w.calls[k].a)) => w.calls[k].whole = fields

\* The value was passed to a call twice: only the first position counts (merge_summary).
PassedTwice(w) == w.twice \/ (w.at.node # None /\ AtAny(w.at) # AtFirst(w.at))

\* Unless a recursive component was cut off with the warning, nothing that happens to a value on its way through
\* the program, into calls and back, is missing in the summary of where it began (process_scc, merge_summary):
\* the rounds end when the summaries are closed, and a callee is done before its callers.
Covered ==
  Finished /\ ~reported /\ ~collided /\ walk # NoWalk /\ ~PassedTwice(walk) =>
    /\ \A t \in Done(walk) :
         Told(walk, t.fields) => [fields |-> t.fields, kind |-> t.kind] \in AccessTypes(summaries[walk.item].effects)
    /\ walk.at.node # None /\ IsArrayAccess(walk.at) /\ Whole(walk) = <<>>
         /\ (\A k \in DOMAIN walk.calls : ~TooManyTargets(SiteOf(walk.calls[k].a)))
       => summaries[walk.item].array

\* What is done to the value at a place, and where a returned pointer comes from.
DoneAt(v) ==
  IF v.of = None THEN Behind(v.whole \o v.at.fields, Touched(v.at, AtAny(v.at)))
  ELSE UNION {FromMalloc(n) \cup (IF Op(n) = "actualret" THEN Allocated(n, callee_targets(CallOf(n))) ELSE {}) :
              n \in backward_slice(v.of)}

\* A summary tells nothing that happens to no value on its way through the program (get_resume_node, merge_summary):
\* what a function does with the value of another caller is not told of this one.
NothingInvented ==
  whom # None /\ Further(places) \subseteq places =>
    /\ AccessTypes(summaries[whom].effects) \subseteq AccessTypes(UNION {DoneAt(v) : v \in places})
    /\ summaries[whom].array => \E v \in places : v.of = None /\ v.whole = <<>> /\ IsArrayAccess(v.at)

\* The analysis ends (summarize_from, process_scc): a loop in the value flow adds no path for ever, and a
\* recursive component has only so many rounds.
AnalysisEnds == <>Finished
=============================================================================
