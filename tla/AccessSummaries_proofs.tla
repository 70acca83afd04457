------------------------ MODULE AccessSummaries_proofs ------------------------
(***************************************************************************)
(* Proofs about AccessSummaries, for any program and any bounds: what      *)
(* happens to a value on its way through the program is in the summary of  *)
(* where it began, and nothing else is.                                    *)
(***************************************************************************)
EXTENDS AccessSummaries, SequenceTheorems, FiniteSetTheorems, NaturalsInduction, WellFoundedInduction, TLAPS

Nodes == DOMAIN prog.op
Fields == {prog.field[n] : n \in DOMAIN prog.field} \cup {Deref}
Kinds ==
  {"none", "read", "write", "create"} \cup
  {h.kind : h \in UNION {prog.handlers[f] : f \in DOMAIN prog.handlers}}
Vias == {e.via : e \in prog.edges} \cup {None}

\* The function an item is about.
Home(i) == IF i \in Functions THEN i ELSE prog.fun[i]

Paths == [node : Nodes, via : Vias, fields : Seq(Fields), kind : Kinds, mem : Nodes \cup {None}]
PathsOf(i) == {p \in Paths : prog.fun[p.node] = Home(i)}

Effects == [fields : Seq(Fields), kind : Kinds, node : Nodes \cup DOMAIN prog.sites]
Exits == [node : Nodes, fields : Seq(Fields), kind : Kinds]
Summary ==
  {s \in [effects : SUBSET Effects, exits : SUBSET Exits, array : BOOLEAN, params : SUBSET Nat] :
     IsFiniteSet(s.effects) /\ IsFiniteSet(s.exits) /\ IsFiniteSet(s.params)}

Component == IF Finished THEN {} ELSE prog.sccs[scc]

\* The parameters of a component are walked before what its functions return.
Ordered == (todo \cup {cur}) \cap AllFormals # {} => Component \cap prog.returns \subseteq todo

Typed ==
  /\ prog \in Programs /\ scc \in 1..(Len(prog.sccs) + 1)
  /\ changed \in BOOLEAN /\ reported \in BOOLEAN /\ collided \in BOOLEAN
  /\ todo \subseteq Items(Component)
  /\ cur # None => cur \in Items(Component) /\ cur \notin todo
  /\ cur = None => sources = {} /\ worklist = {}
  /\ Ordered
  /\ sources \subseteq (IF cur \in Functions THEN backward_slice(cur) ELSE {})
  /\ worklist \subseteq PathsOf(cur) /\ visited \subseteq Paths
  /\ old \in Summary /\ summaries \in [Items(Functions) -> Summary]
  /\ tracked \in [Items(Functions) -> SUBSET Paths]
  /\ \A i \in Items(Functions) : tracked[i] \subseteq PathsOf(i)

\* What is left of a summary when it is used: entries without nodes, and the exits of parameters only.
Same(i, s, t) ==
  /\ AccessTypes(s.effects) = AccessTypes(t.effects) /\ s.array = t.array /\ s.params = t.params
  /\ i \in AllFormals => s.exits = t.exits

Grows(s, t) ==
  /\ s.effects \subseteq t.effects /\ s.exits \subseteq t.exits
  /\ (s.array => t.array) /\ s.params \subseteq t.params

\* The summary of the item that is walked only grows.
Growing == cur # None => Grows(old, summaries[cur])

\* The entry of something that is done behind some fields.
Entry(fields, x) == [fields |-> fields \o x.fields, kind |-> x.kind]

\* What is on the paths ps, and nothing but what is in more, is in summary i of S.
PathsClosed(i, S, ps, more) ==
  \A p \in ps :
    /\ Next3(p) \subseteq more
    /\ \A x \in Touched(p, AtFirst(p)) : Entry(p.fields, x) \in AccessTypes(S[i].effects)
    /\ \A a \in Passed(p) : \A c \in CalleeFormals(a, Position(a)) :
         /\ \A y \in AccessTypes(S[c].effects) :
              MayFollow(SiteOf(a), Transfer(p).fields, y.fields) =>
                Entry(Transfer(p).fields, y) \in AccessTypes(S[i].effects)
         /\ PathsBehind(p, a, c, S) \subseteq more
         /\ S[c].array /\ Transfer(p).fields = <<>> /\ ~TooManyTargets(SiteOf(a)) => S[i].array
    /\ i \in AllFormals /\ Returned(p) # {} =>
         [node |-> p.node, fields |-> Transfer(p).fields, kind |-> KindAfter(p)] \in S[i].exits
    /\ IsArrayAccess(p) => S[i].array

\* Where the walks of i begin, and what it takes over; ns are the sources that were taken.
BeginsClosed(i, S, ns, more) ==
  /\ i \in AllFormals => Start(i) \in more
  /\ i \in Functions => \A n \in ns :
       /\ Op(n) = "formal" =>
            /\ AccessTypes(S[n].effects) \subseteq AccessTypes(S[i].effects) /\ (S[n].array => S[i].array)
            /\ \A k \in DOMAIN prog.formals[i] : prog.formals[i][k] = n => k \in S[i].params
       /\ Op(n) # "formal" => Begins(n, [f \in prog.returns |-> S[f].params]) \subseteq more
       /\ Op(n) = "actualret" =>
            \A g \in callee_targets(CallOf(n)) \cap prog.returns :
              AccessTypes(S[g].effects) \subseteq AccessTypes(S[i].effects) /\ (S[g].array => S[i].array)

Closed(i, S, ps) ==
  PathsClosed(i, S, ps, ps) /\ BeginsClosed(i, S, IF i \in Functions THEN backward_slice(i) ELSE {}, ps)

\* The rounds of the component still find what they found before, or there is one round only.
Stable ==
  IsInCycle(Component) =>
    ~changed /\ (cur # None => Same(cur, summaries[cur], old))

\* The items that were walked: of earlier components, and in this round.
Before == Items(UNION {prog.sccs[k] : k \in 1..(scc - 1)})
Walked == Items(Component) \ (todo \cup {cur})

Settled ==
  ~reported /\ ~collided =>
    /\ \A i \in Before : Closed(i, summaries, tracked[i])
    /\ Stable => \A i \in Walked : Closed(i, summaries, tracked[i])
    /\ cur # None => visited \subseteq tracked[cur]
    /\ Stable /\ cur # None =>
         /\ PathsClosed(cur, summaries, tracked[cur], tracked[cur] \cup worklist)
         /\ BeginsClosed(cur, summaries, IF cur \in Functions THEN backward_slice(cur) \ sources ELSE {},
                         tracked[cur] \cup worklist)

\* The value is in the summaries: at each open call it was passed to what it is in, and what the summary of
\* that tells is in the summary of where the walk began.
Item(w, k) == IF k = Len(w.calls) THEN w.in ELSE w.calls[k + 1].in
WholeAt(w, k) == IF k = 0 THEN <<>> ELSE w.calls[k].whole
Free(w, k) == \A j \in 1..k : ~TooManyTargets(SiteOf(w.calls[j].a))
Tellable(w, k, fields) ==
  k # 0 => /\ Within(fields)
           /\ \A j \in 1..k : TooManyTargets(SiteOf(w.calls[j].a)) => w.calls[j].whole = fields

ToldAt(w, k) ==
  /\ Item(w, k) \in Items(Functions)
  /\ \A y \in AccessTypes(summaries[Item(w, k)].effects) :
       Tellable(w, k, WholeAt(w, k) \o y.fields) =>
         Entry(WholeAt(w, k), y) \in AccessTypes(summaries[w.item].effects)
  /\ summaries[Item(w, k)].array /\ WholeAt(w, k) = <<>> /\ Free(w, k) => summaries[w.item].array

CalledAt(w, k) ==
  LET c == w.calls[k] IN
  /\ c.in \in Items(Functions) /\ c.at \in tracked[c.in] /\ c.a \in Passed(c.at)
  /\ Item(w, k) \in CalleeFormals(c.a, Position(c.a))
  /\ c.whole = WholeAt(w, k - 1) \o Transfer(c.at).fields

Calls == [in : Items(Functions), at : Paths, a : Nodes, whole : Seq(Fields)]

Walks ==
  [item : Items(Functions), of : Functions \cup {None}, calls : Seq(Calls), in : Items(Functions) \cup {None},
   at : Paths \cup {Start(None)}, twice : BOOLEAN]

WalkTyped(w) ==
  /\ w \in Walks
  /\ w.of # None => w.of \in prog.returns /\ w.calls = <<>> /\ w.at = Start(None)
  /\ w.of = None => w.at \in Paths /\ w.in \in Items(Functions)

\* As long as the value is a returned pointer: what is told of that is told of where the walk began.
Returning(w) ==
  w.of # None =>
    /\ AccessTypes(summaries[w.of].effects) \subseteq AccessTypes(summaries[w.item].effects)
    /\ summaries[w.of].array => summaries[w.item].array

OnItsWay(w) ==
  w.of = None =>
    /\ w.at \in tracked[w.in]
    /\ \A k \in 0..Len(w.calls) : ToldAt(w, k)
    /\ \A k \in 1..Len(w.calls) : CalledAt(w, k)

Followable(w) == Finished /\ ~reported /\ ~collided /\ ~w.twice => Returning(w) /\ OnItsWay(w)

Walking ==
  /\ ~Finished => walk = NoWalk
  /\ walk # NoWalk => WalkTyped(walk) /\ Followable(walk)

IInv == Typed /\ Growing /\ Settled /\ Walking
-----------------------------------------------------------------------------
(* The program does not change, so neither does what is defined from it. *)

LEMMA SameNodes ==
  ASSUME prog' = prog
  PROVE  /\ Functions' = Functions /\ AllFormals' = AllFormals /\ Nodes' = Nodes
         /\ \A n : Op(n)' = Op(n) /\ FormalsOf(n)' = FormalsOf(n) /\ SiteOf(n)' = SiteOf(n) /\ Home(n)' = Home(n)
         /\ \A fs : Items(fs)' = Items(fs)
         /\ \A s : callee_targets(s)' = callee_targets(s)
         /\ \A s : TooManyTargets(s)' = TooManyTargets(s)
         /\ \A fs : IsInCycle(fs)' = IsInCycle(fs)
         /\ \A s : CallOf(s)' = CallOf(s)
         /\ Paths' = Paths /\ Effects' = Effects /\ Exits' = Exits
         /\ \A i : PathsOf(i)' = PathsOf(i)
         /\ Summary' = Summary
<1>1. Functions' = Functions /\ Nodes' = Nodes
  BY DEF Functions, Nodes
<1>2. \A n : Op(n)' = Op(n) /\ FormalsOf(n)' = FormalsOf(n) /\ SiteOf(n)' = SiteOf(n)
  BY DEF Op, FormalsOf, SiteOf
<1>3. AllFormals' = AllFormals
  BY <1>1, <1>2 DEF AllFormals
<1>4. \A fs : Items(fs)' = Items(fs)
  BY <1>2 DEF Items
<1>5. \A n : Home(n)' = Home(n)
  BY <1>1 DEF Home
<1>6. \A s : callee_targets(s)' = callee_targets(s)
  BY DEF callee_targets
<1>7. \A s : TooManyTargets(s)' = TooManyTargets(s)
  BY <1>6 DEF TooManyTargets
<1>8. \A fs : IsInCycle(fs)' = IsInCycle(fs)
  BY DEF IsInCycle
<1>9. \A s : CallOf(s)' = CallOf(s)
  BY DEF CallOf
<1>10. Paths' = Paths /\ Effects' = Effects /\ Exits' = Exits
  BY <1>1 DEF Paths, Effects, Exits, Fields, Kinds, Vias
<1>11. \A i : PathsOf(i)' = PathsOf(i)
  BY <1>5, <1>10 DEF PathsOf
<1>12. Summary' = Summary
  BY <1>10 DEF Summary
<1> QED BY <1>1, <1>2, <1>3, <1>4, <1>5, <1>6, <1>7, <1>8, <1>9, <1>10, <1>11, <1>12

LEMMA SameSlices ==
  ASSUME prog' = prog
  PROVE  \A f : backward_slice(f)' = backward_slice(f)
BY DEF backward_slice, CameFrom, IsSource, NodesOf, Op

LEMMA SamePaths ==
  ASSUME prog' = prog
  PROVE  /\ \A p : Next3(p)' = Next3(p) /\ Passed(p)' = Passed(p) /\ Returned(p)' = Returned(p)
         /\ \A p : Transfer(p)' = Transfer(p) /\ KindAfter(p)' = KindAfter(p) /\ IsArrayAccess(p)' = IsArrayAccess(p)
         /\ \A p : AtFirst(p)' = AtFirst(p) /\ AtAny(p)' = AtAny(p)
         /\ \A p, at : Touched(p, at)' = Touched(p, at)
         /\ \A a : Position(a)' = Position(a)
         /\ \A a, n : CalleeFormals(a, n)' = CalleeFormals(a, n)
         /\ \A s, fs, x : MayFollow(s, fs, x)' = MayFollow(s, fs, x)
         /\ \A p, a, c, S : PathsBehind(p, a, c, S)' = PathsBehind(p, a, c, S)
         /\ \A n, ps : Begins(n, ps)' = Begins(n, ps)
<1>1. \A n : Op(n)' = Op(n) /\ SiteOf(n)' = SiteOf(n)
  BY SameNodes
<1>2. \A s : callee_targets(s)' = callee_targets(s) /\ TooManyTargets(s)' = TooManyTargets(s) /\ CallOf(s)' = CallOf(s)
  BY SameNodes
<1>3. \A n : FieldOf(n)' = FieldOf(n) /\ StoresMalloc(n)' = StoresMalloc(n)
  BY <1>1 DEF FieldOf, StoresMalloc
<1>4. \A p : KindAfter(p)' = KindAfter(p)
  BY <1>1, <1>3 DEF KindAfter, Written
<1>5. \A p : Transfer(p)' = Transfer(p)
  BY <1>1, <1>3, <1>4 DEF Transfer
<1>6. \A p : Skipped(p)' = Skipped(p) /\ IsArrayAccess(p)' = IsArrayAccess(p)
  BY <1>1 DEF Skipped, IsArrayAccess
<1>7. \A p : GoesOn(p)' = GoesOn(p)
  BY <1>5, <1>6 DEF GoesOn, Within
<1>8. \A p : Followed(p)' = Followed(p)
  BY <1>1, <1>5, <1>7 DEF Followed
<1>9. \A p : Next3(p)' = Next3(p) /\ Passed(p)' = Passed(p) /\ Returned(p)' = Returned(p)
  BY <1>1, <1>5, <1>8 DEF Next3, Passed, Returned
<1>10. \A p : Accesses(p)' = Accesses(p)
  BY <1>1, <1>4 DEF Accesses, Written
<1>11. \A a : Positions(a)' = Positions(a)
  BY <1>1 DEF Positions
<1>12. \A a : Position(a)' = Position(a)
  BY <1>11 DEF Position
<1>13. \A a, n : CalleeFormals(a, n)' = CalleeFormals(a, n)
  BY <1>1, <1>2 DEF CalleeFormals
<1>14. \A p : AtFirst(p)' = AtFirst(p) /\ AtAny(p)' = AtAny(p)
  BY <1>9, <1>11, <1>12 DEF AtFirst, AtAny
<1>15. \A p, a, n : Handled(p, a, n)' = Handled(p, a, n)
  BY <1>1, <1>2, <1>3, <1>5 DEF Handled
<1>16. \A p, at : Touched(p, at)' = Touched(p, at)
  BY <1>10, <1>15 DEF Touched
<1>17. \A s, fs, x : MayFollow(s, fs, x)' = MayFollow(s, fs, x)
  BY <1>2 DEF MayFollow, Within
<1>18. \A a, n : Resumes(a, n)' = Resumes(a, n)
  BY <1>1 DEF Resumes
<1>19. \A p, a, c, S : PathsBehind(p, a, c, S)' = PathsBehind(p, a, c, S)
  <2> SUFFICES ASSUME NEW p, NEW a, NEW c, NEW S
               PROVE  PathsBehind(p, a, c, S)' = PathsBehind(p, a, c, S)
    OBVIOUS
  <2>1. \A r : Start(r)' = Start(r)
    BY DEF Start
  <2>2. \A q : q \in PathsBehind(p, a, c, S)' <=> q \in PathsBehind(p, a, c, S)
    <3> TAKE q
    <3> DEFINE G(x, r) == [Start(r) EXCEPT !.fields = Transfer(p).fields \o x.fields, !.kind = x.kind]
               F(x) == {G(x, r) : r \in Resumes(a, x.node)}
               X == {y \in S[c].exits : MayFollow(SiteOf(a), Transfer(p).fields, y.fields)}
    <3>1. PathsBehind(p, a, c, S) = UNION {F(x) : x \in X}
      BY DEF PathsBehind
    <3>2. PathsBehind(p, a, c, S)' = UNION {F(x)' : x \in X'}
      BY DEF PathsBehind
    <3>3. \A x : MayFollow(SiteOf(a), Transfer(p).fields, x.fields)' = MayFollow(SiteOf(a), Transfer(p).fields, x.fields)
      BY <1>1, <1>5, <1>17
    <3>4. X' = X
      BY <3>3
    <3>5. \A x, r : G(x, r)' = G(x, r)
      BY <1>5, <2>1
    <3> HIDE DEF G, X
    <3>6. \A x : F(x)' = F(x)
      BY <1>18, <3>5
    <3> HIDE DEF F
    <3> QED BY <3>1, <3>2, <3>4, <3>6
  <2> QED BY <2>2
<1>20. \A n, ps : Begins(n, ps)' = Begins(n, ps)
  BY <1>1, <1>2 DEF Begins, Start
<1> QED BY <1>4, <1>5, <1>6, <1>9, <1>12, <1>13, <1>14, <1>16, <1>17, <1>19, <1>20

LEMMA SameClosed ==
  ASSUME prog' = prog
  PROVE  /\ \A i, s, t : Same(i, s, t)' = Same(i, s, t)
         /\ \A i, S, ps, more : PathsClosed(i, S, ps, more)' = PathsClosed(i, S, ps, more)
         /\ \A i, S, ns, more : BeginsClosed(i, S, ns, more)' = BeginsClosed(i, S, ns, more)
         /\ \A i, S, ps : Closed(i, S, ps)' = Closed(i, S, ps)
<1>1. \A i, s, t : Same(i, s, t)' = Same(i, s, t)
  BY SameNodes DEF Same
<1>2. \A i, S, ps, more : PathsClosed(i, S, ps, more)' = PathsClosed(i, S, ps, more)
  BY SameNodes, SamePaths DEF PathsClosed
<1>3. \A i, S, ns, more : BeginsClosed(i, S, ns, more)' = BeginsClosed(i, S, ns, more)
  BY SameNodes, SamePaths DEF BeginsClosed, Start
<1>4. \A i, S, ps : Closed(i, S, ps)' = Closed(i, S, ps)
  BY <1>2, <1>3, SameNodes, SameSlices DEF Closed
<1> QED BY <1>1, <1>2, <1>3, <1>4
-----------------------------------------------------------------------------
(* The program is well formed. *)

LEMMA EdgeFacts ==
  ASSUME prog \in Programs
  PROVE  /\ \A e \in prog.edges : /\ e.from \in Nodes /\ e.to \in Nodes
                                  /\ Op(e.to) # "actualret" => prog.fun[e.from] = prog.fun[e.to]
         /\ IsFiniteSet(prog.edges)
         /\ None \notin Nodes /\ None \notin Functions /\ \A n \in Nodes : n \notin Functions
         /\ \A n \in Nodes : Op(n) = "gep" => prog.field[n] \in Fields
BY ProgramsAssumption DEF ProgramsAssumption, ValueFlow, Finite, Nodes, Functions, Op, Fields

LEMMA FormalFacts ==
  ASSUME prog \in Programs
  PROVE  /\ DOMAIN prog.formals = Functions /\ prog.returns \subseteq Functions
         /\ \A f \in Functions : \A k \in DOMAIN prog.formals[f] :
              /\ k \in Nat /\ prog.formals[f][k] \in Nodes
              /\ Op(prog.formals[f][k]) = "formal" /\ prog.fun[prog.formals[f][k]] = f
         /\ \A n \in Nodes : Op(n) = "formal" =>
              prog.fun[n] \in Functions /\ n \in FormalsOf(prog.fun[n]) /\ n \in AllFormals
         /\ \A f \in Functions : \A n \in FormalsOf(f) : n \in Nodes /\ Op(n) = "formal" /\ prog.fun[n] = f /\ n \in AllFormals
         /\ \A n \in AllFormals : n \in Nodes /\ Op(n) = "formal" /\ prog.fun[n] \in Functions /\ n \notin Functions
<1>1. DOMAIN prog.formals = Functions /\ prog.returns \subseteq Functions
  BY ProgramsAssumption DEF ProgramsAssumption, Parameters, Functions
<1>2. ASSUME NEW f \in Functions, NEW k \in DOMAIN prog.formals[f]
      PROVE  /\ k \in Nat /\ prog.formals[f][k] \in Nodes
             /\ Op(prog.formals[f][k]) = "formal" /\ prog.fun[prog.formals[f][k]] = f
  <2>1. prog.formals[f] \in Seq({n \in Nodes : prog.op[n] = "formal" /\ prog.fun[n] = f})
    BY ProgramsAssumption DEF ProgramsAssumption, Parameters, Functions, Nodes
  <2>2. k \in Nat /\ prog.formals[f][k] \in {n \in Nodes : prog.op[n] = "formal" /\ prog.fun[n] = f}
    BY <2>1
  <2> QED BY <2>2 DEF Op
<1>3. ASSUME NEW n \in Nodes, Op(n) = "formal"
      PROVE  prog.fun[n] \in Functions /\ n \in FormalsOf(prog.fun[n])
  BY <1>3, ProgramsAssumption DEF ProgramsAssumption, Parameters, Functions, Nodes, Op, FormalsOf
<1>4. \A f \in Functions : FormalsOf(f) \subseteq AllFormals
  BY DEF AllFormals
<1>5. \A f \in Functions : \A n \in FormalsOf(f) : n \in Nodes /\ Op(n) = "formal" /\ prog.fun[n] = f
  BY <1>2 DEF FormalsOf
<1>6. \A n \in AllFormals : \E f \in Functions : n \in FormalsOf(f)
  BY DEF AllFormals
<1>7. \A n \in Nodes : n \notin Functions
  BY EdgeFacts
<1> QED BY <1>1, <1>2, <1>3, <1>4, <1>5, <1>6, <1>7

LEMMA CallFacts ==
  ASSUME prog \in Programs
  PROVE  /\ \A a \in Nodes : Op(a) = "actual" =>
              /\ SiteOf(a) \in DOMAIN prog.sites
              /\ callee_targets(SiteOf(a)) \subseteq Called(prog, prog.fun[a])
              /\ \A r \in Nodes : r = prog.sites[SiteOf(a)].ret => prog.fun[r] = prog.fun[a]
         /\ \A n \in Nodes : Op(n) = "actualret" =>
              /\ CallOf(n) \in DOMAIN prog.sites
              /\ callee_targets(CallOf(n)) \subseteq Called(prog, prog.fun[n])
              /\ \A k \in DOMAIN prog.sites[CallOf(n)].args : prog.sites[CallOf(n)].args[k] \in DOMAIN prog.def =>
                   LET d == prog.def[prog.sites[CallOf(n)].args[k]] IN d \in Nodes /\ prog.fun[d] = prog.fun[n]
         /\ \A s \in DOMAIN prog.sites : IsFiniteSet(callee_targets(s))
         /\ \A f \in DOMAIN prog.handlers : IsFiniteSet(prog.handlers[f])
<1>1. CallSites(prog) /\ Finite(prog) /\ None \notin Nodes
  BY ProgramsAssumption, EdgeFacts DEF ProgramsAssumption
<1>2. \A s : callee_targets(s) \subseteq prog.sites[s].targets
  BY DEF callee_targets
<1>3. ASSUME NEW a \in Nodes, Op(a) = "actual"
      PROVE  /\ SiteOf(a) \in DOMAIN prog.sites
             /\ callee_targets(SiteOf(a)) \subseteq Called(prog, prog.fun[a])
             /\ \A r \in Nodes : r = prog.sites[SiteOf(a)].ret => prog.fun[r] = prog.fun[a]
  <2>1. a \in DOMAIN prog.actual
    BY <1>1, <1>3 DEF CallSites, Op, Nodes
  <2>2. SiteOf(a) \in DOMAIN prog.sites
    BY <1>1, <2>1 DEF CallSites, SiteOf
  <2>3. prog.sites[SiteOf(a)].targets \subseteq Called(prog, prog.fun[a])
    BY <2>1 DEF Called, SiteOf
  <2>4. \A r \in Nodes : r = prog.sites[SiteOf(a)].ret => prog.fun[r] = prog.fun[a]
    BY <1>1, <2>1 DEF CallSites, SiteOf
  <2> QED BY <1>2, <2>2, <2>3, <2>4
<1>4. ASSUME NEW n \in Nodes, Op(n) = "actualret"
      PROVE  /\ CallOf(n) \in DOMAIN prog.sites
             /\ callee_targets(CallOf(n)) \subseteq Called(prog, prog.fun[n])
             /\ \A k \in DOMAIN prog.sites[CallOf(n)].args : prog.sites[CallOf(n)].args[k] \in DOMAIN prog.def =>
                   LET d == prog.def[prog.sites[CallOf(n)].args[k]] IN d \in Nodes /\ prog.fun[d] = prog.fun[n]
  <2>1. \E s \in DOMAIN prog.sites : prog.sites[s].ret = n
    BY <1>1, <1>4 DEF CallSites, Op, Nodes
  <2>2. CallOf(n) \in DOMAIN prog.sites /\ prog.sites[CallOf(n)].ret = n
    BY <2>1 DEF CallOf
  <2>3. prog.sites[CallOf(n)].ret # None
    BY <1>1, <2>2
  <2>4. prog.sites[CallOf(n)].targets \subseteq Called(prog, prog.fun[n])
    BY <2>2, <2>3 DEF Called
  <2>5. \A k \in DOMAIN prog.sites[CallOf(n)].args : prog.sites[CallOf(n)].args[k] \in DOMAIN prog.def =>
          LET d == prog.def[prog.sites[CallOf(n)].args[k]] IN d \in Nodes /\ prog.fun[d] = prog.fun[n]
    BY <1>1, <2>2, <2>3 DEF CallSites, Nodes
  <2> QED BY <1>2, <2>2, <2>4, <2>5
<1>5. \A s \in DOMAIN prog.sites : IsFiniteSet(callee_targets(s))
  BY <1>1, FS_EmptySet DEF Finite, callee_targets
<1> QED BY <1>1, <1>3, <1>4, <1>5 DEF Finite

LEMMA ItemFacts ==
  ASSUME prog \in Programs
  PROVE  /\ \A i : i \in Items(Functions) <=> i \in AllFormals \/ i \in prog.returns
         /\ \A i \in Items(Functions) : Home(i) \in Functions /\ i # None
         /\ \A i : i \in AllFormals <=> i \in Items(Functions) /\ i \notin Functions
         /\ \A fs \in SUBSET Functions : \A i : i \in Items(fs) <=> i \in Items(Functions) /\ Home(i) \in fs
<1>1. \A fs : \A i : i \in Items(fs) <=> (\E f \in fs : i \in FormalsOf(f)) \/ (i \in fs /\ i \in prog.returns)
  BY DEF Items
<1>2. \A i : i \in AllFormals <=> \E f \in Functions : i \in FormalsOf(f)
  BY DEF AllFormals
<1> USE FormalFacts, EdgeFacts
<1>3. \A i : i \in Items(Functions) <=> i \in AllFormals \/ i \in prog.returns
  BY <1>1, <1>2
<1>4. \A i \in AllFormals : Home(i) = prog.fun[i] /\ i \in FormalsOf(prog.fun[i])
  BY DEF Home
<1>5. \A i \in prog.returns : Home(i) = i
  BY DEF Home
<1>6. ASSUME NEW fs \in SUBSET Functions, NEW i
      PROVE  i \in Items(fs) <=> i \in Items(Functions) /\ Home(i) \in fs
  BY <1>1, <1>3, <1>4, <1>5
<1> QED BY <1>3, <1>4, <1>5, <1>6

LEMMA SccFacts ==
  ASSUME prog \in Programs
  PROVE  /\ prog.sccs \in Seq(SUBSET Functions) /\ Len(prog.sccs) \in Nat \ {0}
         /\ DOMAIN prog.sccs = 1..Len(prog.sccs)
         /\ \A k \in 1..Len(prog.sccs) : prog.sccs[k] \subseteq Functions /\ IsFiniteSet(prog.sccs[k])
         /\ \A f : f \in Functions <=> \E k \in 1..Len(prog.sccs) : f \in prog.sccs[k]
         /\ \A j, k \in 1..Len(prog.sccs) : \A f \in prog.sccs[k] :
              /\ \A g \in Called(prog, f) : g \in prog.sccs[j] => j <= k
              /\ f \in Called(prog, f) => f \in prog.recursive
              /\ f \in prog.sccs[j] => j = k
<1>1. CallOrder(prog) /\ Finite(prog)
  BY ProgramsAssumption DEF ProgramsAssumption
<1>2. prog.sccs \in Seq(SUBSET Functions) /\ prog.sccs # <<>>
  BY <1>1 DEF CallOrder, Functions
<1>3. Len(prog.sccs) \in Nat \ {0} /\ DOMAIN prog.sccs = 1..Len(prog.sccs)
  BY <1>2
<1>4. \A k \in 1..Len(prog.sccs) : prog.sccs[k] \subseteq Functions /\ IsFiniteSet(prog.sccs[k])
  BY <1>1, <1>2, <1>3 DEF Finite
<1>5. \A f : f \in Functions <=> \E k \in 1..Len(prog.sccs) : f \in prog.sccs[k]
  BY <1>3 DEF Functions, Defined
<1>6. \A j, k \in 1..Len(prog.sccs) : \A f \in prog.sccs[k] :
              /\ \A g \in Called(prog, f) : g \in prog.sccs[j] => j <= k
              /\ f \in Called(prog, f) => f \in prog.recursive
              /\ f \in prog.sccs[j] => j = k
  BY <1>1, <1>3 DEF CallOrder
<1> QED BY <1>2, <1>3, <1>4, <1>5, <1>6

\* What the summary of an item is made from: the items of the functions that its function calls, and for a
\* returned pointer the parameters of its own.
Uses(i) == Items(Called(prog, Home(i)) \cap Functions) \cup (IF i \in Functions THEN FormalsOf(i) ELSE {})

-----------------------------------------------------------------------------
(* Paths. *)

LEMMA StartFacts ==
  ASSUME NEW n \in Nodes
  PROVE  Start(n) \in Paths /\ Start(n).node = n
<1>1. <<>> \in Seq(Fields)
  BY EmptySeq
<1> QED BY <1>1 DEF Start, Paths, Kinds, Vias

LEMMA TransferFacts ==
  ASSUME prog \in Programs, NEW p \in Paths
  PROVE  /\ Transfer(p) \in Paths /\ Transfer(p).node = p.node /\ KindAfter(p) \in Kinds
         /\ Transfer(p).fields \in Seq(Fields) /\ p.fields \in Seq(Fields) /\ p.node \in Nodes
         /\ Transfer(p).kind = KindAfter(p)
         /\ Transfer(p).fields = p.fields \o FieldOf(p.node) /\ FieldOf(p.node) \in Seq(Fields)
         /\ Written(p) \in Kinds
<1>1. p.fields \in Seq(Fields) /\ p.node \in Nodes /\ p.kind \in Kinds
  BY DEF Paths
<1>2. FieldOf(p.node) \in Seq(Fields)
  BY <1>1, EdgeFacts DEF FieldOf
<1>3. p.fields \o FieldOf(p.node) \in Seq(Fields)
  BY <1>1, <1>2, ConcatProperties
<1>4. Written(p) \in Kinds
  BY <1>1 DEF Written, Kinds
<1>5. KindAfter(p) \in Kinds
  BY <1>1, <1>4 DEF KindAfter, Kinds
<1>6. Transfer(p) = [p EXCEPT !.fields = p.fields \o FieldOf(p.node), !.kind = KindAfter(p),
                              !.mem = IF Op(p.node) = "store" /\ p.via = "value" THEN p.node ELSE p.mem]
  BY DEF Transfer
<1>7. Transfer(p) \in Paths /\ Transfer(p).node = p.node /\ Transfer(p).fields = p.fields \o FieldOf(p.node)
      /\ Transfer(p).kind = KindAfter(p)
  BY <1>1, <1>3, <1>5, <1>6 DEF Paths
<1> QED BY <1>1, <1>2, <1>3, <1>4, <1>5, <1>7

LEMMA NextFacts ==
  ASSUME prog \in Programs, NEW p \in Paths
  PROVE  /\ \A q \in Next3(p) : q \in Paths /\ prog.fun[q.node] = prog.fun[p.node]
         /\ \A a \in Passed(p) : a \in Nodes /\ Op(a) = "actual" /\ prog.fun[a] = prog.fun[p.node]
         /\ IsFiniteSet(Passed(p))
<1>1. \A e \in Followed(p) : e \in prog.edges /\ e.from = p.node
  BY DEF Followed
<1>2. ASSUME NEW q \in Next3(p)
      PROVE  q \in Paths /\ prog.fun[q.node] = prog.fun[p.node]
  <2>1. PICK e \in Followed(p) : /\ Op(e.to) \notin {"actual", "actualret"}
                                 /\ q = [Transfer(p) EXCEPT !.node = e.to, !.via = e.via,
                                           !.mem = IF Op(e.to) = "load" THEN None ELSE Transfer(p).mem]
    BY DEF Next3
  <2>2. e.to \in Nodes /\ e.via \in Vias /\ prog.fun[e.to] = prog.fun[p.node]
    BY <1>1, <2>1, EdgeFacts DEF Vias
  <2> QED BY <2>1, <2>2, TransferFacts DEF Paths
<1>3. \A a \in Passed(p) : a \in Nodes /\ Op(a) = "actual" /\ prog.fun[a] = prog.fun[p.node]
  BY <1>1, EdgeFacts DEF Passed
<1>4. IsFiniteSet(Passed(p))
  <2> DEFINE X == {e \in Followed(p) : Op(e.to) = "actual"}
             F == [e \in X |-> e.to]
  <2>1. IsFiniteSet(X)
    BY <1>1, EdgeFacts, FS_Subset
  <2>2. Passed(p) = {e.to : e \in X}
    BY DEF Passed
  <2> HIDE DEF X
  <2>3. F \in Surjection(X, Passed(p))
    BY <2>2 DEF Surjection
  <2> QED BY <2>1, <2>3, FS_Surjection
<1> QED BY <1>2, <1>3, <1>4

LEMMA BehindFacts ==
  ASSUME prog \in Programs, NEW p \in Paths, NEW a \in Passed(p), NEW c, NEW S, S[c].exits \subseteq Exits
  PROVE  \A q \in PathsBehind(p, a, c, S) : q \in Paths /\ prog.fun[q.node] = prog.fun[p.node]
<1> SUFFICES ASSUME NEW q \in PathsBehind(p, a, c, S)
             PROVE  q \in Paths /\ prog.fun[q.node] = prog.fun[p.node]
  OBVIOUS
<1> DEFINE G(x, r) == [Start(r) EXCEPT !.fields = Transfer(p).fields \o x.fields, !.kind = x.kind]
           F(x) == {G(x, r) : r \in Resumes(a, x.node)}
           X == {y \in S[c].exits : MayFollow(SiteOf(a), Transfer(p).fields, y.fields)}
<1>1. q \in UNION {F(x) : x \in X}
  BY DEF PathsBehind
<1>2. PICK x \in X : q \in F(x)
  BY <1>1
<1>3. PICK r \in Resumes(a, x.node) : q = G(x, r)
  BY <1>2
<1>4. x \in Exits
  OBVIOUS
<1>5. r \in Nodes /\ r = prog.sites[SiteOf(a)].ret
  BY EdgeFacts DEF Resumes
<1>6. prog.fun[r] = prog.fun[p.node]
  BY <1>5, NextFacts, CallFacts
<1>7. Transfer(p).fields \o x.fields \in Seq(Fields) /\ x.kind \in Kinds
  BY <1>4, TransferFacts, ConcatProperties DEF Exits
<1> QED BY <1>3, <1>5, <1>6, <1>7, StartFacts DEF Paths
-----------------------------------------------------------------------------
(* One iteration. *)

LEMMA FiniteImage ==
  ASSUME NEW S, IsFiniteSet(S), NEW F
  PROVE  IsFiniteSet({F[x] : x \in S})
<1> DEFINE G == [x \in S |-> F[x]]
<1>1. G \in Surjection(S, {F[x] : x \in S})
  BY DEF Surjection
<1> QED BY <1>1, FS_Surjection

LEMMA FiniteUnion ==
  ASSUME NEW S, IsFiniteSet(S), NEW F, \A x \in S : IsFiniteSet(F[x])
  PROVE  IsFiniteSet(UNION {F[x] : x \in S})
<1>1. IsFiniteSet({F[x] : x \in S})
  BY FiniteImage
<1> QED BY <1>1, FS_UNION

LEMMA FinitePair ==
  ASSUME NEW S, NEW a, NEW b, \A x \in S : x = a \/ x = b
  PROVE  IsFiniteSet(S)
<1>1. IsFiniteSet({a} \cup {b})
  BY FS_Singleton, FS_Union
<1> QED BY <1>1, FS_Subset

LEMMA CalleeFacts ==
  ASSUME prog \in Programs, NEW a \in Nodes, Op(a) = "actual", NEW n
  PROVE  /\ \A c \in CalleeFormals(a, n) : /\ c \in AllFormals /\ c \in Items(Functions) /\ c \notin Functions
                                           /\ Home(c) \in Called(prog, prog.fun[a]) \cap Functions
         /\ IsFiniteSet(CalleeFormals(a, n))
<1> DEFINE X == {g \in callee_targets(SiteOf(a)) \cap DOMAIN prog.formals : n \in DOMAIN prog.formals[g]}
           F == [g \in X |-> prog.formals[g][n]]
<1>1. CalleeFormals(a, n) = {F[g] : g \in X}
  BY DEF CalleeFormals
<1>2. X \subseteq callee_targets(SiteOf(a)) /\ X \subseteq Functions /\ \A g \in X : n \in DOMAIN prog.formals[g]
  BY FormalFacts
<1>3. IsFiniteSet(X)
  BY <1>2, CallFacts, FS_Subset
<1>4. IsFiniteSet(CalleeFormals(a, n))
  <2> HIDE DEF F, X
  <2> QED BY <1>1, <1>3, FiniteImage
<1>5. ASSUME NEW c \in CalleeFormals(a, n)
      PROVE  /\ c \in AllFormals /\ c \in Items(Functions) /\ c \notin Functions
             /\ Home(c) \in Called(prog, prog.fun[a]) \cap Functions
  <2>1. PICK g \in X : c = prog.formals[g][n]
    BY <1>1
  <2>2. prog.fun[c] = g /\ c \in Nodes /\ Op(c) = "formal" /\ g \in Functions
    BY <1>2, <2>1, FormalFacts
  <2>3. c \in AllFormals /\ c \notin Functions /\ c \in Items(Functions)
    BY <2>2, FormalFacts, ItemFacts
  <2>4. Home(c) = g /\ g \in Called(prog, prog.fun[a])
    BY <1>2, <2>1, <2>2, <2>3, CallFacts DEF Home
  <2> QED BY <2>2, <2>3, <2>4
<1> QED BY <1>4, <1>5

LEMMA TouchedFacts ==
  ASSUME prog \in Programs, NEW p \in Paths
  PROVE  /\ \A x \in Touched(p, AtFirst(p)) : x \in Effects
         /\ IsFiniteSet(Touched(p, AtFirst(p)))
         /\ \A at : \A x \in Accesses(p) : x \in Effects
<1>1. p.node \in Nodes /\ Written(p) \in Kinds /\ KindAfter(p) \in Kinds /\ "read" \in Kinds
  BY TransferFacts DEF Kinds
<1>2. <<>> \in Seq(Fields) /\ <<Deref>> \in Seq(Fields)
  BY EmptySeq DEF Fields
<1>3. (\A x \in Accesses(p) : x \in Effects) /\ IsFiniteSet(Accesses(p))
  <2> DEFINE one(k) == [fields |-> <<>>, kind |-> k, node |-> p.node]
             deref == [fields |-> <<Deref>>, kind |-> "read", node |-> p.node]
  <2>1. \A x \in Accesses(p) : x \in {one("read"), one(Written(p)), one(KindAfter(p)), deref}
    <3>1. CASE Op(p.node) \in {"load", "cmp"}
      BY <3>1 DEF Accesses
    <3>2. CASE Op(p.node) = "store"
      BY <3>2 DEF Accesses
    <3>3. CASE Op(p.node) = "gep"
      BY <3>3 DEF Accesses
    <3>4. CASE Op(p.node) \notin {"load", "cmp", "store", "gep"}
      BY <3>4 DEF Accesses
    <3> QED BY <3>1, <3>2, <3>3, <3>4
  <2>2. IsFiniteSet({one("read"), one(Written(p))} \cup {one(KindAfter(p)), deref})
    <3> HIDE DEF one, deref
    <3>1. IsFiniteSet({one("read"), one(Written(p))}) /\ IsFiniteSet({one(KindAfter(p)), deref})
      BY FinitePair
    <3> QED BY <3>1, FS_Union
  <2>3. \A k \in Kinds : one(k) \in Effects /\ deref \in Effects
    BY <1>1, <1>2 DEF Effects
  <2> HIDE DEF one, deref
  <2>4. Accesses(p) \subseteq {one("read"), one(Written(p))} \cup {one(KindAfter(p)), deref}
    BY <2>1
  <2> QED BY <1>1, <2>1, <2>2, <2>3, <2>4, FS_Subset
<1>4. ASSUME NEW a \in Passed(p), NEW n
      PROVE  (\A x \in Handled(p, a, n) : x \in Effects) /\ IsFiniteSet(Handled(p, a, n))
  <2>1. SiteOf(a) \in DOMAIN prog.sites
    BY NextFacts, CallFacts
  <2> DEFINE X == callee_targets(SiteOf(a)) \cap DOMAIN prog.handlers
             H(f) == {x \in prog.handlers[f] : x.pos = n /\ (x.whole => Transfer(p).fields = <<>>)}
             G(f) == [h \in H(f) |-> [fields |-> FieldOf(p.node), kind |-> h.kind, node |-> SiteOf(a)]]
             F == [f \in X |-> {G(f)[h] : h \in H(f)}]
  <2>2. Handled(p, a, n) = UNION {F[f] : f \in X}
    <3> DEFINE E(f) == {[fields |-> FieldOf(p.node), kind |-> h.kind, node |-> SiteOf(a)] : h \in H(f)}
    <3>1. Handled(p, a, n) = UNION {E(f) : f \in X}
      BY DEF Handled
    <3>2. \A f \in X : F[f] = E(f)
      OBVIOUS
    <3> HIDE DEF E, F, X
    <3> QED BY <3>1, <3>2
  <2>3. IsFiniteSet(X)
    BY <2>1, CallFacts, FS_Subset
  <2>4. \A f \in X : IsFiniteSet(H(f))
    BY CallFacts, FS_Subset
  <2>5. \A f \in X : IsFiniteSet(F[f])
    <3> TAKE f \in X
    <3>1. F[f] = {G(f)[h] : h \in H(f)}
      OBVIOUS
    <3>2. IsFiniteSet(H(f))
      BY <2>4
    <3> HIDE DEF F, H, G
    <3> QED BY <3>1, <3>2, FiniteImage
  <2>6. \A f \in X : \A x \in F[f] : x \in Effects
    <3> TAKE f \in X
    <3> TAKE x \in F[f]
    <3>1. PICK h \in prog.handlers[f] : x = [fields |-> FieldOf(p.node), kind |-> h.kind, node |-> SiteOf(a)]
      OBVIOUS
    <3>2. h.kind \in Kinds
      BY DEF Kinds
    <3> QED BY <2>1, <3>1, <3>2, TransferFacts DEF Effects
  <2> HIDE DEF F, X
  <2>7. IsFiniteSet(UNION {F[f] : f \in X})
    BY <2>3, <2>5, FiniteUnion
  <2> QED BY <2>2, <2>6, <2>7
<1>5. Touched(p, AtFirst(p)) = Accesses(p) \cup UNION {Handled(p, a, Position(a)) : a \in Passed(p)}
  <2>1. \A y : y \in UNION {Handled(p, x[1], x[2]) : x \in AtFirst(p)}
               <=> y \in UNION {Handled(p, a, Position(a)) : a \in Passed(p)}
    <3> TAKE y
    <3>1. y \in UNION {Handled(p, x[1], x[2]) : x \in AtFirst(p)} <=> \E x \in AtFirst(p) : y \in Handled(p, x[1], x[2])
      OBVIOUS
    <3>2. y \in UNION {Handled(p, a, Position(a)) : a \in Passed(p)} <=> \E a \in Passed(p) : y \in Handled(p, a, Position(a))
      OBVIOUS
    <3>3. \A x \in AtFirst(p) : \E a \in Passed(p) : x[1] = a /\ x[2] = Position(a)
      BY DEF AtFirst
    <3>4. \A a \in Passed(p) : \E x \in AtFirst(p) : x[1] = a /\ x[2] = Position(a)
      <4> TAKE a \in Passed(p)
      <4>1. <<a, Position(a)>> \in AtFirst(p)
        BY DEF AtFirst
      <4> QED BY <4>1
    <3> QED BY <3>1, <3>2, <3>3, <3>4
  <2> QED BY <2>1 DEF Touched
<1>6. (\A x \in UNION {Handled(p, a, Position(a)) : a \in Passed(p)} : x \in Effects)
      /\ IsFiniteSet(UNION {Handled(p, a, Position(a)) : a \in Passed(p)})
  <2> DEFINE F == [a \in Passed(p) |-> Handled(p, a, Position(a))]
  <2>1. UNION {Handled(p, a, Position(a)) : a \in Passed(p)} = UNION {F[a] : a \in Passed(p)}
    OBVIOUS
  <2>2. \A a \in Passed(p) : IsFiniteSet(F[a]) /\ \A x \in F[a] : x \in Effects
    BY <1>4
  <2> HIDE DEF F
  <2>3. IsFiniteSet(UNION {F[a] : a \in Passed(p)})
    BY <2>2, NextFacts, FiniteUnion
  <2> QED BY <2>1, <2>2, <2>3
<1> QED BY <1>3, <1>5, <1>6, FS_Union

LEMMA SummaryFacts ==
  ASSUME NEW s \in Summary
  PROVE  /\ s.effects \subseteq Effects /\ s.exits \subseteq Exits /\ s.array \in BOOLEAN /\ s.params \subseteq Nat
         /\ IsFiniteSet(s.effects) /\ IsFiniteSet(s.exits) /\ IsFiniteSet(s.params)
         /\ s = [effects |-> s.effects, exits |-> s.exits, array |-> s.array, params |-> s.params]
BY DEF Summary

\* Effects of what was touched, and of what is behind a call.
LEMMA MergedFacts ==
  ASSUME prog \in Programs, summaries \in [Items(Functions) -> Summary], NEW p \in Paths
  PROVE  /\ \A x \in Behind(p.fields, Touched(p, AtFirst(p))) : x \in Effects
         /\ IsFiniteSet(Behind(p.fields, Touched(p, AtFirst(p))))
         /\ \A x \in EffectsMerged(p, summaries) : x \in Effects
         /\ IsFiniteSet(EffectsMerged(p, summaries))
<1> DEFINE T == Touched(p, AtFirst(p))
           B(fs, x) == [x EXCEPT !.fields = fs \o @]
           E(a, c) == EffectsBehind(p, a, c, summaries)
<1>1. \A fs \in Seq(Fields) : \A x \in Effects : B(fs, x) \in Effects
  BY ConcatProperties DEF Effects
<1>2. p.fields \in Seq(Fields) /\ Transfer(p).fields \in Seq(Fields)
  BY TransferFacts
<1>3. (\A x \in T : x \in Effects) /\ IsFiniteSet(T)
  BY TouchedFacts
<1>4. (\A x \in Behind(p.fields, T) : x \in Effects) /\ IsFiniteSet(Behind(p.fields, T))
  <2> DEFINE F == [x \in T |-> B(p.fields, x)]
  <2>1. Behind(p.fields, T) = {F[x] : x \in T}
    BY DEF Behind
  <2>2. \A x \in T : F[x] \in Effects
    BY <1>1, <1>2, <1>3
  <2> HIDE DEF F, T
  <2> QED BY <1>3, <2>1, <2>2, FiniteImage
<1>5. ASSUME NEW a \in Passed(p), NEW c \in CalleeFormals(a, Position(a))
      PROVE  (\A x \in E(a, c) : x \in Effects) /\ IsFiniteSet(E(a, c))
  <2> DEFINE X == {y \in summaries[c].effects : MayFollow(SiteOf(a), Transfer(p).fields, y.fields)}
             F == [x \in X |-> B(Transfer(p).fields, x)]
  <2>1. summaries[c] \in Summary
    BY NextFacts, CalleeFacts
  <2>2. X \subseteq Effects /\ IsFiniteSet(X)
    BY <2>1, SummaryFacts, FS_Subset
  <2>3. E(a, c) = {F[x] : x \in X}
    BY DEF EffectsBehind
  <2>4. \A x \in X : F[x] \in Effects
    BY <1>1, <1>2, <2>2
  <2> HIDE DEF F, X
  <2> QED BY <2>2, <2>3, <2>4, FiniteImage
<1>6. ASSUME NEW a \in Passed(p)
      PROVE  /\ \A x \in UNION {E(a, c) : c \in CalleeFormals(a, Position(a))} : x \in Effects
             /\ IsFiniteSet(UNION {E(a, c) : c \in CalleeFormals(a, Position(a))})
  <2> DEFINE X == CalleeFormals(a, Position(a))
             F == [c \in X |-> E(a, c)]
  <2>1. \A c \in X : IsFiniteSet(F[c]) /\ \A x \in F[c] : x \in Effects
    BY <1>5
  <2>2. IsFiniteSet(X)
    BY NextFacts, CalleeFacts
  <2>3. UNION {E(a, c) : c \in CalleeFormals(a, Position(a))} = UNION {F[c] : c \in X}
    OBVIOUS
  <2> HIDE DEF F, X
  <2>4. IsFiniteSet(UNION {F[c] : c \in X})
    BY <2>1, <2>2, FiniteUnion
  <2> QED BY <2>1, <2>3, <2>4
<1>7. (\A x \in EffectsMerged(p, summaries) : x \in Effects) /\ IsFiniteSet(EffectsMerged(p, summaries))
  <2> DEFINE X == Passed(p)
             F == [a \in X |-> UNION {E(a, c) : c \in CalleeFormals(a, Position(a))}]
  <2>1. \A a \in X : IsFiniteSet(F[a]) /\ \A x \in F[a] : x \in Effects
    BY <1>6
  <2>2. IsFiniteSet(X)
    BY NextFacts
  <2>3. EffectsMerged(p, summaries) = UNION {F[a] : a \in X}
    BY DEF EffectsMerged
  <2> HIDE DEF F, X
  <2>4. IsFiniteSet(UNION {F[a] : a \in X})
    BY <2>1, <2>2, FiniteUnion
  <2> QED BY <2>1, <2>3, <2>4
<1> QED BY <1>4, <1>7

LEMMA IteratedFacts ==
  ASSUME prog \in Programs, summaries \in [Items(Functions) -> Summary], NEW p \in Paths, NEW s \in Summary
  PROVE  Iterated(s, p) \in Summary /\ Grows(s, Iterated(s, p))
<1> DEFINE ef == s.effects \cup Behind(p.fields, Touched(p, AtFirst(p))) \cup EffectsMerged(p, summaries)
           exit == [node |-> p.node, fields |-> Transfer(p).fields, kind |-> KindAfter(p)]
           ex == IF Returned(p) = {} THEN s.exits ELSE s.exits \cup {exit}
           ar == s.array \/ IsArrayAccess(p) \/ ArrayMerged(p, summaries)
<1>1. Iterated(s, p) = [effects |-> ef, exits |-> ex, array |-> ar, params |-> s.params]
  <2>1. Iterated(s, p) = [s EXCEPT !.effects = ef, !.exits = ex, !.array = ar]
    BY DEF Iterated
  <2> HIDE DEF ef, ex, ar
  <2> QED BY <2>1, SummaryFacts
<1>2. ef \subseteq Effects /\ IsFiniteSet(ef) /\ s.effects \subseteq ef
  BY SummaryFacts, MergedFacts, FS_Union
<1>3. ex \subseteq Exits /\ IsFiniteSet(ex) /\ s.exits \subseteq ex
  <2>1. exit \in Exits
    BY TransferFacts DEF Exits
  <2> QED BY <2>1, SummaryFacts, FS_AddElement
<1>4. ar \in BOOLEAN /\ (s.array => ar)
  BY SummaryFacts DEF IsArrayAccess, ArrayMerged
<1> HIDE DEF ef, ex, ar
<1> QED BY <1>1, <1>2, <1>3, <1>4, SummaryFacts DEF Summary, Grows
-----------------------------------------------------------------------------
(* One source of a returned pointer. *)

LEMMA SliceFacts ==
  ASSUME prog \in Programs, NEW f, NEW n \in backward_slice(f)
  PROVE  /\ n \in Nodes /\ prog.fun[n] = f /\ Op(n) \in {"addr", "actualret", "formal"}
         /\ Op(n) = "formal" => n \in AllFormals /\ n \in FormalsOf(f) /\ n \in Items(Functions)
<1>1. n \in Nodes /\ prog.fun[n] = f /\ Op(n) \in {"addr", "actualret", "formal"}
  BY DEF backward_slice, NodesOf, IsSource, Nodes
<1> QED BY <1>1, FormalFacts, ItemFacts

LEMMA AllocatedFacts ==
  ASSUME prog \in Programs, NEW n \in Nodes \cup DOMAIN prog.sites, NEW callees, IsFiniteSet(callees)
  PROVE  (\A x \in Allocated(n, callees) : x \in Effects) /\ IsFiniteSet(Allocated(n, callees))
<1> DEFINE X == callees \cap DOMAIN prog.handlers
           H(f) == {x \in prog.handlers[f] : x.pos = 0}
           one(h) == [fields |-> <<>>, kind |-> h.kind, node |-> n]
           F == [f \in X |-> {one(h) : h \in H(f)}]
<1>1. Allocated(n, callees) = UNION {F[f] : f \in X}
  <2> DEFINE E(f) == {one(h) : h \in H(f)}
  <2>1. Allocated(n, callees) = UNION {E(f) : f \in X}
    BY DEF Allocated
  <2>2. \A f \in X : F[f] = E(f)
    OBVIOUS
  <2> HIDE DEF E, F, X
  <2> QED BY <2>1, <2>2
<1>2. ASSUME NEW f \in X
      PROVE  IsFiniteSet(F[f]) /\ \A x \in F[f] : x \in Effects
  <2>1. IsFiniteSet(H(f))
    BY CallFacts, FS_Subset
  <2> DEFINE G == [h \in H(f) |-> one(h)]
  <2>2. F[f] = {G[h] : h \in H(f)}
    OBVIOUS
  <2>3. ASSUME NEW x \in F[f]
        PROVE  x \in Effects
    <3>1. PICK h \in prog.handlers[f] : x = one(h)
      OBVIOUS
    <3>2. h.kind \in Kinds
      BY DEF Kinds
    <3>3. <<>> \in Seq(Fields)
      BY EmptySeq
    <3> QED BY <3>1, <3>2, <3>3 DEF Effects
  <2> HIDE DEF F, G, H
  <2> QED BY <2>1, <2>2, <2>3, FiniteImage
<1>3. IsFiniteSet(X)
  BY FS_Subset
<1> HIDE DEF F, X
<1>4. IsFiniteSet(UNION {F[f] : f \in X})
  BY <1>2, <1>3, FiniteUnion
<1> QED BY <1>1, <1>2, <1>4

LEMMA FromFormalFacts ==
  ASSUME prog \in Programs, summaries \in [Items(Functions) -> Summary], NEW s \in Summary,
         NEW n \in AllFormals
  PROVE  FromFormal(s, n) \in Summary /\ Grows(s, FromFormal(s, n))
<1> DEFINE f == prog.fun[n]
           pa == {k \in DOMAIN prog.formals[f] : prog.formals[f][k] = n}
           t == summaries[n]
<1>1. FromFormal(s, n) = [s EXCEPT !.params = s.params \cup pa, !.effects = s.effects \cup t.effects,
                                   !.array = s.array \/ t.array]
  BY DEF FromFormal
<1>2. t \in Summary
  BY ItemFacts
<1>3. pa \subseteq Nat /\ IsFiniteSet(pa)
  <2>1. f \in Functions
    BY FormalFacts
  <2>2. prog.formals[f] \in Seq({m \in DOMAIN prog.op : prog.op[m] = "formal" /\ prog.fun[m] = f})
    BY <2>1, ProgramsAssumption DEF ProgramsAssumption, Parameters, Functions
  <2>3. DOMAIN prog.formals[f] = 1..Len(prog.formals[f]) /\ Len(prog.formals[f]) \in Nat
    BY <2>2
  <2>4. IsFiniteSet(1..Len(prog.formals[f]))
    BY <2>3, FS_Interval
  <2> QED BY <2>3, <2>4, FS_Subset
<1> HIDE DEF pa, t
<1>4. IsFiniteSet(s.params \cup pa) /\ IsFiniteSet(s.effects \cup t.effects)
  BY <1>2, <1>3, SummaryFacts, FS_Union
<1>5. FromFormal(s, n) = [effects |-> s.effects \cup t.effects, exits |-> s.exits, array |-> s.array \/ t.array,
                          params |-> s.params \cup pa]
  BY <1>1, SummaryFacts
<1>6. t.effects \subseteq Effects /\ t.array \in BOOLEAN
  BY <1>2, SummaryFacts
<1> DEFINE ef == s.effects \cup t.effects
           ar == s.array \/ t.array
           params == s.params \cup pa
<1>7. ef \subseteq Effects /\ s.effects \subseteq ef /\ params \subseteq Nat /\ s.params \subseteq params
  BY <1>3, <1>6, SummaryFacts
<1>8. ar \in BOOLEAN /\ (s.array => ar)
  BY <1>6, SummaryFacts
<1>9. FromFormal(s, n) = [effects |-> ef, exits |-> s.exits, array |-> ar, params |-> params]
      /\ IsFiniteSet(ef) /\ IsFiniteSet(params)
  BY <1>4, <1>5
<1> HIDE DEF ef, ar, params
<1> QED BY <1>7, <1>8, <1>9, SummaryFacts DEF Summary, Grows

LEMMA FromCallFacts ==
  ASSUME prog \in Programs, summaries \in [Items(Functions) -> Summary], NEW s \in Summary,
         NEW n \in Nodes, Op(n) = "actualret"
  PROVE  FromCall(s, CallOf(n)) \in Summary /\ Grows(s, FromCall(s, CallOf(n)))
<1> DEFINE site == CallOf(n)
           rets == callee_targets(site) \cap prog.returns
           al == Allocated(site, callee_targets(site))
           F == [f \in rets |-> summaries[f].effects]
           un == UNION {F[f] : f \in rets}
           ar == s.array \/ \E f \in rets : summaries[f].array
<1>1. FromCall(s, site) = [s EXCEPT !.effects = s.effects \cup al \cup un, !.array = ar]
  <2>1. UNION {summaries[f].effects : f \in rets} = un
    OBVIOUS
  <2> QED BY <2>1 DEF FromCall
<1>2. site \in DOMAIN prog.sites /\ IsFiniteSet(callee_targets(site))
  BY CallFacts
<1>3. (\A x \in al : x \in Effects) /\ IsFiniteSet(al)
  BY <1>2, AllocatedFacts
<1>4. \A f \in rets : summaries[f] \in Summary
  BY ItemFacts
<1>5. un \subseteq Effects /\ IsFiniteSet(un)
  <2>1. \A f \in rets : F[f] \subseteq Effects /\ IsFiniteSet(F[f])
    BY <1>4, SummaryFacts
  <2>2. IsFiniteSet(rets)
    BY <1>2, FS_Subset
  <2> HIDE DEF F, rets
  <2> QED BY <2>1, <2>2, FiniteUnion
<1>6. ar \in BOOLEAN
  BY SummaryFacts
<1>7. IsFiniteSet(s.effects \cup al \cup un)
  BY <1>3, <1>5, SummaryFacts, FS_Union
<1>8. s.array => ar
  OBVIOUS
<1> HIDE DEF al, un, ar, site
<1>9. FromCall(s, site) = [effects |-> s.effects \cup al \cup un, exits |-> s.exits, array |-> ar, params |-> s.params]
  BY <1>1, SummaryFacts
<1> QED BY <1>3, <1>5, <1>6, <1>7, <1>8, <1>9, SummaryFacts DEF Summary, Grows, site

LEMMA BeginsFacts ==
  ASSUME prog \in Programs, NEW n \in Nodes, Op(n) # "formal", NEW ps
  PROVE  \A q \in Begins(n, ps) : q \in Paths /\ prog.fun[q.node] = prog.fun[n]
<1>1. CASE Op(n) # "actualret"
  BY <1>1, StartFacts DEF Begins
<1>2. CASE Op(n) = "actualret"
  <2> DEFINE s == CallOf(n)
             X == {j \in DOMAIN prog.sites[s].args :
                 /\ prog.sites[s].args[j] \in DOMAIN prog.def
                 /\ \E f \in callee_targets(s) \cap prog.returns : j \in ps[f]}
  <2>1. Begins(n, ps) = {Start(n)} \cup {Start(prog.def[prog.sites[s].args[k]]) : k \in X}
    BY <1>2 DEF Begins
  <2>2. \A k \in X : prog.def[prog.sites[s].args[k]] \in Nodes /\ prog.fun[prog.def[prog.sites[s].args[k]]] = prog.fun[n]
    BY <1>2, CallFacts
  <2> HIDE DEF X
  <2> QED BY <2>1, <2>2, StartFacts
<1> QED BY <1>1, <1>2

LEMMA SourceFacts ==
  ASSUME Typed, NEW n \in sources, NextSource(n)
  PROVE  /\ cur \in Functions /\ cur \in prog.returns /\ n \in backward_slice(cur)
         /\ summaries' \in [Items(Functions) -> Summary]
         /\ Grows(summaries[cur], summaries'[cur])
         /\ \A i \in Items(Functions) : i # cur => summaries'[i] = summaries[i]
         /\ worklist' \subseteq PathsOf(cur)
<1>1. prog \in Programs /\ cur \in Functions /\ n \in backward_slice(cur)
  BY DEF NextSource, Typed
<1>2. cur \in prog.returns /\ cur \in Items(Functions)
  <2>1. Component \subseteq Functions
    BY <1>1, SccFacts DEF Component, Finished, Typed
  <2>2. cur \in Items(Component)
    BY <1>1, EdgeFacts DEF Typed
  <2> QED BY <1>1, <2>1, <2>2, ItemFacts
<1>3. n \in Nodes /\ prog.fun[n] = cur /\ Op(n) \in {"addr", "actualret", "formal"}
      /\ (Op(n) = "formal" => n \in AllFormals)
  BY <1>1, SliceFacts
<1> DEFINE s == summaries[cur]
           t == CASE Op(n) = "formal" -> FromFormal(s, n)
                  [] Op(n) = "actualret" -> FromCall(s, CallOf(n))
                  [] Op(n) = "addr" -> [s EXCEPT !.effects = @ \cup FromMalloc(n)]
<1>4. s \in Summary /\ summaries \in [Items(Functions) -> Summary]
  BY <1>2 DEF Typed
<1>5. t \in Summary /\ Grows(s, t)
  <2>1. CASE Op(n) = "formal"
    BY <1>1, <1>3, <1>4, <2>1, FromFormalFacts
  <2>2. CASE Op(n) = "actualret"
    BY <1>1, <1>3, <1>4, <2>2, FromCallFacts
  <2>3. CASE Op(n) = "addr"
    <3>1. (\A x \in FromMalloc(n) : x \in Effects) /\ IsFiniteSet(FromMalloc(n))
      BY <1>1, <1>3, AllocatedFacts, FS_Singleton, FS_EmptySet DEF FromMalloc
    <3>2. t = [s EXCEPT !.effects = s.effects \cup FromMalloc(n)]
      BY <2>3
    <3>3. IsFiniteSet(s.effects \cup FromMalloc(n))
      BY <1>4, <3>1, SummaryFacts, FS_Union
    <3> DEFINE ef == s.effects \cup FromMalloc(n)
    <3>4. ef \subseteq Effects /\ s.effects \subseteq ef /\ IsFiniteSet(ef) /\ t = [s EXCEPT !.effects = ef]
      BY <1>4, <3>1, <3>2, <3>3, SummaryFacts
    <3> HIDE DEF s, t, ef
    <3>5. s = [effects |-> s.effects, exits |-> s.exits, array |-> s.array, params |-> s.params]
      BY <1>4, SummaryFacts
    <3>6. t = [effects |-> ef, exits |-> s.exits, array |-> s.array, params |-> s.params]
      BY <3>4, <3>5
    <3> QED BY <1>4, <3>4, <3>6, SummaryFacts DEF Summary, Grows
  <2> QED BY <1>3, <2>1, <2>2, <2>3
<1>6. summaries' = [summaries EXCEPT ![cur] = t]
  BY DEF NextSource
<1> HIDE DEF t
<1>7. summaries' \in [Items(Functions) -> Summary] /\ summaries'[cur] = t
      /\ \A i \in Items(Functions) : i # cur => summaries'[i] = summaries[i]
  BY <1>2, <1>4, <1>5, <1>6
<1>8. worklist' \subseteq PathsOf(cur)
  <2>1. Home(cur) = cur
    BY <1>1 DEF Home
  <2>2. CASE Op(n) = "formal"
    BY <2>2 DEF NextSource
  <2>3. CASE Op(n) # "formal"
    <3>1. worklist' = Begins(n, [f \in prog.returns |-> summaries[f].params])
      BY <2>3 DEF NextSource
    <3>2. \A q \in Begins(n, [f \in prog.returns |-> summaries[f].params]) : q \in Paths /\ prog.fun[q.node] = prog.fun[n]
      BY <1>1, <1>3, <2>3, BeginsFacts
    <3> QED BY <1>3, <2>1, <3>1, <3>2 DEF PathsOf
  <2> QED BY <2>2, <2>3
<1> QED BY <1>1, <1>2, <1>5, <1>7, <1>8

LEMMA TrackFacts ==
  ASSUME Typed, NEW p \in worklist, Track(p)
  PROVE  /\ cur \in Items(Functions) /\ cur # None
         /\ p \in PathsOf(cur) /\ p \in Paths /\ prog.fun[p.node] = Home(cur)
         /\ summaries' \in [Items(Functions) -> Summary]
         /\ summaries'[cur] = Iterated(summaries[cur], p) /\ Grows(summaries[cur], summaries'[cur])
         /\ \A i \in Items(Functions) : i # cur => summaries'[i] = summaries[i]
         /\ worklist' \subseteq PathsOf(cur)
         /\ \A a \in Passed(p) : a \in Nodes /\ Op(a) = "actual" /\ prog.fun[a] = Home(cur)
<1>1. prog \in Programs /\ cur # None
  BY DEF Typed
<1>2. cur \in Items(Functions)
  <2>1. Component \subseteq Functions
    BY <1>1, SccFacts DEF Component, Finished, Typed
  <2>2. cur \in Items(Component)
    BY <1>1 DEF Typed
  <2> QED BY <1>1, <2>1, <2>2, ItemFacts
<1>3. p \in PathsOf(cur) /\ p \in Paths /\ prog.fun[p.node] = Home(cur)
  BY DEF Typed, PathsOf
<1>4. summaries \in [Items(Functions) -> Summary] /\ summaries[cur] \in Summary
  BY <1>2 DEF Typed
<1>5. summaries' = [summaries EXCEPT ![cur] = Iterated(summaries[cur], p)]
  BY DEF Track
<1>6. Iterated(summaries[cur], p) \in Summary /\ Grows(summaries[cur], Iterated(summaries[cur], p))
  BY <1>1, <1>3, <1>4, IteratedFacts
<1>7. /\ summaries' \in [Items(Functions) -> Summary]
      /\ summaries'[cur] = Iterated(summaries[cur], p)
      /\ \A i \in Items(Functions) : i # cur => summaries'[i] = summaries[i]
  BY <1>2, <1>4, <1>5, <1>6
<1>8. \A a \in Passed(p) : a \in Nodes /\ Op(a) = "actual" /\ prog.fun[a] = Home(cur)
  BY <1>1, <1>3, NextFacts
<1>9. \A q \in Next3(p) : q \in PathsOf(cur)
  BY <1>1, <1>3, NextFacts DEF PathsOf
<1>10. \A q \in PathsMerged(p, summaries) : q \in PathsOf(cur)
  <2> TAKE q \in PathsMerged(p, summaries)
  <2> DEFINE B(a) == UNION {PathsBehind(p, a, c, summaries) : c \in CalleeFormals(a, Position(a))}
  <2>1. q \in UNION {B(a) : a \in Passed(p)}
    BY DEF PathsMerged
  <2>2. PICK a \in Passed(p) : q \in B(a)
    BY <2>1
  <2>3. PICK c \in CalleeFormals(a, Position(a)) : q \in PathsBehind(p, a, c, summaries)
    BY <2>2
  <2>4. c \in Items(Functions)
    BY <1>1, <1>8, <2>3, CalleeFacts
  <2>5. summaries[c].exits \subseteq Exits
    BY <1>4, <2>4, SummaryFacts
  <2> QED BY <1>1, <1>3, <2>3, <2>5, BehindFacts DEF PathsOf
<1>11. worklist' \subseteq PathsOf(cur)
  BY <1>9, <1>10 DEF Track, Typed
<1> QED BY <1>1, <1>2, <1>3, <1>6, <1>7, <1>8, <1>11
-----------------------------------------------------------------------------
(* Types. *)

LEMMA NoSummaryFacts == NoSummary \in Summary
BY FS_EmptySet DEF NoSummary, Summary

LEMMA CurFacts ==
  ASSUME Typed
  PROVE  /\ prog \in Programs /\ Component \subseteq Functions
         /\ \A i : i \in Items(Component) <=> i \in Items(Functions) /\ Home(i) \in Component
         /\ cur # None => cur \in Items(Functions) /\ cur \in Items(Component) /\ Home(cur) \in Component
                          /\ (cur \in AllFormals <=> cur \notin Functions)
         /\ todo \subseteq Items(Functions)
         /\ None \notin Items(Functions)
<1>1. prog \in Programs /\ Component \subseteq Functions
  BY SccFacts DEF Component, Finished, Typed
<1>2. \A i : i \in Items(Component) <=> i \in Items(Functions) /\ Home(i) \in Component
  BY <1>1, ItemFacts
<1> QED BY <1>1, <1>2, ItemFacts DEF Typed

LEMMA EndFacts ==
  ASSUME Typed, EndItem
  PROVE  /\ summaries' \in [Items(Functions) -> Summary]
         /\ \A i \in Items(Functions) : i # cur => summaries'[i] = summaries[i]
         /\ Same(cur, summaries'[cur], summaries[cur])
         /\ cur \in Items(Functions)
         /\ summaries'[cur].effects = summaries[cur].effects
         /\ cur \in AllFormals => summaries' = summaries
<1>1. cur \in Items(Functions) /\ summaries[cur] \in Summary /\ summaries \in [Items(Functions) -> Summary]
  BY CurFacts DEF EndItem, Typed
<1> DEFINE s == summaries[cur]
           ex == IF cur \in AllFormals THEN s.exits ELSE {}
           t == [s EXCEPT !.exits = ex]
<1>2. summaries' = [summaries EXCEPT ![cur] = t]
  BY DEF EndItem
<1>4. ex \subseteq Exits /\ IsFiniteSet(ex) /\ (cur \in AllFormals => ex = s.exits)
  BY <1>1, SummaryFacts, FS_EmptySet
<1>10. s \in Summary /\ s = summaries[cur]
  BY <1>1
<1> HIDE DEF ex, s
<1>11. s = [effects |-> s.effects, exits |-> s.exits, array |-> s.array, params |-> s.params]
  BY <1>10, SummaryFacts
<1>3. t = [effects |-> s.effects, exits |-> ex, array |-> s.array, params |-> s.params]
  BY <1>11
<1> HIDE DEF t
<1>5. t \in Summary
  BY <1>10, <1>3, <1>4, SummaryFacts DEF Summary
<1>6. cur \in AllFormals => t = s
  BY <1>3, <1>4, <1>11
<1>7. summaries' \in [Items(Functions) -> Summary] /\ summaries'[cur] = t
  BY <1>1, <1>2, <1>5
<1>8. \A i \in Items(Functions) : i # cur => summaries'[i] = summaries[i]
  BY <1>1, <1>2
<1>9. Same(cur, t, s) /\ t.effects = s.effects
  BY <1>3, <1>6 DEF Same
<1>12. cur \in AllFormals => summaries' = summaries
  BY <1>1, <1>2, <1>6, <1>10
<1> QED BY <1>1, <1>7, <1>8, <1>9, <1>10, <1>12

LEMMA InitTyped == Init => Typed
<1> SUFFICES ASSUME Init PROVE Typed
  OBVIOUS
<1>1. prog \in Programs /\ scc = 1 /\ Len(prog.sccs) \in Nat \ {0}
  BY SccFacts DEF Init
<1>2. todo = Items(Component) /\ scc \in 1..(Len(prog.sccs) + 1)
  BY <1>1 DEF Init, Component, Finished
<1>3. summaries \in [Items(Functions) -> Summary] /\ old \in Summary
  BY NoSummaryFacts DEF Init
<1>4. tracked \in [Items(Functions) -> SUBSET Paths] /\ \A i \in Items(Functions) : tracked[i] \subseteq PathsOf(i)
  BY DEF Init
<1>5. cur = None /\ None \notin Functions /\ sources = {} /\ worklist = {} /\ visited = {}
  BY <1>1, EdgeFacts DEF Init
<1>6. changed \in BOOLEAN /\ reported \in BOOLEAN /\ collided \in BOOLEAN
  BY DEF Init
<1>7. Ordered
  BY <1>2 DEF Ordered, Items
<1> QED BY <1>1, <1>2, <1>3, <1>4, <1>5, <1>6, <1>7 DEF Typed

LEMMA TypedStep == Typed /\ [Next]_vars => Typed'
<1> SUFFICES ASSUME Typed, [Next]_vars PROVE Typed'
  OBVIOUS
<1>0. prog' = prog /\ prog \in Programs
  BY DEF vars, Next, Analysis, Analyse, StartItem, NextSource, Drop, Track, EndItem, NextRound, NextScc, Move, Explore,
     FollowAll, GoOn, Typed
<1>1. /\ Functions' = Functions /\ AllFormals' = AllFormals /\ Paths' = Paths /\ Summary' = Summary
      /\ \A i : PathsOf(i)' = PathsOf(i)
      /\ \A fs : Items(fs)' = Items(fs)
      /\ \A i : backward_slice(i)' = backward_slice(i)
  BY <1>0, SameNodes, SameSlices
<1>2. scc' = scc => Component' = Component
  BY <1>0 DEF Component, Finished
<1>3. ASSUME NEW i \in todo, StartItem(i)
      PROVE  Typed'
  <2>1. i \in Items(Functions) /\ i \in Items(Component)
    BY CurFacts DEF Typed
  <2>2. i # None /\ (i \in AllFormals <=> i \notin Functions)
    BY <1>0, <2>1, ItemFacts
  <2>3. scc' = scc /\ prog' = prog /\ changed' = changed /\ reported' = reported /\ collided' = collided
        /\ cur' = i /\ todo' = todo \ {i} /\ old' = summaries[i] /\ visited' = {} /\ summaries' = summaries
        /\ tracked' = [tracked EXCEPT ![i] = {}]
    BY <1>3 DEF StartItem
  <2>4. worklist' \subseteq PathsOf(i)
    <3>1. i \in AllFormals => i \in Nodes /\ Home(i) = prog.fun[i]
      BY <1>0, FormalFacts DEF Home
    <3>2. CASE i \in AllFormals
      BY <1>3, <3>1, <3>2, StartFacts DEF StartItem, PathsOf
    <3>3. CASE i \notin AllFormals
      BY <1>3, <3>3 DEF StartItem
    <3> QED BY <3>2, <3>3
  <2>5. sources' \subseteq (IF i \in Functions THEN backward_slice(i) ELSE {})
    BY <1>3, <2>2 DEF StartItem
  <2>6. Ordered'
    <3>1. i \in AllFormals \/ todo \cap AllFormals = {}
      BY <1>3 DEF StartItem
    <3>2. i \in AllFormals => i \notin prog.returns
      BY <1>0, <2>2, FormalFacts
    <3> QED BY <1>1, <1>2, <2>2, <2>3, <3>1, <3>2 DEF Typed, Ordered
  <2>7. tracked' \in [Items(Functions) -> SUBSET Paths] /\ \A j \in Items(Functions) : tracked'[j] \subseteq PathsOf(j)
    BY <2>1, <2>3 DEF Typed
  <2>8. old' \in Summary
    BY <2>1, <2>3 DEF Typed
  <2> QED BY <1>1, <1>2, <2>1, <2>2, <2>3, <2>4, <2>5, <2>6, <2>7, <2>8 DEF Typed
<1>4. ASSUME NEW n \in sources, NextSource(n)
      PROVE  Typed'
  <2>1. UNCHANGED <<prog, progress, cur, old, history>> /\ sources' = sources \ {n} /\ visited' = {}
    BY <1>4 DEF NextSource
  <2>2. cur \in Functions /\ cur # None
    BY <1>0, <1>4, SourceFacts, EdgeFacts
  <2> QED BY <1>1, <1>2, <1>4, <2>1, <2>2, SourceFacts DEF Typed, Ordered, progress, history
<1>5. ASSUME NEW p \in worklist, Drop(p)
      PROVE  Typed'
  <2>1. UNCHANGED <<prog, progress, cur, sources, visited, old, summaries, reported, tracked>> /\ worklist' = worklist \ {p}
    BY <1>5 DEF Drop
  <2>2. collided' \in BOOLEAN
    BY <1>5 DEF Drop, Typed
  <2> QED BY <1>1, <1>2, <2>1, <2>2 DEF Typed, Ordered, progress
<1>6. ASSUME NEW p \in worklist, Track(p)
      PROVE  Typed'
  <2>1. UNCHANGED <<prog, progress, cur, sources, old, reported, collided>> /\ visited' = visited \cup {p}
        /\ tracked' = [tracked EXCEPT ![cur] = @ \cup {p}]
    BY <1>6 DEF Track
  <2>2. tracked' \in [Items(Functions) -> SUBSET Paths] /\ \A j \in Items(Functions) : tracked'[j] \subseteq PathsOf(j)
    BY <1>6, <2>1, TrackFacts DEF Typed
  <2>3. worklist' \subseteq PathsOf(cur) /\ summaries' \in [Items(Functions) -> Summary] /\ p \in Paths /\ cur # None
    BY <1>6, TrackFacts
  <2> QED BY <1>1, <1>2, <2>1, <2>2, <2>3 DEF Typed, Ordered, progress
<1>7. CASE EndItem
  <2>1. UNCHANGED <<prog, scc, iter, todo, sources, worklist, old, history>> /\ cur' = None /\ visited' = {}
        /\ worklist = {} /\ sources = {}
    BY <1>7 DEF EndItem
  <2>2. changed' \in BOOLEAN
    BY <1>7 DEF EndItem, Typed
  <2>3. None \notin Functions
    BY <1>0, EdgeFacts
  <2>4. Ordered'
    BY <1>0, <1>1, <1>2, <2>1, FormalFacts, EdgeFacts DEF Typed, Ordered
  <2> QED BY <1>1, <1>2, <1>7, <2>1, <2>2, <2>3, <2>4, EndFacts DEF Typed, history
<1>8. CASE NextRound
  <2>1. ~Finished /\ todo' = Items(Component) /\ cur = None
    <3>1. scc <= Len(prog.sccs)
      BY <1>8 DEF NextRound, RoundOver
    <3>2. ~Finished
      BY <1>0, <3>1, SccFacts DEF Finished, Typed
    <3> QED BY <1>8, <3>2 DEF NextRound, RoundOver, Component
  <2>2. UNCHANGED <<prog, scc, item, summaries, history>> /\ changed' = FALSE
    BY <1>8 DEF NextRound
  <2>3. None \notin Functions
    BY <1>0, EdgeFacts
  <2>4. Ordered'
    BY <1>0, <1>1, <1>2, <2>1, <2>2 DEF Ordered, Items
  <2> QED BY <1>1, <1>2, <2>1, <2>2, <2>3, <2>4 DEF Typed, item, history
<1>9. CASE NextScc
  <2>1. scc' = scc + 1 /\ scc <= Len(prog.sccs) /\ cur = None
    BY <1>9 DEF NextScc, RoundOver
  <2>2. scc' \in 1..(Len(prog.sccs) + 1)
    BY <1>0, <2>1, SccFacts DEF Typed
  <2>3. todo' = Items(Component)'
    <3>1. CASE scc < Len(prog.sccs)
      <4>1. Component' = prog.sccs[scc + 1]
        BY <1>0, <2>1, <3>1, SccFacts DEF Component, Finished, Typed
      <4>2. Items(Component)' = Items(prog.sccs[scc + 1])
        BY <1>0, <4>1, SameNodes DEF Items
      <4> QED BY <1>9, <3>1, <4>2 DEF NextScc
    <3>2. CASE ~(scc < Len(prog.sccs))
      <4>1. Component' = {}
        BY <1>0, <2>1, <3>2, SccFacts DEF Component, Finished, Typed
      <4>2. Items(Component)' = {}
        BY <1>0, <4>1, SameNodes DEF Items
      <4> QED BY <1>9, <3>2, <4>2 DEF NextScc
    <3> QED BY <3>1, <3>2
  <2>4. UNCHANGED <<prog, item, summaries, tracked, collided>> /\ changed' = FALSE /\ reported' \in BOOLEAN
    BY <1>9 DEF NextScc, Typed
  <2>5. None \notin Functions
    BY <1>0, EdgeFacts
  <2>6. Ordered'
    BY <1>0, <1>1, <2>3 DEF Ordered, Items
  <2> QED BY <1>1, <2>1, <2>2, <2>3, <2>4, <2>5, <2>6 DEF Typed, item
<1>10. CASE Move \/ Explore
  BY <1>1, <1>2, <1>10 DEF Move, Explore, FollowAll, GoOn, Typed, Ordered, progress, item, history
<1>11. CASE UNCHANGED vars
  BY <1>1, <1>2, <1>11 DEF vars, Typed, Ordered, progress, item, history
<1> QED BY <1>3, <1>4, <1>5, <1>6, <1>7, <1>8, <1>9, <1>10, <1>11 DEF Next, Analysis, Analyse
-----------------------------------------------------------------------------
(* What a summary is made from. *)

LEMMA UsesFacts ==
  ASSUME prog \in Programs, NEW i \in Items(Functions)
  PROVE  /\ Uses(i) \subseteq Items(Functions)
         /\ \A p \in PathsOf(i) : \A a \in Passed(p) : \A c \in CalleeFormals(a, Position(a)) : c \in Uses(i)
         /\ i \in Functions => \A n \in backward_slice(i) :
              /\ Op(n) = "formal" => n \in Uses(i)
              /\ Op(n) = "actualret" => callee_targets(CallOf(n)) \cap prog.returns \subseteq Uses(i)
         /\ \A j \in Uses(i) : Home(j) \in Called(prog, Home(i)) \/ (i \in Functions /\ Home(j) = i /\ j \in AllFormals)
<1>1. \A j : j \in Items(Called(prog, Home(i)) \cap Functions)
               <=> j \in Items(Functions) /\ Home(j) \in Called(prog, Home(i)) /\ Home(j) \in Functions
  BY ItemFacts
<1>2. i \in Functions => \A j \in FormalsOf(i) : j \in Items(Functions) /\ j \in AllFormals /\ Home(j) = i
  BY FormalFacts, ItemFacts DEF Home
<1>3. \A j : j \in Uses(i) <=> j \in Items(Called(prog, Home(i)) \cap Functions) \/ (i \in Functions /\ j \in FormalsOf(i))
  BY DEF Uses
<1>4. Uses(i) \subseteq Items(Functions)
  BY <1>1, <1>2, <1>3
<1>5. ASSUME NEW p \in PathsOf(i), NEW a \in Passed(p), NEW c \in CalleeFormals(a, Position(a))
      PROVE  c \in Uses(i)
  <2>1. a \in Nodes /\ Op(a) = "actual" /\ prog.fun[a] = Home(i)
    BY NextFacts DEF PathsOf
  <2>2. c \in Items(Functions) /\ Home(c) \in Called(prog, Home(i)) /\ Home(c) \in Functions
    BY <2>1, CalleeFacts
  <2> QED BY <1>1, <1>3, <2>2
<1>6. ASSUME i \in Functions, NEW n \in backward_slice(i), Op(n) = "formal"
      PROVE  n \in Uses(i)
  BY <1>3, <1>6, SliceFacts
<1>7. ASSUME i \in Functions, NEW n \in backward_slice(i), Op(n) = "actualret",
             NEW g \in callee_targets(CallOf(n)) \cap prog.returns
      PROVE  g \in Uses(i)
  <2>1. n \in Nodes /\ prog.fun[n] = i /\ Home(i) = i
    BY <1>7, SliceFacts DEF Home
  <2>2. g \in Called(prog, i)
    BY <1>7, <2>1, CallFacts
  <2>3. g \in Functions /\ g \in Items(Functions) /\ Home(g) = g
    BY FormalFacts, ItemFacts DEF Home
  <2> QED BY <1>1, <1>3, <2>1, <2>2, <2>3
<1> QED BY <1>1, <1>2, <1>3, <1>4, <1>5, <1>6, <1>7

\* A component is closed under what is used, apart from components before it.
LEMMA BeforeFacts ==
  ASSUME Typed
  PROVE  /\ \A i : i \in Before <=> i \in Items(Functions) /\ \E k \in 1..(scc - 1) : Home(i) \in prog.sccs[k]
         /\ \A i \in Before : i # cur /\ i \in Items(Functions) /\ Uses(i) \subseteq Before
         /\ \A i \in Items(Component) : Uses(i) \subseteq Before \cup Items(Component)
<1>1. prog \in Programs /\ scc \in Nat /\ \A k \in 1..(scc - 1) : k \in 1..Len(prog.sccs)
  BY SccFacts DEF Typed
<1> DEFINE B == UNION {prog.sccs[k] : k \in 1..(scc - 1)}
<1>2. B \subseteq Functions /\ \A f : f \in B <=> \E k \in 1..(scc - 1) : f \in prog.sccs[k]
  BY <1>1, SccFacts
<1>3. \A i : i \in Before <=> i \in Items(Functions) /\ \E k \in 1..(scc - 1) : Home(i) \in prog.sccs[k]
  <2> HIDE DEF B
  <2>1. \A i : i \in Items(B) <=> i \in Items(Functions) /\ Home(i) \in B
    BY <1>1, <1>2, ItemFacts
  <2>2. Before = Items(B)
    BY DEF Before, B
  <2> QED BY <1>2, <2>1, <2>2
<1>4. ASSUME NEW i \in Items(Functions), NEW k \in 1..Len(prog.sccs), Home(i) \in prog.sccs[k], NEW j \in Uses(i)
      PROVE  j \in Items(Functions) /\ \E l \in 1..k : Home(j) \in prog.sccs[l]
  <2>1. j \in Items(Functions)
    BY <1>1, UsesFacts
  <2>2. CASE Home(j) \in Called(prog, Home(i))
    <3>1. PICK l \in 1..Len(prog.sccs) : Home(j) \in prog.sccs[l]
      BY <1>1, <2>1, ItemFacts, SccFacts
    <3>2. l <= k
      BY <1>1, <1>4, <2>2, <3>1, SccFacts
    <3> QED BY <1>1, <2>1, <3>1, <3>2, SccFacts
  <2>3. CASE i \in Functions /\ Home(j) = i
    <3>1. Home(j) \in prog.sccs[k] /\ k \in 1..k
      BY <1>1, <1>4, <2>3, SccFacts DEF Home
    <3> QED BY <2>1, <3>1
  <2> QED BY <1>1, <2>2, <2>3, UsesFacts
<1>5. ASSUME NEW i \in Before
      PROVE  i # cur /\ i \in Items(Functions) /\ Uses(i) \subseteq Before
  <2>1. PICK k \in 1..(scc - 1) : Home(i) \in prog.sccs[k]
    BY <1>3
  <2>2. i \in Items(Functions) /\ k \in 1..Len(prog.sccs)
    BY <1>1, <1>3
  <2>3. ASSUME NEW j \in Uses(i) PROVE j \in Before
    <3>1. PICK l \in 1..k : Home(j) \in prog.sccs[l]
      BY <1>4, <2>1, <2>2
    <3>2. l \in 1..(scc - 1) /\ j \in Items(Functions)
      BY <1>1, <1>4, <2>1, <2>2
    <3> QED BY <1>3, <3>1, <3>2
  <2>4. i # cur
    <3>1. SUFFICES ASSUME i = cur PROVE FALSE
      OBVIOUS
    <3>2. cur # None
      BY <1>1, <2>2, <3>1, ItemFacts
    <3>3. Home(i) \in Component
      BY <3>1, <3>2, CurFacts
    <3>4. ~Finished /\ Home(i) \in prog.sccs[scc]
      BY <3>3 DEF Component
    <3>5. scc \in 1..Len(prog.sccs)
      BY <1>1, <3>4, SccFacts DEF Finished, Typed
    <3>6. k = scc
      BY <1>1, <2>1, <2>2, <3>4, <3>5, SccFacts
    <3> QED BY <1>1, <2>1, <3>6
  <2> QED BY <2>2, <2>3, <2>4
<1>6. ASSUME NEW i \in Items(Component), NEW j \in Uses(i)
      PROVE  j \in Before \cup Items(Component)
  <2>1. i \in Items(Functions) /\ Home(i) \in Component
    BY CurFacts
  <2>2. ~Finished /\ Component = prog.sccs[scc]
    BY <2>1 DEF Component
  <2>3. scc \in 1..Len(prog.sccs)
    BY <1>1, <2>2, SccFacts DEF Finished, Typed
  <2>4. PICK l \in 1..scc : Home(j) \in prog.sccs[l]
    BY <1>4, <2>1, <2>2, <2>3
  <2>5. j \in Items(Functions)
    BY <1>4, <2>1, <2>2, <2>3
  <2>6. CASE l = scc
    BY <2>2, <2>4, <2>5, <2>6, CurFacts
  <2>7. CASE l # scc
    <3>1. l \in 1..(scc - 1)
      BY <1>1, <2>7
    <3> QED BY <1>3, <2>4, <2>5, <3>1
  <2> QED BY <2>6, <2>7
<1> QED BY <1>3, <1>5, <1>6

\* A component that is not in a cycle is one function that does not call itself.
LEMMA OnceFacts ==
  ASSUME Typed, ~IsInCycle(Component), NEW i \in Items(Component)
  PROVE  \A j \in Uses(i) : j \in Before \/ (i \in Functions /\ j \in AllFormals)
<1>1. prog \in Programs /\ i \in Items(Functions) /\ Home(i) \in Component /\ Component \subseteq Functions
  BY CurFacts
<1>2. ~Finished /\ Component = prog.sccs[scc]
  BY <1>1 DEF Component
<1>3. scc \in 1..Len(prog.sccs) /\ IsFiniteSet(Component)
  BY <1>1, <1>2, SccFacts DEF Finished, Typed
<1>4. \A f \in Component : f \notin prog.recursive
  BY DEF IsInCycle
<1>5. \A f, g \in Component : f = g
  <2> SUFFICES ASSUME NEW f \in Component, NEW g \in Component, f # g PROVE FALSE
    OBVIOUS
  <2>1. IsFiniteSet({f, g}) /\ Cardinality({f, g}) = 2
    <3>1. IsFiniteSet({g}) /\ Cardinality({g}) = 1
      BY FS_Singleton
    <3>2. {f, g} = {g} \cup {f} /\ f \notin {g}
      OBVIOUS
    <3> QED BY <3>1, <3>2, FS_AddElement
  <2>2. Cardinality({f, g}) <= Cardinality(Component) /\ Cardinality(Component) \in Nat
    BY <1>3, FS_Subset, FS_CardinalityType
  <2> QED BY <2>1, <2>2 DEF IsInCycle
<1>6. Home(i) \notin Called(prog, Home(i))
  BY <1>1, <1>2, <1>3, <1>4, SccFacts
<1>7. ASSUME NEW j \in Uses(i), j \notin Before
      PROVE  i \in Functions /\ j \in AllFormals
  <2>1. j \in Items(Component)
    BY <1>7, BeforeFacts
  <2>2. Home(j) = Home(i)
    BY <1>1, <1>5, <2>1, CurFacts
  <2> QED BY <1>1, <1>6, <2>2, UsesFacts
<1> QED BY <1>7
-----------------------------------------------------------------------------
(* Summaries that grow. *)

LEMMA GrowsFacts ==
  ASSUME NEW s \in Summary, NEW t \in Summary, Grows(s, t)
  PROVE  /\ AccessTypes(s.effects) \subseteq AccessTypes(t.effects)
         /\ \A u \in Summary : Grows(t, u) => Grows(s, u)
         /\ \A i : \A u \in Summary : Grows(t, u) /\ Same(i, u, s) => Same(i, t, s) /\ Same(i, u, t)
<1>1. AccessTypes(s.effects) \subseteq AccessTypes(t.effects)
  BY DEF Grows, AccessTypes
<1>2. \A u \in Summary : Grows(t, u) => Grows(s, u)
  BY DEF Grows
<1>3. ASSUME NEW i, NEW u \in Summary, Grows(t, u), Same(i, u, s)
      PROVE  Same(i, t, s) /\ Same(i, u, t)
  <2>1. AccessTypes(t.effects) \subseteq AccessTypes(u.effects)
    BY <1>3 DEF Grows, AccessTypes
  <2>2. AccessTypes(t.effects) = AccessTypes(s.effects) /\ AccessTypes(u.effects) = AccessTypes(t.effects)
    BY <1>1, <1>3, <2>1 DEF Same
  <2>3. s.array \in BOOLEAN /\ t.array \in BOOLEAN /\ u.array \in BOOLEAN
    BY SummaryFacts
  <2>4. t.array = s.array /\ u.array = t.array
    BY <1>3, <2>3 DEF Same, Grows
  <2>5. t.params = s.params /\ u.params = t.params
    BY <1>3 DEF Same, Grows
  <2>6. i \in AllFormals => t.exits = s.exits /\ u.exits = t.exits
    BY <1>3 DEF Same, Grows
  <2> QED BY <2>2, <2>4, <2>5, <2>6 DEF Same
<1> QED BY <1>1, <1>2, <1>3

LEMMA SameReflexive == ASSUME NEW i, NEW s PROVE Same(i, s, s)
BY DEF Same

\* A summary that has not changed in size has not changed.
LEMMA SizesFacts ==
  ASSUME NEW s \in Summary, NEW t \in Summary, Grows(s, t), NEW i, NEW u, u = t \/ i \notin AllFormals,
         u.effects = t.effects, u.array = t.array, u.params = t.params, Sizes(u) = Sizes(s)
  PROVE  Same(i, t, s)
<1>1. IsFiniteSet(AccessTypes(t.effects))
  <2> DEFINE F == [e \in t.effects |-> [fields |-> e.fields, kind |-> e.kind]]
  <2>1. IsFiniteSet({F[e] : e \in t.effects})
    <3> HIDE DEF F
    <3> QED BY FiniteImage, SummaryFacts
  <2>2. {F[e] : e \in t.effects} = AccessTypes(t.effects)
    BY DEF AccessTypes
  <2> QED BY <2>1, <2>2
<1>2. IsFiniteSet(t.params) /\ IsFiniteSet(t.exits)
  BY SummaryFacts
<1>3. AccessTypes(s.effects) \subseteq AccessTypes(t.effects) /\ s.params \subseteq t.params /\ s.exits \subseteq t.exits
  BY GrowsFacts DEF Grows
<1>4. AccessTypes(s.effects) = AccessTypes(t.effects)
  <2>1. Cardinality(AccessTypes(s.effects)) = Cardinality(AccessTypes(t.effects))
    BY DEF Sizes
  <2> QED BY <1>1, <1>3, <2>1, FS_Subset
<1>5. s.params = t.params
  <2>1. Cardinality(s.params) = Cardinality(t.params)
    BY DEF Sizes
  <2> QED BY <1>2, <1>3, <2>1, FS_Subset
<1>6. i \in AllFormals => s.exits = t.exits
  <2>1. SUFFICES ASSUME i \in AllFormals PROVE s.exits = t.exits
    OBVIOUS
  <2>2. Cardinality(s.exits) = Cardinality(t.exits)
    BY <2>1 DEF Sizes
  <2> QED BY <1>2, <1>3, <2>2, FS_Subset
<1>7. s.array = t.array
  BY DEF Sizes
<1> QED BY <1>4, <1>5, <1>6, <1>7 DEF Same

\* What is closed stays closed when its own summary grows and those it uses stay the same.
LEMMA PathsGrow ==
  ASSUME prog \in Programs, NEW i \in Items(Functions), NEW S, NEW T,
         NEW ps \in SUBSET PathsOf(i), NEW more, NEW more2, more \subseteq more2,
         \A j \in Uses(i) : Same(j, T[j], S[j]),
         AccessTypes(S[i].effects) \subseteq AccessTypes(T[i].effects),
         S[i].array => T[i].array,
         i \in AllFormals => S[i].exits \subseteq T[i].exits,
         PathsClosed(i, S, ps, more)
  PROVE  PathsClosed(i, T, ps, more2)
<1>1. ASSUME NEW p \in ps
      PROVE  /\ Next3(p) \subseteq more2
             /\ \A x \in Touched(p, AtFirst(p)) : Entry(p.fields, x) \in AccessTypes(T[i].effects)
             /\ i \in AllFormals /\ Returned(p) # {} =>
                  [node |-> p.node, fields |-> Transfer(p).fields, kind |-> KindAfter(p)] \in T[i].exits
             /\ IsArrayAccess(p) => T[i].array
  BY DEF PathsClosed
<1>2. ASSUME NEW p \in ps, NEW a \in Passed(p), NEW c \in CalleeFormals(a, Position(a))
      PROVE  /\ \A y \in AccessTypes(T[c].effects) :
                  MayFollow(SiteOf(a), Transfer(p).fields, y.fields) =>
                    Entry(Transfer(p).fields, y) \in AccessTypes(T[i].effects)
             /\ PathsBehind(p, a, c, T) \subseteq more2
             /\ T[c].array /\ Transfer(p).fields = <<>> /\ ~TooManyTargets(SiteOf(a)) => T[i].array
  <2>1. c \in Uses(i)
    BY UsesFacts
  <2>2. p \in Paths /\ a \in Nodes /\ Op(a) = "actual"
    BY NextFacts DEF PathsOf
  <2>3. c \in AllFormals
    BY <2>2, CalleeFacts
  <2>4. Same(c, T[c], S[c])
    BY <2>1
  <2>5. AccessTypes(T[c].effects) = AccessTypes(S[c].effects) /\ T[c].array = S[c].array /\ T[c].exits = S[c].exits
    BY <2>3, <2>4 DEF Same
  <2>6. PathsBehind(p, a, c, T) = PathsBehind(p, a, c, S)
    BY <2>5 DEF PathsBehind
  <2>7. /\ \A y \in AccessTypes(S[c].effects) :
             MayFollow(SiteOf(a), Transfer(p).fields, y.fields) =>
               Entry(Transfer(p).fields, y) \in AccessTypes(S[i].effects)
        /\ PathsBehind(p, a, c, S) \subseteq more
        /\ S[c].array /\ Transfer(p).fields = <<>> /\ ~TooManyTargets(SiteOf(a)) => S[i].array
    BY DEF PathsClosed
  <2> QED BY <2>5, <2>6, <2>7
<1> QED BY <1>1, <1>2 DEF PathsClosed

LEMMA BeginsGrow ==
  ASSUME prog \in Programs, NEW i \in Items(Functions), NEW S, NEW T,
         NEW ns \in SUBSET backward_slice(i), NEW more, NEW more2, more \subseteq more2,
         \A j \in Uses(i) : Same(j, T[j], S[j]),
         AccessTypes(S[i].effects) \subseteq AccessTypes(T[i].effects),
         S[i].array => T[i].array,
         S[i].params \subseteq T[i].params,
         BeginsClosed(i, S, ns, more)
  PROVE  BeginsClosed(i, T, ns, more2)
<1>1. i \in AllFormals => Start(i) \in more2
  BY DEF BeginsClosed
<1>2. ASSUME i \in Functions, NEW n \in ns, Op(n) = "formal"
      PROVE  /\ AccessTypes(T[n].effects) \subseteq AccessTypes(T[i].effects) /\ (T[n].array => T[i].array)
             /\ \A k \in DOMAIN prog.formals[i] : prog.formals[i][k] = n => k \in T[i].params
  <2>1. n \in Uses(i)
    BY <1>2, UsesFacts
  <2>2. Same(n, T[n], S[n])
    BY <2>1
  <2>3. AccessTypes(T[n].effects) = AccessTypes(S[n].effects) /\ T[n].array = S[n].array
    BY <2>2 DEF Same
  <2>4. /\ AccessTypes(S[n].effects) \subseteq AccessTypes(S[i].effects) /\ (S[n].array => S[i].array)
        /\ \A k \in DOMAIN prog.formals[i] : prog.formals[i][k] = n => k \in S[i].params
    BY <1>2 DEF BeginsClosed
  <2> QED BY <2>3, <2>4
<1>3. ASSUME i \in Functions, NEW n \in ns, Op(n) = "actualret"
      PROVE  /\ \A g \in callee_targets(CallOf(n)) \cap prog.returns : Same(g, T[g], S[g])
             /\ \A g \in callee_targets(CallOf(n)) \cap prog.returns :
                  AccessTypes(T[g].effects) \subseteq AccessTypes(T[i].effects) /\ (T[g].array => T[i].array)
  <2>1. \A g \in callee_targets(CallOf(n)) \cap prog.returns : Same(g, T[g], S[g])
    BY <1>3, UsesFacts
  <2>2. \A g \in callee_targets(CallOf(n)) \cap prog.returns :
          AccessTypes(T[g].effects) = AccessTypes(S[g].effects) /\ T[g].array = S[g].array
    BY <2>1 DEF Same
  <2>3. \A g \in callee_targets(CallOf(n)) \cap prog.returns :
          AccessTypes(S[g].effects) \subseteq AccessTypes(S[i].effects) /\ (S[g].array => S[i].array)
    BY <1>3 DEF BeginsClosed
  <2> QED BY <2>1, <2>2, <2>3
<1>4. ASSUME i \in Functions, NEW n \in ns, Op(n) # "formal"
      PROVE  Begins(n, [f \in prog.returns |-> T[f].params]) \subseteq more2
  <2>1. Begins(n, [f \in prog.returns |-> T[f].params]) = Begins(n, [f \in prog.returns |-> S[f].params])
    <3>1. CASE Op(n) # "actualret"
      BY <3>1 DEF Begins
    <3>2. CASE Op(n) = "actualret"
      <4>1. \A g \in callee_targets(CallOf(n)) \cap prog.returns : T[g].params = S[g].params
        BY <1>3, <1>4, <3>2 DEF Same
      <4> DEFINE P == [f \in prog.returns |-> T[f].params]
                 Q == [f \in prog.returns |-> S[f].params]
      <4>2. \A g \in callee_targets(CallOf(n)) \cap prog.returns : P[g] = Q[g]
        BY <4>1
      <4> HIDE DEF P, Q
      <4>3. Begins(n, P) = Begins(n, Q)
        BY <4>2 DEF Begins
      <4> QED BY <4>3 DEF P, Q
    <3> QED BY <3>1, <3>2
  <2>2. Begins(n, [f \in prog.returns |-> S[f].params]) \subseteq more
    BY <1>4 DEF BeginsClosed
  <2> QED BY <2>1, <2>2
<1> QED BY <1>1, <1>2, <1>3, <1>4 DEF BeginsClosed

LEMMA ClosedGrow ==
  ASSUME prog \in Programs, NEW i \in Items(Functions), NEW S, NEW T,
         NEW ps \in SUBSET PathsOf(i),
         \A j \in Uses(i) : Same(j, T[j], S[j]),
         T[i] = S[i] \/ Same(i, T[i], S[i]),
         Closed(i, S, ps)
  PROVE  Closed(i, T, ps)
<1>1. /\ AccessTypes(S[i].effects) \subseteq AccessTypes(T[i].effects)
      /\ S[i].array => T[i].array
      /\ i \in AllFormals => S[i].exits \subseteq T[i].exits
      /\ S[i].params \subseteq T[i].params
  BY DEF Same
<1>2. PathsClosed(i, S, ps, ps)
  BY DEF Closed
<1>3. PathsClosed(i, T, ps, ps)
  BY <1>1, <1>2, PathsGrow
<1> DEFINE ns == IF i \in Functions THEN backward_slice(i) ELSE {}
<1>4. BeginsClosed(i, S, ns, ps) /\ ns \subseteq backward_slice(i)
  BY DEF Closed
<1> HIDE DEF ns
<1>5. BeginsClosed(i, T, ns, ps)
  BY <1>1, <1>4, BeginsGrow
<1> QED BY <1>3, <1>5 DEF Closed, ns
-----------------------------------------------------------------------------
(* What one step adds. *)

LEMMA FromFormalTakes ==
  ASSUME NEW s \in Summary, NEW n
  PROVE  LET t == FromFormal(s, n) IN
         /\ summaries[n].effects \subseteq t.effects /\ (summaries[n].array => t.array)
         /\ \A k \in DOMAIN prog.formals[prog.fun[n]] : prog.formals[prog.fun[n]][k] = n => k \in t.params
<1> DEFINE pa == s.params \cup {k \in DOMAIN prog.formals[prog.fun[n]] : prog.formals[prog.fun[n]][k] = n}
           ef == s.effects \cup summaries[n].effects
           ar == s.array \/ summaries[n].array
<1>1. FromFormal(s, n) = [s EXCEPT !.params = pa, !.effects = ef, !.array = ar]
  BY DEF FromFormal
<1>2. /\ \A k \in DOMAIN prog.formals[prog.fun[n]] : prog.formals[prog.fun[n]][k] = n => k \in pa
      /\ summaries[n].effects \subseteq ef /\ (summaries[n].array => ar)
  OBVIOUS
<1> HIDE DEF pa, ef, ar
<1>3. FromFormal(s, n) = [effects |-> ef, exits |-> s.exits, array |-> ar, params |-> pa]
  BY <1>1, SummaryFacts
<1> QED BY <1>2, <1>3

LEMMA FromCallTakes ==
  ASSUME NEW s \in Summary, NEW site
  PROVE  LET t == FromCall(s, site) IN
         /\ t.params = s.params
         /\ \A g \in callee_targets(site) \cap prog.returns :
              summaries[g].effects \subseteq t.effects /\ (summaries[g].array => t.array)
<1> DEFINE rets == callee_targets(site) \cap prog.returns
           ef == s.effects \cup Allocated(site, callee_targets(site)) \cup (UNION {summaries[f].effects : f \in rets})
           ar == s.array \/ \E f \in rets : summaries[f].array
<1>1. FromCall(s, site) = [s EXCEPT !.effects = ef, !.array = ar]
  BY DEF FromCall
<1>2. \A g \in rets : summaries[g].effects \subseteq ef /\ (summaries[g].array => ar)
  <2> HIDE DEF rets
  <2> QED OBVIOUS
<1> HIDE DEF ef, ar
<1>3. FromCall(s, site) = [effects |-> ef, exits |-> s.exits, array |-> ar, params |-> s.params]
  BY <1>1, SummaryFacts
<1> QED BY <1>2, <1>3

\* What a source is made from is in the summary, and the walks from it are begun.
LEMMA SourceTakes ==
  ASSUME Typed, NEW n \in sources, NextSource(n)
  PROVE  BeginsClosed(cur, summaries', {n}, worklist')
<1>1. prog \in Programs /\ cur \in Functions /\ cur \in Items(Functions) /\ n \in backward_slice(cur)
  <2>1. cur # None
    BY EdgeFacts, SourceFacts DEF Typed
  <2> QED BY <2>1, SourceFacts, CurFacts DEF Typed
<1>2. n \in Nodes /\ prog.fun[n] = cur /\ Op(n) \in {"addr", "actualret", "formal"} /\ n # cur
  BY <1>1, SliceFacts, EdgeFacts
<1>3. summaries[cur] \in Summary /\ summaries \in [Items(Functions) -> Summary]
  BY <1>1 DEF Typed
<1>4. cur \notin AllFormals
  BY <1>1, ItemFacts
<1> DEFINE s == summaries[cur]
           t == CASE Op(n) = "formal" -> FromFormal(s, n)
                  [] Op(n) = "actualret" -> FromCall(s, CallOf(n))
                  [] Op(n) = "addr" -> [s EXCEPT !.effects = @ \cup FromMalloc(n)]
<1>5. summaries' = [summaries EXCEPT ![cur] = t]
  BY DEF NextSource
<1>6. /\ Op(n) = "formal" => t = FromFormal(s, n)
      /\ Op(n) = "actualret" => t = FromCall(s, CallOf(n))
      /\ Op(n) = "addr" => t = [s EXCEPT !.effects = s.effects \cup FromMalloc(n)]
  OBVIOUS
<1>7. s \in Summary
  BY <1>3
<1> HIDE DEF s, t
<1>8. summaries'[cur] = t
  BY <1>1, <1>3, <1>5
<1>9. ASSUME Op(n) = "formal"
      PROVE  /\ AccessTypes(summaries'[n].effects) \subseteq AccessTypes(summaries'[cur].effects)
             /\ summaries'[n].array => summaries'[cur].array
             /\ \A k \in DOMAIN prog.formals[cur] : prog.formals[cur][k] = n => k \in summaries'[cur].params
  <2>1. summaries'[n] = summaries[n]
    BY <1>1, <1>2, <1>9, SliceFacts, SourceFacts
  <2>2. /\ summaries[n].effects \subseteq t.effects /\ (summaries[n].array => t.array)
        /\ \A k \in DOMAIN prog.formals[cur] : prog.formals[cur][k] = n => k \in t.params
    BY <1>2, <1>6, <1>7, <1>9, FromFormalTakes
  <2> QED BY <1>8, <2>1, <2>2 DEF AccessTypes
<1>10. ASSUME Op(n) = "actualret", NEW g \in callee_targets(CallOf(n)) \cap prog.returns
       PROVE  AccessTypes(summaries'[g].effects) \subseteq AccessTypes(summaries'[cur].effects)
              /\ (summaries'[g].array => summaries'[cur].array)
  <2>1. CASE g = cur
    BY <2>1
  <2>2. CASE g # cur
    <3>1. summaries'[g] = summaries[g]
      BY <1>1, <2>2, ItemFacts, SourceFacts
    <3>2. summaries[g].effects \subseteq t.effects /\ (summaries[g].array => t.array)
      BY <1>6, <1>7, <1>10, FromCallTakes
    <3> QED BY <1>8, <3>1, <3>2 DEF AccessTypes
  <2> QED BY <2>1, <2>2
<1>11. ASSUME Op(n) # "formal"
       PROVE  Begins(n, [f \in prog.returns |-> summaries'[f].params]) \subseteq worklist'
  <2>1. t.params = s.params
    <3>1. CASE Op(n) = "actualret"
      BY <1>6, <1>7, <3>1, FromCallTakes
    <3>2. CASE Op(n) = "addr"
      <4> DEFINE ef == s.effects \cup FromMalloc(n)
      <4>1. t = [s EXCEPT !.effects = ef]
        BY <1>6, <3>2
      <4> HIDE DEF ef
      <4> QED BY <1>7, <4>1, SummaryFacts
    <3> QED BY <1>2, <1>11, <3>1, <3>2
  <2>2. \A f \in prog.returns : summaries'[f].params = summaries[f].params
    BY <1>1, <1>8, <2>1, ItemFacts, SourceFacts DEF s
  <2>3. [f \in prog.returns |-> summaries'[f].params] = [f \in prog.returns |-> summaries[f].params]
    BY <2>2
  <2>4. worklist' = Begins(n, [f \in prog.returns |-> summaries[f].params])
    BY <1>11 DEF NextSource
  <2> QED BY <2>3, <2>4
<1> QED BY <1>1, <1>4, <1>9, <1>10, <1>11 DEF BeginsClosed

LEMMA IteratedClosed ==
  ASSUME prog \in Programs, summaries \in [Items(Functions) -> Summary], NEW p \in Paths, NEW s \in Summary,
         NEW t, t = Iterated(s, p)
  PROVE  /\ \A x \in Touched(p, AtFirst(p)) : Entry(p.fields, x) \in AccessTypes(t.effects)
         /\ \A a \in Passed(p) : \A c \in CalleeFormals(a, Position(a)) :
              /\ \A y \in AccessTypes(summaries[c].effects) :
                   MayFollow(SiteOf(a), Transfer(p).fields, y.fields) =>
                     Entry(Transfer(p).fields, y) \in AccessTypes(t.effects)
              /\ PathsBehind(p, a, c, summaries) \subseteq PathsMerged(p, summaries)
              /\ summaries[c].array /\ Transfer(p).fields = <<>> /\ ~TooManyTargets(SiteOf(a)) => t.array
         /\ Returned(p) # {} => [node |-> p.node, fields |-> Transfer(p).fields, kind |-> KindAfter(p)] \in t.exits
         /\ IsArrayAccess(p) => t.array
<1> DEFINE ef == s.effects \cup Behind(p.fields, Touched(p, AtFirst(p))) \cup EffectsMerged(p, summaries)
           exit == [node |-> p.node, fields |-> Transfer(p).fields, kind |-> KindAfter(p)]
           ex == IF Returned(p) = {} THEN s.exits ELSE s.exits \cup {exit}
           ar == s.array \/ IsArrayAccess(p) \/ ArrayMerged(p, summaries)
<1>1. Iterated(s, p) = [effects |-> ef, exits |-> ex, array |-> ar, params |-> s.params]
  <2>1. Iterated(s, p) = [s EXCEPT !.effects = ef, !.exits = ex, !.array = ar]
    BY DEF Iterated
  <2> HIDE DEF ef, ex, ar
  <2> QED BY <2>1, SummaryFacts
<1>6. t.effects = ef /\ t.exits = ex /\ (ar => t.array)
  <2> HIDE DEF ef, ex, ar
  <2> QED BY <1>1
<1>2. ASSUME NEW x \in Touched(p, AtFirst(p)) PROVE Entry(p.fields, x) \in AccessTypes(t.effects)
  <2> DEFINE z == [x EXCEPT !.fields = p.fields \o x.fields]
  <2>1. z \in Behind(p.fields, Touched(p, AtFirst(p)))
    BY DEF Behind
  <2>2. x \in Effects
    BY TouchedFacts
  <2>3. z.fields = p.fields \o x.fields /\ z.kind = x.kind /\ z \in ef
    BY <2>1, <2>2 DEF Effects
  <2> HIDE DEF z, ef
  <2> QED BY <1>6, <2>3 DEF AccessTypes, Entry
<1>3. ASSUME NEW a \in Passed(p), NEW c \in CalleeFormals(a, Position(a))
      PROVE  /\ \A y \in AccessTypes(summaries[c].effects) :
                   MayFollow(SiteOf(a), Transfer(p).fields, y.fields) =>
                     Entry(Transfer(p).fields, y) \in AccessTypes(t.effects)
             /\ PathsBehind(p, a, c, summaries) \subseteq PathsMerged(p, summaries)
             /\ summaries[c].array /\ Transfer(p).fields = <<>> /\ ~TooManyTargets(SiteOf(a)) => t.array
  <2>1. summaries[c] \in Summary
    BY NextFacts, CalleeFacts
  <2>2. ASSUME NEW y \in AccessTypes(summaries[c].effects), MayFollow(SiteOf(a), Transfer(p).fields, y.fields)
        PROVE  Entry(Transfer(p).fields, y) \in AccessTypes(t.effects)
    <3>1. PICK x \in summaries[c].effects : y = [fields |-> x.fields, kind |-> x.kind]
      BY DEF AccessTypes
    <3>2. x \in Effects
      BY <2>1, SummaryFacts
    <3> DEFINE F == Transfer(p).fields
               z == [x EXCEPT !.fields = F \o x.fields]
    <3>3. y.fields = x.fields /\ y.kind = x.kind
      BY <3>1
    <3>4. z \in EffectsBehind(p, a, c, summaries)
      BY <2>2, <3>3 DEF EffectsBehind
    <3>5. z \in UNION {EffectsBehind(p, a, d, summaries) : d \in CalleeFormals(a, Position(a))}
      <4> HIDE DEF z
      <4> QED BY <3>4
    <3>6. z \in EffectsMerged(p, summaries)
      <4> HIDE DEF z
      <4> QED BY <3>5 DEF EffectsMerged
    <3>7. z \in ef
      <4> HIDE DEF z
      <4> QED BY <3>6
    <3>8. z.fields = F \o y.fields /\ z.kind = y.kind
      <4> HIDE DEF F
      <4> QED BY <3>2, <3>3 DEF Effects
    <3> HIDE DEF z, ef
    <3> QED BY <1>6, <3>7, <3>8 DEF AccessTypes, Entry
  <2>3. PathsBehind(p, a, c, summaries) \subseteq PathsMerged(p, summaries)
    <3>1. PathsBehind(p, a, c, summaries) \subseteq UNION {PathsBehind(p, a, d, summaries) : d \in CalleeFormals(a, Position(a))}
      OBVIOUS
    <3>2. UNION {PathsBehind(p, a, d, summaries) : d \in CalleeFormals(a, Position(a))} \subseteq PathsMerged(p, summaries)
      BY DEF PathsMerged
    <3> QED BY <3>1, <3>2
  <2>4. summaries[c].array /\ Transfer(p).fields = <<>> /\ ~TooManyTargets(SiteOf(a)) => t.array
    BY <1>6 DEF ArrayMerged
  <2> QED BY <2>2, <2>3, <2>4
<1>4. Returned(p) # {} => exit \in t.exits
  BY <1>6
<1>5. IsArrayAccess(p) => t.array
  BY <1>6
<1> HIDE DEF ef, ex, ar
<1>7. \A x \in Touched(p, AtFirst(p)) : Entry(p.fields, x) \in AccessTypes(t.effects)
  BY <1>2
<1>8. \A a \in Passed(p) : \A c \in CalleeFormals(a, Position(a)) :
        /\ \A y \in AccessTypes(summaries[c].effects) :
             MayFollow(SiteOf(a), Transfer(p).fields, y.fields) =>
               Entry(Transfer(p).fields, y) \in AccessTypes(t.effects)
        /\ PathsBehind(p, a, c, summaries) \subseteq PathsMerged(p, summaries)
        /\ summaries[c].array /\ Transfer(p).fields = <<>> /\ ~TooManyTargets(SiteOf(a)) => t.array
  <2> TAKE a \in Passed(p)
  <2> TAKE c \in CalleeFormals(a, Position(a))
  <2> QED BY <1>3
<1>9. Returned(p) # {} => [node |-> p.node, fields |-> Transfer(p).fields, kind |-> KindAfter(p)] \in t.exits
  BY <1>4
<1> QED BY <1>5, <1>7, <1>8, <1>9
-----------------------------------------------------------------------------
(* The summaries are closed. *)

LEMMA GrowingStep == Typed /\ Growing /\ [Next]_vars => Growing'
<1> SUFFICES ASSUME Typed, Growing, [Next]_vars, cur' # None PROVE Grows(old', summaries'[cur'])
  BY DEF Growing, Grows
<1>1. ASSUME NEW i \in todo, StartItem(i) PROVE Grows(old', summaries'[cur'])
  BY <1>1 DEF StartItem, Grows
<1>2. ASSUME NEW n \in sources, NextSource(n) PROVE Grows(old', summaries'[cur'])
  <2>1. cur' = cur /\ old' = old /\ Grows(old, summaries[cur])
    BY <1>2 DEF NextSource, Growing
  <2>2. Grows(summaries[cur], summaries'[cur])
    BY <1>2, SourceFacts
  <2> QED BY <2>1, <2>2 DEF Grows
<1>3. ASSUME NEW p \in worklist, Drop(p) PROVE Grows(old', summaries'[cur'])
  BY <1>3 DEF Drop, Growing
<1>4. ASSUME NEW p \in worklist, Track(p) PROVE Grows(old', summaries'[cur'])
  <2>1. cur' = cur /\ old' = old /\ Grows(old, summaries[cur])
    BY <1>4 DEF Track, Growing
  <2>2. Grows(summaries[cur], summaries'[cur])
    BY <1>4, TrackFacts
  <2> QED BY <2>1, <2>2 DEF Grows
<1>5. ~EndItem
  BY DEF EndItem
<1>6. CASE NextRound
  BY <1>6 DEF NextRound, item, Growing
<1>7. CASE NextScc
  BY <1>7 DEF NextScc, item, Growing
<1>8. CASE Move \/ Explore
  BY <1>8 DEF Move, Explore, FollowAll, GoOn, item, Growing
<1>9. CASE UNCHANGED vars
  BY <1>9 DEF vars, item, Growing
<1> QED BY <1>1, <1>2, <1>3, <1>4, <1>5, <1>6, <1>7, <1>8, <1>9 DEF Next, Analysis, Analyse

\* What uses the summary of the item that is walked is in a cycle with it, or not walked yet.
LEMMA OthersFacts ==
  ASSUME Typed, cur # None, NEW T, \A i \in Items(Functions) : i # cur => T[i] = summaries[i],
         IsInCycle(Component) => Same(cur, T[cur], summaries[cur])
  PROVE  \A i \in Before \cup Walked \cup {cur} : \A j \in Uses(i) : Same(j, T[j], summaries[j])
<1>1. cur \in Items(Functions) /\ cur \in Items(Component) /\ prog \in Programs
  BY CurFacts
<1>2. ASSUME NEW i \in Before, NEW j \in Uses(i) PROVE Same(j, T[j], summaries[j])
  <2>1. j \in Before
    BY BeforeFacts
  <2>2. j # cur /\ j \in Items(Functions)
    BY <2>1, BeforeFacts
  <2> QED BY <2>2, SameReflexive
<1>3. ASSUME NEW i \in Items(Component), i \notin todo, NEW j \in Uses(i) PROVE Same(j, T[j], summaries[j])
  <2>1. i \in Items(Functions) /\ Home(i) \in Component
    BY CurFacts
  <2>2. j \in Items(Functions)
    BY <1>1, <2>1, UsesFacts
  <2>3. CASE j # cur
    BY <2>2, <2>3, SameReflexive
  <2>4. CASE j = cur
    <3>1. SUFFICES ASSUME ~IsInCycle(Component) PROVE FALSE
      BY <2>4
    <3>2. j \notin Before
      BY <2>4, BeforeFacts
    <3>3. i \in Functions /\ cur \in AllFormals
      BY <1>3, <2>4, <3>1, <3>2, OnceFacts
    <3>4. i \in Component \cap prog.returns
      BY <1>1, <2>1, <3>3, ItemFacts DEF Home
    <3> QED BY <1>3, <3>3, <3>4 DEF Typed, Ordered
  <2> QED BY <2>3, <2>4
<1>4. cur \notin todo /\ \A i \in Walked : i \in Items(Component) /\ i \notin todo
  BY DEF Typed, Walked
<1> QED BY <1>1, <1>2, <1>3, <1>4

\* What happens to the item that is walked disturbs no other.
LEMMA OthersClosed ==
  ASSUME Typed, cur # None, NEW T, \A i \in Items(Functions) : i # cur => T[i] = summaries[i],
         IsInCycle(Component) => Same(cur, T[cur], summaries[cur])
  PROVE  \A i \in Before \cup Walked : Closed(i, summaries, tracked[i]) => Closed(i, T, tracked[i])
<1> SUFFICES ASSUME NEW i \in Before \cup Walked, Closed(i, summaries, tracked[i])
             PROVE  Closed(i, T, tracked[i])
  OBVIOUS
<1>1. \A j \in Uses(i) : Same(j, T[j], summaries[j])
  BY OthersFacts
<1>2. i \in Items(Functions) /\ i # cur /\ prog \in Programs
  BY BeforeFacts, CurFacts DEF Walked
<1>3. T[i] = summaries[i]
  BY <1>2
<1>4. tracked[i] \in SUBSET PathsOf(i)
  BY <1>2 DEF Typed
<1> QED BY <1>1, <1>2, <1>3, <1>4, ClosedGrow

\* If a round is still stable after a step, the step has found nothing new.
LEMMA StableStep ==
  ASSUME Typed, Growing, cur # None, NEW T \in Summary, Grows(summaries[cur], T),
         changed' = changed, Component' = Component, IsInCycle(Component)' = IsInCycle(Component),
         IsInCycle(Component) => ~changed /\ Same(cur, T, old)
  PROVE  Stable /\ (IsInCycle(Component) => Same(cur, T, summaries[cur]))
<1>1. old \in Summary /\ summaries[cur] \in Summary /\ Grows(old, summaries[cur])
  BY CurFacts DEF Typed, Growing
<1>2. IsInCycle(Component) => Same(cur, summaries[cur], old) /\ Same(cur, T, summaries[cur])
  BY <1>1, GrowsFacts
<1> QED BY <1>2 DEF Stable

\* The parts of Settled.
LEMMA SettledFacts ==
  ASSUME Typed, Settled, ~reported, ~collided
  PROVE  /\ \A i \in Before : Closed(i, summaries, tracked[i])
         /\ Stable => \A i \in Walked : Closed(i, summaries, tracked[i])
         /\ cur # None => visited \subseteq tracked[cur]
         /\ Stable /\ cur # None =>
              /\ PathsClosed(cur, summaries, tracked[cur], tracked[cur] \cup worklist)
              /\ BeginsClosed(cur, summaries, IF cur \in Functions THEN backward_slice(cur) \ sources ELSE {},
                              tracked[cur] \cup worklist)
BY DEF Settled

LEMMA SameRound ==
  ASSUME Typed, prog' = prog, scc' = scc
  PROVE  /\ Functions' = Functions /\ AllFormals' = AllFormals
         /\ Component' = Component /\ IsInCycle(Component)' = IsInCycle(Component)
         /\ Items(Component)' = Items(Component) /\ Before' = Before
         /\ \A f : backward_slice(f)' = backward_slice(f)
<1>1. Component' = Component
  BY DEF Component, Finished
<1>2. Before' = Before
  BY SameNodes DEF Before, Items
<1> QED BY <1>1, <1>2, SameNodes, SameSlices DEF Items, IsInCycle

LEMMA SettledIntro ==
  ASSUME Typed, prog' = prog, scc' = scc,
         ~reported' /\ ~collided' =>
           /\ \A i \in Before : Closed(i, summaries', tracked'[i])
           /\ Stable' => \A i \in Walked' : Closed(i, summaries', tracked'[i])
           /\ cur' # None => visited' \subseteq tracked'[cur']
           /\ Stable' /\ cur' # None =>
                /\ PathsClosed(cur', summaries', tracked'[cur'], tracked'[cur'] \cup worklist')
                /\ BeginsClosed(cur', summaries', IF cur' \in Functions THEN backward_slice(cur') \ sources' ELSE {},
                                tracked'[cur'] \cup worklist')
  PROVE  Settled'
<1> SUFFICES ASSUME ~reported', ~collided' PROVE Settled'
  BY DEF Settled
<1>1. Before' = Before /\ Functions' = Functions /\ \A f : backward_slice(f)' = backward_slice(f)
  BY SameRound
<1>2. (\A i \in Before : Closed(i, summaries, tracked[i]))'
  BY <1>1, SameClosed
<1>3. (Stable => \A i \in Walked : Closed(i, summaries, tracked[i]))'
  BY <1>1, SameClosed
<1>4. (Stable /\ cur # None => PathsClosed(cur, summaries, tracked[cur], tracked[cur] \cup worklist))'
  BY <1>1, SameClosed
<1>5. (Stable /\ cur # None =>
         BeginsClosed(cur, summaries, IF cur \in Functions THEN backward_slice(cur) \ sources ELSE {},
                      tracked[cur] \cup worklist))'
  BY <1>1, SameClosed
<1> QED BY <1>2, <1>3, <1>4, <1>5 DEF Settled

LEMMA SettledStart ==
  ASSUME Typed, Settled, NEW i \in todo, StartItem(i)
  PROVE  Settled'
<1>1. prog' = prog /\ prog \in Programs /\ scc' = scc /\ changed' = changed /\ reported' = reported /\ collided' = collided
      /\ cur = None /\ cur' = i /\ todo' = todo \ {i} /\ old' = summaries[i] /\ visited' = {} /\ summaries' = summaries
      /\ tracked' = [tracked EXCEPT ![i] = {}]
  BY DEF StartItem, Typed
<1>2. i \in Items(Component) /\ i \in Items(Functions)
  BY CurFacts DEF Typed
<1>3. tracked'[i] = {} /\ \A j \in Items(Functions) : j # i => tracked'[j] = tracked[j]
  BY <1>1, <1>2 DEF Typed
<1> SUFFICES ASSUME ~reported, ~collided PROVE Settled'
  BY <1>1 DEF Settled
<1>4. \A j \in Before : j # i /\ j \in Items(Functions)
  <2>1. i \notin Before
    <3>1. SUFFICES ASSUME i \in Before PROVE FALSE
      OBVIOUS
    <3>2. PICK k \in 1..(scc - 1) : Home(i) \in prog.sccs[k]
      BY <3>1, BeforeFacts
    <3>3. Home(i) \in Component
      BY <1>2, CurFacts
    <3>4. Home(i) \in prog.sccs[scc] /\ scc \in 1..Len(prog.sccs)
      BY <1>1, <3>3, SccFacts DEF Component, Finished, Typed
    <3>5. k \in 1..Len(prog.sccs) /\ k # scc
      BY <1>1, <3>2, <3>4, SccFacts
    <3> QED BY <1>1, <3>2, <3>4, <3>5, SccFacts
  <2> QED BY <2>1, BeforeFacts
<1>5. Walked' = Walked /\ \A j \in Walked : j # i /\ j \in Items(Functions)
  <2>1. Items(Component)' = Items(Component)
    BY <1>1, SameRound
  <2>2. None \notin Items(Component)
    BY CurFacts
  <2> QED BY <1>1, <2>1, <2>2, CurFacts DEF Walked
<1>6. Stable' => Stable
  BY <1>1, SameRound DEF Stable
<1>7. \A j \in Before : Closed(j, summaries', tracked'[j])
  BY <1>1, <1>3, <1>4, SettledFacts
<1>8. Stable' => \A j \in Walked' : Closed(j, summaries', tracked'[j])
  BY <1>1, <1>3, <1>5, <1>6, SettledFacts
<1>9. PathsClosed(i, summaries', tracked'[i], tracked'[i] \cup worklist')
  BY <1>3 DEF PathsClosed
<1>10. BeginsClosed(i, summaries', IF i \in Functions THEN backward_slice(i) \ sources' ELSE {}, tracked'[i] \cup worklist')
  <2>1. i \in AllFormals <=> i \notin Functions
    BY <1>1, <1>2, ItemFacts
  <2>2. CASE i \in AllFormals
    BY <2>1, <2>2 DEF StartItem, BeginsClosed
  <2>3. CASE i \in Functions
    <3>1. backward_slice(i) \ sources' = {}
      BY <2>1, <2>3 DEF StartItem
    <3> QED BY <2>1, <2>3, <3>1 DEF BeginsClosed
  <2> QED BY <2>1, <2>2, <2>3
<1> QED BY <1>1, <1>3, <1>7, <1>8, <1>9, <1>10, SettledIntro
LEMMA SettledSource ==
  ASSUME Typed, Growing, Settled, NEW n \in sources, NextSource(n)
  PROVE  Settled'
<1>1. prog' = prog /\ prog \in Programs /\ scc' = scc /\ changed' = changed /\ reported' = reported /\ collided' = collided
      /\ cur' = cur /\ todo' = todo /\ old' = old /\ visited' = {} /\ tracked' = tracked
      /\ worklist = {} /\ sources' = sources \ {n} /\ cur \in Functions
  BY DEF NextSource, Typed, progress, history
<1>2. cur # None /\ cur \in Items(Functions) /\ summaries[cur] \in Summary /\ tracked[cur] \in SUBSET PathsOf(cur)
      /\ cur \notin AllFormals
  BY <1>1, EdgeFacts, CurFacts DEF Typed
<1>3. /\ summaries' \in [Items(Functions) -> Summary]
      /\ Grows(summaries[cur], summaries'[cur])
      /\ \A i \in Items(Functions) : i # cur => summaries'[i] = summaries[i]
      /\ n \in backward_slice(cur)
  BY SourceFacts
<1>4. Walked' = Walked /\ Component' = Component /\ IsInCycle(Component)' = IsInCycle(Component)
  BY <1>1, SameRound DEF Walked
<1> SUFFICES ASSUME ~reported, ~collided PROVE Settled'
  BY <1>1 DEF Settled
<1>5. Stable' => Stable /\ (IsInCycle(Component) => Same(cur, summaries'[cur], summaries[cur]))
  <2> SUFFICES ASSUME Stable' PROVE Stable /\ (IsInCycle(Component) => Same(cur, summaries'[cur], summaries[cur]))
    OBVIOUS
  <2>1. summaries'[cur] \in Summary
    BY <1>2, <1>3
  <2>2. IsInCycle(Component) => ~changed /\ Same(cur, summaries'[cur], old)
    BY <1>1, <1>2, <1>4, SameClosed DEF Stable
  <2> QED BY <1>1, <1>2, <1>3, <1>4, <2>1, <2>2, StableStep
<1>6. ASSUME IsInCycle(Component) => Same(cur, summaries'[cur], summaries[cur])
      PROVE  /\ \A i \in Before \cup Walked : Closed(i, summaries, tracked[i]) => Closed(i, summaries', tracked[i])
             /\ \A j \in Uses(cur) : Same(j, summaries'[j], summaries[j])
  BY <1>2, <1>3, <1>6, OthersClosed, OthersFacts
<1>7. \A i \in Before : Closed(i, summaries', tracked'[i])
  <2> SUFFICES ASSUME NEW i \in Before PROVE Closed(i, summaries', tracked'[i])
    OBVIOUS
  <2>1. i \in Items(Functions) /\ i # cur /\ Uses(i) \subseteq Before /\ \A j \in Before : j \in Items(Functions) /\ j # cur
    BY BeforeFacts
  <2>2. summaries'[i] = summaries[i] /\ \A j \in Uses(i) : Same(j, summaries'[j], summaries[j])
    BY <1>3, <2>1, SameReflexive
  <2>3. Closed(i, summaries, tracked[i]) /\ tracked[i] \in SUBSET PathsOf(i)
    BY <2>1, SettledFacts DEF Typed
  <2> QED BY <1>1, <2>1, <2>2, <2>3, ClosedGrow
<1>8. Stable' => \A i \in Walked' : Closed(i, summaries', tracked'[i])
  BY <1>1, <1>4, <1>5, <1>6, SettledFacts
<1>9. ASSUME Stable'
      PROVE  /\ PathsClosed(cur, summaries', tracked[cur], tracked[cur] \cup worklist')
             /\ BeginsClosed(cur, summaries', backward_slice(cur) \ sources', tracked[cur] \cup worklist')
  <2>1. \A j \in Uses(cur) : Same(j, summaries'[j], summaries[j])
    BY <1>5, <1>6, <1>9
  <2>2. /\ AccessTypes(summaries[cur].effects) \subseteq AccessTypes(summaries'[cur].effects)
        /\ summaries[cur].array => summaries'[cur].array
        /\ summaries[cur].params \subseteq summaries'[cur].params
        /\ cur \in AllFormals => summaries[cur].exits \subseteq summaries'[cur].exits
    BY <1>3 DEF Grows, AccessTypes
  <2>3. /\ PathsClosed(cur, summaries, tracked[cur], tracked[cur] \cup worklist)
        /\ BeginsClosed(cur, summaries, backward_slice(cur) \ sources, tracked[cur] \cup worklist)
    BY <1>1, <1>2, <1>5, <1>9, SettledFacts
  <2>4. tracked[cur] \cup worklist \subseteq tracked[cur] \cup worklist'
    BY <1>1
  <2>5. PathsClosed(cur, summaries', tracked[cur], tracked[cur] \cup worklist')
    BY <1>1, <1>2, <2>1, <2>2, <2>3, <2>4, PathsGrow
  <2>6. BeginsClosed(cur, summaries', backward_slice(cur) \ sources, tracked[cur] \cup worklist')
    <3>1. backward_slice(cur) \ sources \in SUBSET backward_slice(cur)
      OBVIOUS
    <3> QED BY <1>1, <1>2, <2>1, <2>2, <2>3, <2>4, <3>1, BeginsGrow
  <2>7. BeginsClosed(cur, summaries', {n}, worklist')
    BY SourceTakes
  <2>8. BeginsClosed(cur, summaries', backward_slice(cur) \ sources', tracked[cur] \cup worklist')
    <3>1. \A m \in backward_slice(cur) \ sources' : m \in backward_slice(cur) \ sources \/ m \in {n}
      BY <1>1
    <3> HIDE DEF Begins
    <3> QED BY <1>2, <2>6, <2>7, <3>1 DEF BeginsClosed
  <2> QED BY <2>5, <2>8
<1> QED BY <1>1, <1>7, <1>8, <1>9, SettledIntro

LEMMA SettledDrop ==
  ASSUME Typed, Settled, NEW p \in worklist, Drop(p)
  PROVE  Settled'
<1>1. prog' = prog /\ scc' = scc /\ changed' = changed /\ reported' = reported /\ cur' = cur /\ todo' = todo /\ old' = old
      /\ visited' = visited /\ tracked' = tracked /\ summaries' = summaries /\ sources' = sources
      /\ worklist' = worklist \ {p}
  BY DEF Drop, progress
<1> SUFFICES ASSUME ~reported, ~collided' PROVE Settled'
  BY <1>1 DEF Settled
<1>2. ~collided /\ p \in visited
  BY DEF Drop
<1>3. cur # None /\ p \in tracked[cur]
  BY <1>2, SettledFacts DEF Typed
<1>4. tracked'[cur] \cup worklist' = tracked[cur] \cup worklist
  BY <1>1, <1>3
<1>5. Walked' = Walked /\ Component' = Component /\ IsInCycle(Component)' = IsInCycle(Component)
  BY <1>1, SameRound DEF Walked
<1>6. Stable' => Stable
  BY <1>1, <1>5, SameClosed DEF Stable
<1> QED BY <1>1, <1>2, <1>3, <1>4, <1>5, <1>6, SettledFacts, SettledIntro

LEMMA SettledTrack ==
  ASSUME Typed, Growing, Settled, NEW p \in worklist, Track(p)
  PROVE  Settled'
<1>1. prog' = prog /\ prog \in Programs /\ scc' = scc /\ changed' = changed /\ reported' = reported /\ collided' = collided
      /\ cur' = cur /\ todo' = todo /\ old' = old /\ sources' = sources
      /\ visited' = visited \cup {p} /\ tracked' = [tracked EXCEPT ![cur] = @ \cup {p}]
      /\ worklist' = (worklist \ {p}) \cup Next3(p) \cup PathsMerged(p, summaries)
  BY DEF Track, progress, Typed
<1>2. cur # None /\ cur \in Items(Functions) /\ summaries[cur] \in Summary /\ tracked[cur] \in SUBSET PathsOf(cur)
      /\ summaries \in [Items(Functions) -> Summary]
  BY CurFacts, TrackFacts DEF Typed
<1>3. /\ summaries' \in [Items(Functions) -> Summary]
      /\ Grows(summaries[cur], summaries'[cur])
      /\ \A i \in Items(Functions) : i # cur => summaries'[i] = summaries[i]
      /\ summaries'[cur] = Iterated(summaries[cur], p)
      /\ p \in PathsOf(cur) /\ p \in Paths
  BY TrackFacts
<1>4. Walked' = Walked /\ Component' = Component /\ IsInCycle(Component)' = IsInCycle(Component)
  BY <1>1, SameRound DEF Walked
<1>5. tracked'[cur] = tracked[cur] \cup {p} /\ \A i \in Items(Functions) : i # cur => tracked'[i] = tracked[i]
  BY <1>1, <1>2 DEF Typed
<1> SUFFICES ASSUME ~reported, ~collided PROVE Settled'
  BY <1>1 DEF Settled
<1>6. Stable' => Stable /\ (IsInCycle(Component) => Same(cur, summaries'[cur], summaries[cur]))
  <2> SUFFICES ASSUME Stable' PROVE Stable /\ (IsInCycle(Component) => Same(cur, summaries'[cur], summaries[cur]))
    OBVIOUS
  <2>1. summaries'[cur] \in Summary
    BY <1>2, <1>3
  <2>2. IsInCycle(Component) => ~changed /\ Same(cur, summaries'[cur], old)
    BY <1>1, <1>2, <1>4, SameClosed DEF Stable
  <2> QED BY <1>1, <1>2, <1>3, <1>4, <2>1, <2>2, StableStep
<1>7. ASSUME IsInCycle(Component) => Same(cur, summaries'[cur], summaries[cur])
      PROVE  /\ \A i \in Before \cup Walked : Closed(i, summaries, tracked[i]) => Closed(i, summaries', tracked[i])
             /\ \A j \in Uses(cur) : Same(j, summaries'[j], summaries[j])
  BY <1>2, <1>3, <1>7, OthersClosed, OthersFacts
<1>8. \A i \in Before : Closed(i, summaries', tracked'[i])
  <2> SUFFICES ASSUME NEW i \in Before PROVE Closed(i, summaries', tracked'[i])
    OBVIOUS
  <2>1. i \in Items(Functions) /\ i # cur /\ Uses(i) \subseteq Before /\ \A j \in Before : j \in Items(Functions) /\ j # cur
    BY BeforeFacts
  <2>2. summaries'[i] = summaries[i] /\ \A j \in Uses(i) : Same(j, summaries'[j], summaries[j])
    BY <1>3, <2>1, SameReflexive
  <2>3. Closed(i, summaries, tracked[i]) /\ tracked[i] \in SUBSET PathsOf(i) /\ tracked'[i] = tracked[i]
    BY <1>5, <2>1, SettledFacts DEF Typed
  <2> QED BY <1>1, <2>1, <2>2, <2>3, ClosedGrow
<1>9. ASSUME Stable' PROVE \A i \in Walked' : Closed(i, summaries', tracked'[i])
  <2>1. \A i \in Walked : i # cur /\ i \in Items(Functions)
    BY CurFacts DEF Walked
  <2> QED BY <1>4, <1>5, <1>6, <1>7, <1>9, <2>1, SettledFacts
<1> DEFINE more == tracked[cur] \cup worklist
           more2 == tracked'[cur] \cup worklist'
           ns == IF cur \in Functions THEN backward_slice(cur) \ sources ELSE {}
<1>10. more \subseteq more2 /\ ns \in SUBSET backward_slice(cur)
       /\ Next3(p) \subseteq more2 /\ PathsMerged(p, summaries) \subseteq more2
  BY <1>1, <1>5
<1>11. ASSUME Stable'
       PROVE  /\ PathsClosed(cur, summaries', tracked'[cur], more2)
              /\ BeginsClosed(cur, summaries', ns, more2)
  <2>1. \A j \in Uses(cur) : Same(j, summaries'[j], summaries[j])
    BY <1>6, <1>7, <1>11
  <2>2. /\ AccessTypes(summaries[cur].effects) \subseteq AccessTypes(summaries'[cur].effects)
        /\ summaries[cur].array => summaries'[cur].array
        /\ summaries[cur].params \subseteq summaries'[cur].params
        /\ cur \in AllFormals => summaries[cur].exits \subseteq summaries'[cur].exits
    BY <1>3 DEF Grows, AccessTypes
  <2>3. PathsClosed(cur, summaries, tracked[cur], more) /\ BeginsClosed(cur, summaries, ns, more)
    BY <1>2, <1>6, <1>11, SettledFacts
  <2> HIDE DEF more, more2, ns
  <2>4. PathsClosed(cur, summaries', tracked[cur], more2)
    BY <1>1, <1>2, <1>10, <2>1, <2>2, <2>3, PathsGrow
  <2>5. BeginsClosed(cur, summaries', ns, more2)
    BY <1>1, <1>2, <1>10, <2>1, <2>2, <2>3, BeginsGrow
  <2>6. PathsClosed(cur, summaries', {p}, more2)
    <3> DEFINE t == summaries'[cur]
    <3>1. t = Iterated(summaries[cur], p)
      BY <1>3
    <3> HIDE DEF t
    <3>2. /\ \A x \in Touched(p, AtFirst(p)) : Entry(p.fields, x) \in AccessTypes(t.effects)
          /\ \A a \in Passed(p) : \A c \in CalleeFormals(a, Position(a)) :
               /\ \A y \in AccessTypes(summaries[c].effects) :
                    MayFollow(SiteOf(a), Transfer(p).fields, y.fields) =>
                      Entry(Transfer(p).fields, y) \in AccessTypes(t.effects)
               /\ PathsBehind(p, a, c, summaries) \subseteq PathsMerged(p, summaries)
               /\ summaries[c].array /\ Transfer(p).fields = <<>> /\ ~TooManyTargets(SiteOf(a)) => t.array
          /\ Returned(p) # {} => [node |-> p.node, fields |-> Transfer(p).fields, kind |-> KindAfter(p)] \in t.exits
          /\ IsArrayAccess(p) => t.array
      BY <1>1, <1>2, <1>3, <3>1, IteratedClosed
    <3>3. ASSUME NEW a \in Passed(p), NEW c \in CalleeFormals(a, Position(a))
          PROVE  /\ \A y \in AccessTypes(summaries'[c].effects) :
                      MayFollow(SiteOf(a), Transfer(p).fields, y.fields) =>
                        Entry(Transfer(p).fields, y) \in AccessTypes(t.effects)
                 /\ PathsBehind(p, a, c, summaries') \subseteq more2
                 /\ summaries'[c].array /\ Transfer(p).fields = <<>> /\ ~TooManyTargets(SiteOf(a)) => t.array
      <4>1. c \in Uses(cur) /\ c \in AllFormals
        <5>1. a \in Nodes /\ Op(a) = "actual"
          BY <1>1, <1>3, NextFacts
        <5> QED BY <1>1, <1>2, <1>3, <5>1, UsesFacts, CalleeFacts
      <4>2. Same(c, summaries'[c], summaries[c])
        BY <2>1, <4>1
      <4>3. /\ AccessTypes(summaries'[c].effects) = AccessTypes(summaries[c].effects)
            /\ summaries'[c].array = summaries[c].array /\ summaries'[c].exits = summaries[c].exits
        BY <4>1, <4>2 DEF Same
      <4>4. PathsBehind(p, a, c, summaries') = PathsBehind(p, a, c, summaries)
        BY <4>3 DEF PathsBehind
      <4>5. PathsBehind(p, a, c, summaries) \subseteq PathsMerged(p, summaries)
        BY <3>2
      <4> QED BY <1>10, <3>2, <4>3, <4>4, <4>5
    <3>4. PathsClosed(cur, summaries', {p}, more2) <=>
          /\ Next3(p) \subseteq more2
          /\ \A x \in Touched(p, AtFirst(p)) : Entry(p.fields, x) \in AccessTypes(t.effects)
          /\ \A a \in Passed(p) : \A c \in CalleeFormals(a, Position(a)) :
               /\ \A y \in AccessTypes(summaries'[c].effects) :
                    MayFollow(SiteOf(a), Transfer(p).fields, y.fields) =>
                      Entry(Transfer(p).fields, y) \in AccessTypes(t.effects)
               /\ PathsBehind(p, a, c, summaries') \subseteq more2
               /\ summaries'[c].array /\ Transfer(p).fields = <<>> /\ ~TooManyTargets(SiteOf(a)) => t.array
          /\ cur \in AllFormals /\ Returned(p) # {} =>
               [node |-> p.node, fields |-> Transfer(p).fields, kind |-> KindAfter(p)] \in t.exits
          /\ IsArrayAccess(p) => t.array
      BY DEF PathsClosed, t
    <3> QED BY <1>10, <3>2, <3>3, <3>4
  <2>7. PathsClosed(cur, summaries', tracked'[cur], more2)
    BY <1>5, <2>4, <2>6 DEF PathsClosed
  <2> QED BY <2>5, <2>7
<1>12. visited' \subseteq tracked'[cur]
  BY <1>1, <1>2, <1>5, SettledFacts
<1> QED BY <1>1, <1>8, <1>9, <1>11, <1>12, SettledIntro
LEMMA SettledEnd ==
  ASSUME Typed, Growing, Settled, EndItem
  PROVE  Settled'
<1>1. prog' = prog /\ prog \in Programs /\ scc' = scc /\ todo' = todo /\ reported' = reported /\ collided' = collided
      /\ tracked' = tracked /\ cur # None /\ cur' = None /\ worklist = {} /\ sources = {}
      /\ changed' = (changed \/ Sizes(summaries'[cur]) # Sizes(old))
  BY DEF EndItem, history, Typed
<1>2. cur \in Items(Functions) /\ cur \in Items(Component) /\ cur \notin todo /\ summaries[cur] \in Summary
      /\ tracked[cur] \in SUBSET PathsOf(cur) /\ old \in Summary /\ Grows(old, summaries[cur])
      /\ summaries \in [Items(Functions) -> Summary]
  BY <1>1, CurFacts DEF Typed, Growing
<1>3. /\ \A i \in Items(Functions) : i # cur => summaries'[i] = summaries[i]
      /\ Same(cur, summaries'[cur], summaries[cur])
      /\ summaries'[cur].effects = summaries[cur].effects
      /\ cur \in AllFormals => summaries' = summaries
  BY EndFacts
<1>4. \A i \in Before \cup Walked : Closed(i, summaries, tracked[i]) => Closed(i, summaries', tracked[i])
  BY <1>1, <1>3, OthersClosed
<1>5. \A j \in Uses(cur) : Same(j, summaries'[j], summaries[j])
  BY <1>1, <1>3, OthersFacts
<1>6. Component' = Component /\ IsInCycle(Component)' = IsInCycle(Component) /\ Items(Component)' = Items(Component)
  BY <1>1, SameRound
<1>7. \A i \in Walked' : i \in Walked \/ i = cur
  BY <1>1, <1>6 DEF Walked
<1> SUFFICES ASSUME ~reported, ~collided PROVE Settled'
  BY <1>1 DEF Settled
<1>8. Stable' => Stable
  <2> SUFFICES ASSUME IsInCycle(Component), ~changed' PROVE ~changed /\ Same(cur, summaries[cur], old)
    BY <1>1, <1>6 DEF Stable
  <2>1. ~changed /\ Sizes(summaries'[cur]) = Sizes(old)
    BY <1>1
  <2>2. summaries'[cur].array = summaries[cur].array /\ summaries'[cur].params = summaries[cur].params
    BY <1>3 DEF Same
  <2>3. summaries'[cur] = summaries[cur] \/ cur \notin AllFormals
    BY <1>3
  <2> QED BY <1>2, <1>3, <2>1, <2>2, <2>3, SizesFacts
<1>9. ASSUME Stable PROVE Closed(cur, summaries', tracked[cur])
  <2> DEFINE ns == IF cur \in Functions THEN backward_slice(cur) ELSE {}
  <2>1. tracked[cur] \cup worklist = tracked[cur]
    BY <1>1
  <2>2. (IF cur \in Functions THEN backward_slice(cur) \ sources ELSE {}) = ns
    BY <1>1
  <2>3. /\ PathsClosed(cur, summaries, tracked[cur], tracked[cur])
        /\ BeginsClosed(cur, summaries, IF cur \in Functions THEN backward_slice(cur) \ sources ELSE {}, tracked[cur])
    BY <1>1, <1>9, <2>1, SettledFacts
  <2> HIDE DEF ns
  <2>4. Closed(cur, summaries, tracked[cur])
    BY <2>2, <2>3 DEF Closed, ns
  <2> QED BY <1>1, <1>2, <1>3, <1>5, <2>4, ClosedGrow
<1>10. \A i \in Before : Closed(i, summaries', tracked'[i])
  BY <1>1, <1>4, SettledFacts
<1>11. Stable' => \A i \in Walked' : Closed(i, summaries', tracked'[i])
  BY <1>1, <1>4, <1>7, <1>8, <1>9, SettledFacts
<1> QED BY <1>1, <1>10, <1>11, SettledIntro

LEMMA SettledRound ==
  ASSUME Typed, Settled, NextRound
  PROVE  Settled'
<1>1. prog' = prog /\ scc' = scc /\ reported' = reported /\ collided' = collided
      /\ tracked' = tracked /\ summaries' = summaries /\ cur = None /\ cur' = None
      /\ todo' = Items(prog.sccs[scc]) /\ scc <= Len(prog.sccs)
  BY DEF NextRound, RoundOver, item, history
<1>2. Walked' = {}
  <2>1. ~Finished
    BY <1>1, SccFacts DEF Finished, Typed
  <2>2. Component = prog.sccs[scc]
    BY <2>1 DEF Component
  <2>3. Items(Component)' = Items(Component)
    BY <1>1, SameRound
  <2> QED BY <1>1, <2>2, <2>3 DEF Walked
<1>3. ~reported' /\ ~collided' => \A i \in Before : Closed(i, summaries', tracked'[i])
  BY <1>1, SettledFacts
<1> QED BY <1>1, <1>2, <1>3, SettledIntro

LEMMA SettledScc ==
  ASSUME Typed, Settled, NextScc
  PROVE  Settled'
<1>1. prog' = prog /\ prog \in Programs /\ scc' = scc + 1 /\ collided' = collided
      /\ tracked' = tracked /\ summaries' = summaries /\ cur = None /\ cur' = None
      /\ todo = {} /\ scc <= Len(prog.sccs)
      /\ reported' = (reported \/ (IsInCycle(prog.sccs[scc]) /\ changed))
  BY DEF NextScc, RoundOver, item, Typed
<1>2. ~Finished /\ Component = prog.sccs[scc] /\ scc \in Nat \ {0} /\ Len(prog.sccs) \in Nat
  BY <1>1, SccFacts DEF Finished, Typed, Component
<1> SUFFICES ASSUME ~reported', ~collided' PROVE Settled'
  BY DEF Settled
<1>3. ~reported /\ ~collided /\ Stable
  BY <1>1, <1>2 DEF Stable
<1>4. Walked = Items(Component)
  <2>1. None \notin Items(Component)
    BY CurFacts
  <2> QED BY <1>1, <2>1 DEF Walked
<1>5. \A i \in Before \cup Items(Component) : Closed(i, summaries, tracked[i])
  BY <1>3, <1>4, SettledFacts
<1>6. \A i \in Before' : i \in Before \cup Items(Component)
  <2> DEFINE before == UNION {prog.sccs[k] : k \in 1..(scc - 1)}
             now == UNION {prog.sccs[k] : k \in 1..scc}
  <2>1. now = UNION {prog'.sccs[k] : k \in 1..(scc' - 1)}
    BY <1>1, <1>2
  <2>2. now = before \cup Component
    <3>1. 1..scc = (1..(scc - 1)) \cup {scc}
      BY <1>2
    <3> QED BY <1>2, <3>1
  <2>3. Before = Items(before)
    BY DEF Before
  <2> HIDE DEF before, now
  <2>4. Before' = Items(now)
    <3>1. \A f : FormalsOf(f)' = FormalsOf(f)
      BY <1>1, SameNodes
    <3> QED BY <1>1, <2>1, <3>1 DEF Before, Items
  <2> QED BY <2>2, <2>3, <2>4 DEF Items
<1>7. Walked' = {}
  <2>1. CASE scc < Len(prog.sccs)
    <3>1. Component' = prog.sccs[scc + 1]
      BY <1>1, <1>2, <2>1 DEF Component, Finished
    <3>2. Items(Component)' = Items(prog.sccs[scc + 1])
      BY <1>1, <3>1, SameNodes DEF Items
    <3> QED BY <2>1, <3>2 DEF NextScc, Walked
  <2>2. CASE ~(scc < Len(prog.sccs))
    <3>1. Component' = {}
      BY <1>1, <1>2, <2>2 DEF Component, Finished
    <3>2. Items(Component)' = {}
      BY <1>1, <3>1, SameNodes DEF Items
    <3> QED BY <3>2 DEF Walked
  <2> QED BY <2>1, <2>2
<1>8. \A i \in Before' : Closed(i, summaries', tracked'[i])
  BY <1>1, <1>5, <1>6
<1>9. (\A i \in Before : Closed(i, summaries, tracked[i]))'
  BY <1>1, <1>8, SameClosed
<1>10. (Stable => \A i \in Walked : Closed(i, summaries, tracked[i]))'
  BY <1>7
<1> QED BY <1>1, <1>9, <1>10 DEF Settled

LEMMA SettledStep == Typed /\ Growing /\ Settled /\ [Next]_vars => Settled'
<1> SUFFICES ASSUME Typed, Growing, Settled, [Next]_vars PROVE Settled'
  OBVIOUS
<1>1. CASE Move \/ Explore \/ UNCHANGED vars
  <2>1. UNCHANGED <<prog, progress, item, summaries, history>>
    BY <1>1 DEF Move, Explore, FollowAll, GoOn, vars
  <2>2. prog' = prog /\ scc' = scc /\ changed' = changed /\ todo' = todo /\ cur' = cur /\ sources' = sources
        /\ worklist' = worklist /\ visited' = visited /\ old' = old /\ summaries' = summaries
        /\ reported' = reported /\ tracked' = tracked /\ collided' = collided
    BY <2>1 DEF progress, item, history
  <2>3. Component' = Component /\ IsInCycle(Component)' = IsInCycle(Component) /\ Items(Component)' = Items(Component)
    BY <2>2, SameRound
  <2>4. Stable' => Stable
    BY <2>2, <2>3, SameClosed DEF Stable
  <2>5. Walked' = Walked
    BY <2>2, <2>3 DEF Walked
  <2> QED BY <2>2, <2>4, <2>5, SettledFacts, SettledIntro
<1> QED
  BY <1>1, SettledStart, SettledSource, SettledDrop, SettledTrack, SettledEnd, SettledRound, SettledScc
     DEF Next, Analysis, Analyse
-----------------------------------------------------------------------------
(* A value on its way: types. *)

LEMMA AnalyseOff == Typed /\ Analyse => ~Finished
<1> SUFFICES ASSUME Typed, Analyse, Finished PROVE FALSE
  OBVIOUS
<1>1. Items(Component) = {}
  BY DEF Component, Items
<1>2. todo = {} /\ cur = None /\ sources = {} /\ worklist = {}
  BY <1>1 DEF Typed
<1>3. EndItem \/ NextRound \/ NextScc
  BY <1>2 DEF Analyse
<1>4. scc <= Len(prog.sccs)
  BY <1>2, <1>3 DEF EndItem, NextRound, NextScc, RoundOver
<1> QED BY <1>4, SccFacts DEF Finished, Typed

LEMMA WithinSuffix ==
  ASSUME NEW a \in Seq(Fields), NEW b \in Seq(Fields), Within(a \o b)
  PROVE  Within(b)
<1>1. Len(a \o b) = Len(a) + Len(b) /\ Len(a) \in Nat /\ Len(b) \in Nat /\ DOMAIN b = 1..Len(b)
      /\ DOMAIN (a \o b) = 1..(Len(a) + Len(b))
  OBVIOUS
<1>2. \A j \in 1..Len(b) : Len(a) + j \in DOMAIN (a \o b) /\ (a \o b)[Len(a) + j] = b[j]
  BY <1>1
<1>3. MAX_FIELD_DEPTH \in Nat
  BY ProgramsAssumption DEF ProgramsAssumption
<1>4. Len(b) <= MAX_FIELD_DEPTH
  BY <1>1, <1>3 DEF Within
<1>5. ASSUME NEW j \in DOMAIN b, NEW k \in DOMAIN b, b[j] = b[k], b[j] # Deref
      PROVE  j = k
  <2>1. Len(a) + j \in DOMAIN (a \o b) /\ Len(a) + k \in DOMAIN (a \o b)
        /\ (a \o b)[Len(a) + j] = b[j] /\ (a \o b)[Len(a) + k] = b[k]
    BY <1>1, <1>2
  <2>2. Len(a) + j = Len(a) + k
    BY <1>5, <2>1 DEF Within
  <2> QED BY <1>1, <2>2
<1> QED BY <1>4, <1>5 DEF Within

\* What a walk has in common with where it was.
LEMMA WalkFacts ==
  ASSUME Typed, NEW w, WalkTyped(w)
  PROVE  /\ w = [item |-> w.item, of |-> w.of, calls |-> w.calls, in |-> w.in, at |-> w.at, twice |-> w.twice]
         /\ w.item \in Items(Functions) /\ w.calls \in Seq(Calls) /\ Len(w.calls) \in Nat /\ w.twice \in BOOLEAN
         /\ w.at.node # None => w.of = None /\ w.at \in Paths /\ w.in \in Items(Functions)
         /\ w.at.node = None => w.of # None /\ w.of \in prog.returns /\ w.calls = <<>> /\ w.at = Start(None)
         /\ \A k \in 1..Len(w.calls) : w.calls[k] \in Calls
         /\ Whole(w) \in Seq(Fields)
<1>1. w \in Walks /\ prog \in Programs
  BY DEF WalkTyped, Typed
<1>2. w = [item |-> w.item, of |-> w.of, calls |-> w.calls, in |-> w.in, at |-> w.at, twice |-> w.twice]
      /\ w.item \in Items(Functions) /\ w.calls \in Seq(Calls) /\ w.twice \in BOOLEAN /\ w.at \in Paths \cup {Start(None)}
  BY <1>1 DEF Walks
<1>3. None \notin Nodes /\ Start(None).node = None /\ \A q \in Paths : q.node \in Nodes
  BY <1>1, EdgeFacts DEF Start, Paths
<1>4. \A k \in 1..Len(w.calls) : w.calls[k] \in Calls
  BY <1>2
<1>5. Whole(w) \in Seq(Fields)
  <2>1. CASE w.calls = <<>>
    BY <2>1 DEF Whole
  <2>2. CASE w.calls # <<>>
    <3>1. Last(w.calls) = w.calls[Len(w.calls)] /\ Len(w.calls) \in 1..Len(w.calls)
      BY <1>2, <2>2 DEF Last
    <3> QED BY <1>4, <2>2, <3>1 DEF Whole, Calls
  <2> QED BY <2>1, <2>2
<1> QED BY <1>2, <1>3, <1>4, <1>5 DEF WalkTyped

LEMMA FirstTyped ==
  ASSUME Typed, NEW i \in Items(Functions)
  PROVE  WalkTyped(FirstSteps(i))
<1>1. prog \in Programs /\ None \notin Functions
  BY EdgeFacts DEF Typed
<1>2. <<>> \in Seq(Calls)
  OBVIOUS
<1>3. CASE i \in Functions
  <2>1. FirstSteps(i) = [item |-> i, of |-> i, calls |-> <<>>, in |-> None, at |-> Start(None), twice |-> FALSE]
    BY <1>3 DEF FirstSteps, NoWalk
  <2>2. i \in prog.returns /\ i # None
    BY <1>1, <1>3, ItemFacts
  <2> HIDE DEF FirstSteps
  <2> QED BY <1>2, <1>3, <2>1, <2>2 DEF WalkTyped, Walks
<1>4. CASE i \notin Functions
  <2>1. FirstSteps(i) = [item |-> i, of |-> None, calls |-> <<>>, in |-> i, at |-> Start(i), twice |-> FALSE]
    BY <1>4 DEF FirstSteps, NoWalk
  <2>2. Start(i) \in Paths
    BY <1>1, <1>4, ItemFacts, FormalFacts, StartFacts
  <2> QED BY <1>2, <2>1, <2>2 DEF WalkTyped, Walks
<1> QED BY <1>3, <1>4

LEMMA OriginsTyped ==
  ASSUME Typed, NEW w, WalkTyped(w), w.at.node = None, NEW v \in Origins(w)
  PROVE  /\ v.item = w.item /\ v.twice = w.twice /\ v.calls = <<>>
         /\ WalkTyped(v)
         /\ \E n \in backward_slice(w.of) :
              \/ /\ v.of = None /\ v.in = (IF Op(n) = "formal" THEN n ELSE w.of) /\ v.at \in Begins(n, ReturnedParams)
              \/ /\ Op(n) = "actualret" /\ v.of \in callee_targets(CallOf(n)) \cap prog.returns /\ v.of # None
<1>1. prog \in Programs /\ w.of # None /\ w.of \in prog.returns /\ w.calls = <<>> /\ w.at = Start(None)
      /\ w = [item |-> w.item, of |-> w.of, calls |-> w.calls, in |-> w.in, at |-> w.at, twice |-> w.twice]
      /\ w.item \in Items(Functions) /\ w.twice \in BOOLEAN /\ w \in Walks
  BY WalkFacts DEF Typed, WalkTyped
<1>2. PICK n \in backward_slice(w.of) :
        v \in {[w EXCEPT !.of = None, !.in = IF Op(n) = "formal" THEN n ELSE w.of, !.at = q] :
                 q \in Begins(n, ReturnedParams)} \cup
              (IF Op(n) # "actualret" THEN {}
               ELSE {[w EXCEPT !.of = g] : g \in callee_targets(CallOf(n)) \cap prog.returns})
  BY <1>1 DEF Origins
<1>3. n \in Nodes /\ (Op(n) = "formal" => n \in Items(Functions)) /\ w.of \in Items(Functions) /\ <<>> \in Seq(Calls)
  BY <1>1, SliceFacts, ItemFacts
<1>4. CASE \E q \in Begins(n, ReturnedParams) :
             v = [w EXCEPT !.of = None, !.in = IF Op(n) = "formal" THEN n ELSE w.of, !.at = q]
  <2>1. PICK q \in Begins(n, ReturnedParams) :
          v = [w EXCEPT !.of = None, !.in = IF Op(n) = "formal" THEN n ELSE w.of, !.at = q]
    BY <1>4
  <2> DEFINE in == IF Op(n) = "formal" THEN n ELSE w.of
  <2>2. v = [w EXCEPT !.of = None, !.in = in, !.at = q] /\ in \in Items(Functions)
    BY <1>3, <2>1
  <2>3. q \in Paths
    <3>1. CASE Op(n) = "formal"
      BY <1>3, <3>1, StartFacts DEF Begins
    <3>2. CASE Op(n) # "formal"
      BY <1>1, <1>3, <3>2, BeginsFacts
    <3> QED BY <3>1, <3>2
  <2> HIDE DEF in
  <2>4. v = [item |-> w.item, of |-> None, calls |-> w.calls, in |-> in, at |-> q, twice |-> w.twice]
    BY <1>1, <2>2
  <2>5. WalkTyped(v)
    BY <1>1, <1>3, <2>2, <2>3, <2>4 DEF WalkTyped, Walks
  <2>6. v.item = w.item /\ v.twice = w.twice /\ v.calls = <<>> /\ v.of = None /\ v.in = in /\ v.at = q
    BY <1>1, <2>4
  <2> QED BY <2>1, <2>5, <2>6 DEF in
<1>5. CASE Op(n) = "actualret" /\ \E g \in callee_targets(CallOf(n)) \cap prog.returns : v = [w EXCEPT !.of = g]
  <2>1. PICK g \in callee_targets(CallOf(n)) \cap prog.returns : v = [w EXCEPT !.of = g]
    BY <1>5
  <2>2. v = [item |-> w.item, of |-> g, calls |-> w.calls, in |-> w.in, at |-> w.at, twice |-> w.twice]
    BY <1>1, <2>1
  <2>3. g \in Functions /\ g # None
    BY <1>1, <2>1, FormalFacts, EdgeFacts
  <2>4. WalkTyped(v)
    BY <1>1, <1>3, <2>1, <2>2, <2>3 DEF WalkTyped, Walks
  <2>5. v.item = w.item /\ v.twice = w.twice /\ v.calls = <<>> /\ v.of = g
    BY <1>1, <2>2
  <2> QED BY <1>5, <2>1, <2>3, <2>4, <2>5
<1> QED BY <1>2, <1>4, <1>5

LEMMA AlongTyped ==
  ASSUME Typed, NEW w, WalkTyped(w), w.at.node # None, NEW v \in Along(w)
  PROVE  /\ v.item = w.item /\ v.twice = w.twice /\ v.calls = w.calls /\ v.in = w.in /\ v.of = None
         /\ v.at \in Next3(w.at)
         /\ WalkTyped(v)
<1>1. prog \in Programs /\ w.of = None /\ w.at \in Paths /\ w.in \in Items(Functions) /\ w.calls \in Seq(Calls)
      /\ w = [item |-> w.item, of |-> w.of, calls |-> w.calls, in |-> w.in, at |-> w.at, twice |-> w.twice]
      /\ w.item \in Items(Functions) /\ w.twice \in BOOLEAN
  BY WalkFacts DEF Typed
<1>2. PICK q \in Next3(w.at) : v = [w EXCEPT !.at = q]
  BY DEF Along
<1>3. v = [item |-> w.item, of |-> None, calls |-> w.calls, in |-> w.in, at |-> q, twice |-> w.twice]
  BY <1>1, <1>2
<1>4. q \in Paths
  BY <1>1, NextFacts
<1>5. WalkTyped(v)
  BY <1>1, <1>3, <1>4 DEF WalkTyped, Walks
<1> QED BY <1>3, <1>5
LEMMA IntoTyped ==
  ASSUME Typed, NEW w, WalkTyped(w), w.at.node # None, NEW v \in Into(w)
  PROVE  \E a \in Passed(w.at) : \E n : \E c \in CalleeFormals(a, n) :
           /\ v.item = w.item /\ v.calls = Append(w.calls, Passing(w, a)) /\ v.in = c /\ v.of = None
           /\ v.at = Start(c) /\ v.twice = (w.twice \/ n # Position(a))
           /\ WalkTyped(v)
<1>1. prog \in Programs /\ w.of = None /\ w.at \in Paths /\ w.in \in Items(Functions) /\ w.calls \in Seq(Calls)
      /\ w = [item |-> w.item, of |-> w.of, calls |-> w.calls, in |-> w.in, at |-> w.at, twice |-> w.twice]
      /\ w.item \in Items(Functions) /\ w.twice \in BOOLEAN /\ Whole(w) \in Seq(Fields)
  BY WalkFacts DEF Typed
<1>2. PICK x \in AtAny(w.at) :
        v \in {[w EXCEPT !.calls = Append(@, Passing(w, x[1])), !.in = c, !.at = Start(c),
                         !.twice = @ \/ x[2] # Position(x[1])] : c \in CalleeFormals(x[1], x[2])}
  <2>1. Into(w) # {}
    OBVIOUS
  <2>2. v \in UNION {{[w EXCEPT !.calls = Append(@, Passing(w, x[1])), !.in = c, !.at = Start(c),
                                !.twice = @ \/ x[2] # Position(x[1])] : c \in CalleeFormals(x[1], x[2])} :
                     x \in AtAny(w.at)}
    BY <2>1 DEF Into
  <2> QED BY <2>2
<1>13. PICK a \in Passed(w.at) : \E n : x = <<a, n>>
  BY DEF AtAny
<1>3. PICK n : x = <<a, n>>
  BY <1>13
<1>4. PICK c \in CalleeFormals(a, n) :
        v = [w EXCEPT !.calls = Append(@, Passing(w, a)), !.in = c, !.at = Start(c), !.twice = @ \/ n # Position(a)]
  BY <1>2, <1>3
<1> DEFINE call == Passing(w, a)
           tw == w.twice \/ n # Position(a)
<1>5. a \in Nodes /\ Op(a) = "actual"
  BY <1>1, NextFacts
<1>6. c \in Items(Functions) /\ Start(c) \in Paths
  BY <1>1, <1>5, CalleeFacts, FormalFacts, StartFacts
<1>7. call \in Calls
  <2>1. Whole(w) \o Transfer(w.at).fields \in Seq(Fields)
    BY <1>1, TransferFacts, ConcatProperties
  <2> QED BY <1>1, <1>5, <2>1 DEF Passing, Calls
<1>8. Append(w.calls, call) \in Seq(Calls)
  BY <1>1, <1>7, AppendProperties
<1>9. v = [w EXCEPT !.calls = Append(w.calls, call), !.in = c, !.at = Start(c), !.twice = tw] /\ tw \in BOOLEAN
  BY <1>1, <1>4
<1> HIDE DEF call, tw
<1>10. v = [item |-> w.item, of |-> None, calls |-> Append(w.calls, call), in |-> c, at |-> Start(c), twice |-> tw]
  BY <1>1, <1>9
<1>11. WalkTyped(v)
  BY <1>1, <1>6, <1>8, <1>9, <1>10 DEF WalkTyped, Walks
<1>12. /\ v.item = w.item /\ v.calls = Append(w.calls, call) /\ v.in = c /\ v.of = None
       /\ v.at = Start(c) /\ v.twice = tw
  BY <1>10
<1> QED BY <1>11, <1>12 DEF call, tw

LEMMA BackTyped ==
  ASSUME Typed, NEW w, WalkTyped(w), w.at.node # None, NEW v \in Back(w)
  PROVE  LET m == Len(w.calls)
             top == w.calls[m]
             fields == Transfer(top.at).fields
         IN /\ m \in Nat \ {0} /\ top \in Calls
            /\ v.item = w.item /\ v.calls = SubSeq(w.calls, 1, m - 1) /\ v.in = top.in /\ v.of = None /\ v.twice = w.twice
            /\ \E r \in Returned(w.at) :
                 /\ r = prog.sites[SiteOf(top.a)].ret /\ MayFollow(SiteOf(top.a), fields, Transfer(w.at).fields)
                 /\ v.at = [Start(r) EXCEPT !.fields = fields \o Transfer(w.at).fields, !.kind = KindAfter(w.at)]
            /\ WalkTyped(v)
<1>1. prog \in Programs /\ w.of = None /\ w.at \in Paths /\ w.in \in Items(Functions) /\ w.calls \in Seq(Calls)
      /\ w = [item |-> w.item, of |-> w.of, calls |-> w.calls, in |-> w.in, at |-> w.at, twice |-> w.twice]
      /\ w.item \in Items(Functions) /\ w.twice \in BOOLEAN
  BY WalkFacts DEF Typed
<1> DEFINE m == Len(w.calls)
           top == w.calls[m]
           fields == Transfer(top.at).fields
           front == SubSeq(w.calls, 1, m - 1)
<1>2. w.calls # <<>>
  BY DEF Back
<1>3. m \in Nat \ {0} /\ top \in Calls
  BY <1>1, <1>2
<1>4. Last(w.calls) = top /\ Front(w.calls) = front
  BY DEF Last, Front
<1>5. front \in Seq(Calls)
  BY <1>1, <1>3
<1>6. PICK r \in Returned(w.at) :
        /\ r = prog.sites[SiteOf(top.a)].ret /\ MayFollow(SiteOf(top.a), fields, Transfer(w.at).fields)
        /\ v = [w EXCEPT !.calls = front, !.in = top.in,
                         !.at = [Start(r) EXCEPT !.fields = fields \o Transfer(w.at).fields, !.kind = KindAfter(w.at)]]
  BY <1>2, <1>4 DEF Back
<1> DEFINE at == [Start(r) EXCEPT !.fields = fields \o Transfer(w.at).fields, !.kind = KindAfter(w.at)]
<1>7. top.in \in Items(Functions) /\ top.at \in Paths
  BY <1>3 DEF Calls
<1>8. at \in Paths
  <2>1. r \in Nodes
    BY <1>1, EdgeFacts DEF Returned, Followed
  <2>2. fields \in Seq(Fields) /\ Transfer(w.at).fields \in Seq(Fields) /\ KindAfter(w.at) \in Kinds
    BY <1>1, <1>7, TransferFacts
  <2> DEFINE both == fields \o Transfer(w.at).fields
             kind == KindAfter(w.at)
  <2>3. both \in Seq(Fields) /\ kind \in Kinds
    BY <2>2, ConcatProperties
  <2>4. at = [Start(r) EXCEPT !.fields = both, !.kind = kind]
    OBVIOUS
  <2> HIDE DEF at, both, kind
  <2>5. Start(r) \in Paths
    BY <2>1, StartFacts
  <2> QED BY <2>3, <2>4, <2>5 DEF Paths
<1> HIDE DEF at, front, top, m
<1>9. v = [item |-> w.item, of |-> None, calls |-> front, in |-> top.in, at |-> at, twice |-> w.twice]
  BY <1>1, <1>6 DEF at
<1>10. WalkTyped(v)
  BY <1>1, <1>5, <1>7, <1>8, <1>9 DEF WalkTyped, Walks
<1>11. v.item = w.item /\ v.calls = front /\ v.in = top.in /\ v.of = None /\ v.twice = w.twice /\ v.at = at
  BY <1>9
<1> QED BY <1>3, <1>6, <1>10, <1>11 DEF at, front, top, m
-----------------------------------------------------------------------------
(* A value on its way: what is told of it. *)

LEMMA AllClosed ==
  ASSUME Typed, Settled, Finished, ~reported, ~collided
  PROVE  \A i \in Items(Functions) : Closed(i, summaries, tracked[i])
<1> SUFFICES ASSUME NEW i \in Items(Functions) PROVE i \in Before
  BY SettledFacts
<1>1. prog \in Programs /\ scc \in Nat /\ Len(prog.sccs) \in Nat /\ scc > Len(prog.sccs)
  BY SccFacts DEF Typed, Finished
<1>2. PICK k \in 1..Len(prog.sccs) : Home(i) \in prog.sccs[k]
  BY <1>1, ItemFacts, SccFacts
<1>3. k \in 1..(scc - 1)
  BY <1>1
<1> QED BY <1>2, <1>3, BeforeFacts

LEMMA EntryFacts ==
  ASSUME Typed, NEW i \in Items(Functions), NEW y \in AccessTypes(summaries[i].effects)
  PROVE  /\ y.fields \in Seq(Fields)
         /\ Entry(<<>>, y) = y
         /\ \A F \in Seq(Fields) : Entry(F, y).fields = F \o y.fields /\ Entry(F, y).kind = y.kind
         /\ \A F, G \in Seq(Fields) : Entry(G, Entry(F, y)) = Entry(G \o F, y)
<1>1. summaries[i] \in Summary
  BY DEF Typed
<1>2. PICK e \in summaries[i].effects : y = [fields |-> e.fields, kind |-> e.kind]
  BY DEF AccessTypes
<1>3. e \in Effects
  BY <1>1, <1>2, SummaryFacts
<1>4. y.fields \in Seq(Fields) /\ y = [fields |-> y.fields, kind |-> y.kind]
  BY <1>2, <1>3 DEF Effects
<1>5. <<>> \o y.fields = y.fields
  BY <1>4, ConcatEmptySeq
<1>6. \A F, G \in Seq(Fields) : G \o (F \o y.fields) = (G \o F) \o y.fields
  BY <1>4, ConcatAssociative
<1> QED BY <1>4, <1>5, <1>6 DEF Entry

\* Levels that two walks share.
LEMMA SameLevels ==
  ASSUME NEW v, NEW w, NEW K \in Nat, v.item = w.item,
         \A j \in 1..K : v.calls[j] = w.calls[j],
         \A k \in 0..K : Item(v, k) = Item(w, k)
  PROVE  \A k \in 0..K : /\ ToldAt(w, k) => ToldAt(v, k)
                         /\ k # 0 /\ CalledAt(w, k) => CalledAt(v, k)
                         /\ WholeAt(v, k) = WholeAt(w, k)
<1> SUFFICES ASSUME NEW k \in 0..K
             PROVE  /\ ToldAt(w, k) => ToldAt(v, k)
                    /\ k # 0 /\ CalledAt(w, k) => CalledAt(v, k)
                    /\ WholeAt(v, k) = WholeAt(w, k)
  OBVIOUS
<1>1. \A j \in 1..k : v.calls[j] = w.calls[j]
  OBVIOUS
<1>2. WholeAt(v, k) = WholeAt(w, k) /\ (k # 0 => WholeAt(v, k - 1) = WholeAt(w, k - 1))
  BY <1>1 DEF WholeAt
<1>3. Item(v, k) = Item(w, k)
  OBVIOUS
<1>4. Free(v, k) = Free(w, k) /\ \A fields : Tellable(v, k, fields) = Tellable(w, k, fields)
  BY <1>1 DEF Free, Tellable
<1>5. ToldAt(w, k) => ToldAt(v, k)
  BY <1>2, <1>3, <1>4 DEF ToldAt
<1>6. k # 0 /\ CalledAt(w, k) => CalledAt(v, k)
  <2>1. k # 0 => v.calls[k] = w.calls[k]
    BY <1>1
  <2> QED BY <1>2, <1>3, <2>1 DEF CalledAt
<1> QED BY <1>2, <1>5, <1>6

LEMMA FirstFollowed ==
  ASSUME Typed, Settled, NEW i \in Items(Functions)
  PROVE  Followable(FirstSteps(i))
<1> DEFINE v == FirstSteps(i)
<1> SUFFICES ASSUME Finished, ~reported, ~collided PROVE Returning(v) /\ OnItsWay(v)
  BY DEF Followable
<1>1. prog \in Programs /\ None \notin Functions
  BY EdgeFacts DEF Typed
<1>2. CASE i \in Functions
  <2>1. v = [item |-> i, of |-> i, calls |-> <<>>, in |-> None, at |-> Start(None), twice |-> FALSE]
    BY <1>2 DEF FirstSteps, NoWalk
  <2>2. v.of = i /\ v.item = i /\ i # None
    BY <1>1, <1>2, <2>1
  <2> HIDE DEF v
  <2> QED BY <2>2 DEF Returning, OnItsWay
<1>3. CASE i \notin Functions
  <2>1. v = [item |-> i, of |-> None, calls |-> <<>>, in |-> i, at |-> Start(i), twice |-> FALSE]
    BY <1>3 DEF FirstSteps, NoWalk
  <2>2. v.of = None /\ v.item = i /\ v.in = i /\ v.calls = <<>> /\ v.at = Start(i)
    BY <2>1
  <2>3. i \in AllFormals
    BY <1>1, <1>3, ItemFacts
  <2>4. v.at \in tracked[i]
    BY <2>2, <2>3, AllClosed DEF Closed, BeginsClosed
  <2> HIDE DEF v
  <2>5. Len(v.calls) = 0 /\ 0..Len(v.calls) = {0} /\ 1..Len(v.calls) = {}
    BY <2>2
  <2>6. ToldAt(v, 0)
    <3>1. Item(v, 0) = i /\ WholeAt(v, 0) = <<>>
      BY <2>2, <2>5 DEF Item, WholeAt
    <3>2. \A y \in AccessTypes(summaries[i].effects) : Entry(<<>>, y) = y
      BY EntryFacts
    <3> QED BY <2>2, <3>1, <3>2 DEF ToldAt
  <2> QED BY <2>2, <2>4, <2>5, <2>6 DEF Returning, OnItsWay
<1> QED BY <1>2, <1>3

LEMMA OriginsFollowed ==
  ASSUME Typed, Settled, NEW w, WalkTyped(w), Followable(w), w.at.node = None, NEW v \in Origins(w)
  PROVE  Followable(v)
<1> SUFFICES ASSUME Finished, ~reported, ~collided, ~v.twice PROVE Returning(v) /\ OnItsWay(v)
  BY DEF Followable
<1>1. prog \in Programs /\ w.of # None /\ w.of \in prog.returns /\ w.of \in Functions /\ w.of \in Items(Functions)
  BY WalkFacts, FormalFacts, ItemFacts DEF Typed
<1>2. v.item = w.item /\ v.twice = w.twice /\ v.calls = <<>>
  BY OriginsTyped
<1>3. PICK n \in backward_slice(w.of) :
        \/ /\ v.of = None /\ v.in = (IF Op(n) = "formal" THEN n ELSE w.of) /\ v.at \in Begins(n, ReturnedParams)
        \/ /\ Op(n) = "actualret" /\ v.of \in callee_targets(CallOf(n)) \cap prog.returns /\ v.of # None
  BY OriginsTyped
<1>4. /\ AccessTypes(summaries[w.of].effects) \subseteq AccessTypes(summaries[w.item].effects)
      /\ summaries[w.of].array => summaries[w.item].array
  BY <1>1, <1>2 DEF Followable, Returning
<1>5. \A f \in Items(Functions) : Closed(f, summaries, tracked[f])
  BY AllClosed
<1>6. /\ Op(n) = "formal" =>
           AccessTypes(summaries[n].effects) \subseteq AccessTypes(summaries[w.of].effects)
           /\ (summaries[n].array => summaries[w.of].array)
      /\ Op(n) # "formal" => Begins(n, [f \in prog.returns |-> summaries[f].params]) \subseteq tracked[w.of]
      /\ Op(n) = "actualret" =>
           \A g \in callee_targets(CallOf(n)) \cap prog.returns :
             AccessTypes(summaries[g].effects) \subseteq AccessTypes(summaries[w.of].effects)
             /\ (summaries[g].array => summaries[w.of].array)
  BY <1>1, <1>5 DEF Closed, BeginsClosed
<1>7. CASE v.of # None
  <2>1. Op(n) = "actualret" /\ v.of \in callee_targets(CallOf(n)) \cap prog.returns
    BY <1>3, <1>7
  <2> QED BY <1>2, <1>4, <1>6, <1>7, <2>1 DEF Returning, OnItsWay
<1>8. CASE v.of = None
  <2>1. v.in = (IF Op(n) = "formal" THEN n ELSE w.of) /\ v.at \in Begins(n, ReturnedParams)
    BY <1>3, <1>8
  <2>2. v.in \in Items(Functions) /\ v.at \in tracked[v.in]
    <3>1. CASE Op(n) = "formal"
      <4>1. v.in = n /\ n \in Items(Functions) /\ n \in AllFormals
        BY <1>1, <2>1, <3>1, SliceFacts
      <4>2. v.at = Start(n)
        BY <2>1, <3>1 DEF Begins
      <4> QED BY <1>5, <4>1, <4>2 DEF Closed, BeginsClosed
    <3>2. CASE Op(n) # "formal"
      <4> DEFINE P == [f \in prog.returns |-> summaries[f].params]
                 R == ReturnedParams
      <4>1. \A f \in prog.returns : R[f] \subseteq P[f]
        <5> SUFFICES ASSUME NEW f \in prog.returns, NEW k \in ReturnedParams[f] PROVE k \in summaries[f].params
          OBVIOUS
        <5>1. f \in Functions /\ f \in Items(Functions)
          BY <1>1, FormalFacts, ItemFacts
        <5>2. k \in DOMAIN prog.formals[f] /\ prog.formals[f][k] \in backward_slice(f)
          BY DEF ReturnedParams
        <5>3. Op(prog.formals[f][k]) = "formal"
          BY <1>1, <5>1, <5>2, FormalFacts
        <5> QED BY <1>5, <5>1, <5>2, <5>3 DEF Closed, BeginsClosed
      <4>2. v.at \in Begins(n, R) /\ Begins(n, P) \subseteq tracked[w.of] /\ v.in = w.of
        BY <1>6, <2>1, <3>2
      <4> HIDE DEF P, R
      <4>3. Begins(n, R) \subseteq Begins(n, P)
        BY <4>1 DEF Begins
      <4> QED BY <1>1, <4>2, <4>3
    <3> QED BY <3>1, <3>2
  <2>3. Len(v.calls) = 0 /\ 0..Len(v.calls) = {0} /\ 1..Len(v.calls) = {}
    BY <1>2
  <2>4. ToldAt(v, 0)
    <3>1. Item(v, 0) = v.in /\ WholeAt(v, 0) = <<>>
      BY <2>3 DEF Item, WholeAt
    <3>2. \A y \in AccessTypes(summaries[v.in].effects) : Entry(<<>>, y) = y
      BY <2>2, EntryFacts
    <3>3. /\ AccessTypes(summaries[v.in].effects) \subseteq AccessTypes(summaries[w.of].effects)
          /\ summaries[v.in].array => summaries[w.of].array
      BY <1>6, <2>1
    <3> QED BY <1>2, <1>4, <2>2, <3>1, <3>2, <3>3 DEF ToldAt
  <2> QED BY <1>8, <2>2, <2>3, <2>4 DEF Returning, OnItsWay
<1> QED BY <1>7, <1>8

LEMMA AlongFollowed ==
  ASSUME Typed, Settled, NEW w, WalkTyped(w), Followable(w), w.at.node # None, NEW v \in Along(w)
  PROVE  Followable(v)
<1> SUFFICES ASSUME Finished, ~reported, ~collided, ~v.twice PROVE Returning(v) /\ OnItsWay(v)
  BY DEF Followable
<1>1. w.of = None /\ w.at \in Paths /\ w.in \in Items(Functions) /\ Len(w.calls) \in Nat
  BY WalkFacts
<1>2. /\ v.item = w.item /\ v.twice = w.twice /\ v.calls = w.calls /\ v.in = w.in /\ v.of = None
      /\ v.at \in Next3(w.at)
  BY AlongTyped
<1>3. OnItsWay(w)
  BY <1>2 DEF Followable
<1>4. w.at \in tracked[w.in] /\ \A k \in 0..Len(w.calls) : ToldAt(w, k) /\ (k # 0 => CalledAt(w, k))
  BY <1>1, <1>3 DEF OnItsWay
<1>5. v.at \in tracked[v.in]
  BY <1>1, <1>2, <1>4, AllClosed DEF Closed, PathsClosed
<1>6. \A k \in 0..Len(w.calls) : Item(v, k) = Item(w, k)
  BY <1>2 DEF Item
<1>7. \A k \in 0..Len(w.calls) : ToldAt(v, k) /\ (k # 0 => CalledAt(v, k))
  BY <1>1, <1>2, <1>4, <1>6, SameLevels
<1> QED BY <1>1, <1>2, <1>5, <1>7 DEF Returning, OnItsWay
LEMMA IntoFollowed ==
  ASSUME Typed, Settled, NEW w, WalkTyped(w), Followable(w), w.at.node # None, NEW v \in Into(w)
  PROVE  Followable(v)
<1> SUFFICES ASSUME Finished, ~reported, ~collided, ~v.twice PROVE Returning(v) /\ OnItsWay(v)
  BY DEF Followable
<1>1. prog \in Programs /\ w.of = None /\ w.at \in Paths /\ w.in \in Items(Functions) /\ Len(w.calls) \in Nat
      /\ w.calls \in Seq(Calls) /\ Whole(w) \in Seq(Fields)
  BY WalkFacts DEF Typed
<1>23. PICK a \in Passed(w.at) : \E n : \E c \in CalleeFormals(a, n) :
         /\ v.item = w.item /\ v.calls = Append(w.calls, Passing(w, a)) /\ v.in = c /\ v.of = None
         /\ v.at = Start(c) /\ v.twice = (w.twice \/ n # Position(a))
  BY IntoTyped
<1>24. PICK n : \E c \in CalleeFormals(a, n) :
         /\ v.item = w.item /\ v.calls = Append(w.calls, Passing(w, a)) /\ v.in = c /\ v.of = None
         /\ v.at = Start(c) /\ v.twice = (w.twice \/ n # Position(a))
  BY <1>23
<1>2. PICK c \in CalleeFormals(a, n) :
        /\ v.item = w.item /\ v.calls = Append(w.calls, Passing(w, a)) /\ v.in = c /\ v.of = None
        /\ v.at = Start(c) /\ v.twice = (w.twice \/ n # Position(a))
  BY <1>24
<1>3. ~w.twice /\ c \in CalleeFormals(a, Position(a))
  BY <1>2
<1>4. OnItsWay(w)
  BY <1>3 DEF Followable
<1>5. w.at \in tracked[w.in] /\ \A k \in 0..Len(w.calls) : ToldAt(w, k) /\ (k # 0 => CalledAt(w, k))
  BY <1>1, <1>4 DEF OnItsWay
<1>6. a \in Nodes /\ Op(a) = "actual" /\ c \in AllFormals /\ c \in Items(Functions)
  BY <1>1, <1>3, NextFacts, CalleeFacts
<1> DEFINE m == Len(w.calls)
           F == Transfer(w.at).fields
           W == Whole(w)
           call == Passing(w, a)
<1>7. F \in Seq(Fields) /\ W \in Seq(Fields) /\ W \o F \in Seq(Fields)
  BY <1>1, TransferFacts, ConcatProperties
<1>8. call.in = w.in /\ call.at = w.at /\ call.a = a /\ call.whole = W \o F
  BY DEF Passing
<1>9. Len(v.calls) = m + 1 /\ v.calls[m + 1] = call /\ \A j \in 1..m : v.calls[j] = w.calls[j]
  BY <1>1, <1>2, AppendProperties
<1> HIDE DEF call
<1>10. \A k \in 0..m : Item(v, k) = Item(w, k)
  <2> SUFFICES ASSUME NEW k \in 0..m PROVE Item(v, k) = Item(w, k)
    OBVIOUS
  <2>1. CASE k = m
    BY <1>1, <1>8, <1>9, <2>1 DEF Item
  <2>2. CASE k # m
    <3>1. k + 1 \in 1..m /\ k # m + 1
      BY <1>1, <2>2
    <3> QED BY <1>9, <2>2, <3>1 DEF Item
  <2> QED BY <2>1, <2>2
<1>11. \A k \in 0..m : ToldAt(v, k) /\ (k # 0 => CalledAt(v, k)) /\ WholeAt(v, k) = WholeAt(w, k)
  BY <1>1, <1>2, <1>5, <1>9, <1>10, SameLevels
<1>12. WholeAt(w, m) = W /\ Item(w, m) = w.in
  <2>1. CASE m = 0
    <3>1. w.calls = <<>>
      BY <1>1, <2>1, EmptySeq
    <3> QED BY <2>1, <3>1 DEF WholeAt, Whole, Item
  <2>2. CASE m # 0
    <3>1. w.calls # <<>>
      BY <2>2
    <3> QED BY <2>2, <3>1 DEF WholeAt, Whole, Last, Item
  <2> QED BY <2>1, <2>2
<1>13. Item(v, m + 1) = c /\ WholeAt(v, m + 1) = W \o F
  BY <1>1, <1>2, <1>8, <1>9 DEF Item, WholeAt
<1>14. v.at \in tracked[v.in]
  BY <1>2, <1>6, AllClosed DEF Closed, BeginsClosed
<1>15. CalledAt(v, m + 1)
  <2>1. WholeAt(v, (m + 1) - 1) = W
    BY <1>1, <1>11, <1>12
  <2> QED BY <1>1, <1>3, <1>5, <1>8, <1>9, <1>13, <2>1 DEF CalledAt
<1>16. /\ \A y \in AccessTypes(summaries[c].effects) :
            MayFollow(SiteOf(a), F, y.fields) => Entry(F, y) \in AccessTypes(summaries[w.in].effects)
       /\ summaries[c].array /\ F = <<>> /\ ~TooManyTargets(SiteOf(a)) => summaries[w.in].array
  <2>1. PathsClosed(w.in, summaries, tracked[w.in], tracked[w.in])
    BY <1>1, AllClosed DEF Closed
  <2> QED BY <1>3, <1>5, <2>1 DEF PathsClosed
<1>17. ToldAt(w, m)
  BY <1>1, <1>5
<1>18. ASSUME NEW y \in AccessTypes(summaries[c].effects), Tellable(v, m + 1, (W \o F) \o y.fields)
       PROVE  Entry(W \o F, y) \in AccessTypes(summaries[v.item].effects)
  <2> DEFINE all == (W \o F) \o y.fields
             z == Entry(F, y)
  <2> HIDE DEF F, W
  <2>1. /\ y.fields \in Seq(Fields) /\ z.fields = F \o y.fields
        /\ Entry(W, z) = Entry(W \o F, y)
    BY <1>6, <1>7, EntryFacts
  <2>2. all = W \o (F \o y.fields) /\ F \o y.fields \in Seq(Fields)
    <3>1. F \o y.fields \in Seq(Fields)
      BY <1>7, <2>1, ConcatProperties
    <3>2. (W \o F) \o y.fields = W \o (F \o y.fields)
      <4>1. \A a1, b1, c1 \in Seq(Fields) : (a1 \o b1) \o c1 = a1 \o (b1 \o c1)
        BY ConcatAssociative
      <4> DEFINE Y == y.fields
      <4>2. Y \in Seq(Fields)
        BY <2>1
      <4> HIDE DEF Y
      <4>3. (W \o F) \o Y = W \o (F \o Y)
        BY <1>7, <4>1, <4>2, Zenon
      <4> QED BY <4>3 DEF Y
    <3> QED BY <3>1, <3>2
  <2>3. Within(all) /\ \A j \in 1..(m + 1) : TooManyTargets(SiteOf(v.calls[j].a)) => v.calls[j].whole = all
    <3>1. m + 1 # 0
      BY <1>1
    <3> HIDE DEF m
    <3> QED BY <1>18, <3>1 DEF Tellable
  <2> HIDE DEF all
  <2>4. MayFollow(SiteOf(a), F, y.fields)
    <3>1. Within(F \o y.fields)
      BY <1>7, <2>2, <2>3, WithinSuffix
    <3>2. ASSUME TooManyTargets(SiteOf(a)) PROVE y.fields = <<>>
      <4>1. m + 1 \in 1..(m + 1)
        BY <1>1
      <4>2. call.whole = all
        BY <1>8, <1>9, <2>3, <3>2, <4>1
      <4>3. \A s1, t1 \in Seq(Fields) : s1 \o t1 = s1 => t1 = <<>>
        BY ConcatEqualIffEmpty
      <4> DEFINE Y == y.fields
                 V == W \o F
      <4>4. Y \in Seq(Fields) /\ V \in Seq(Fields) /\ V \o Y = V
        BY <1>7, <1>8, <2>1, <4>2 DEF all
      <4> HIDE DEF Y, V
      <4>5. Y = <<>>
        BY <4>3, <4>4, Zenon
      <4> QED BY <4>5 DEF Y
    <3> QED BY <3>1, <3>2 DEF MayFollow
  <2>5. z \in AccessTypes(summaries[w.in].effects)
    BY <1>16, <2>4
  <2>6. Tellable(w, m, WholeAt(w, m) \o z.fields)
    <3>1. WholeAt(w, m) \o z.fields = all
      BY <1>12, <2>1, <2>2
    <3>3. \A j \in 1..m : j \in 1..(m + 1)
      BY <1>1
    <3>2. \A j \in 1..m : TooManyTargets(SiteOf(w.calls[j].a)) => w.calls[j].whole = all
      BY <1>9, <2>3, <3>3
    <3> HIDE DEF z
    <3> QED BY <2>3, <3>1, <3>2 DEF Tellable
  <2>7. Entry(W, z) \in AccessTypes(summaries[w.item].effects)
    BY <1>12, <1>17, <2>5, <2>6 DEF ToldAt
  <2> QED BY <1>2, <2>1, <2>7
<1>19. ASSUME summaries[c].array, W \o F = <<>>, Free(v, m + 1) PROVE summaries[v.item].array
  <2>1. W = <<>> /\ F = <<>>
    BY <1>7, <1>19, ConcatSimplifications
  <2>2. ~TooManyTargets(SiteOf(a)) /\ Free(w, m)
    BY <1>1, <1>8, <1>9, <1>19 DEF Free
  <2>3. summaries[w.in].array
    BY <1>16, <1>19, <2>1, <2>2
  <2> QED BY <1>2, <1>12, <1>17, <2>1, <2>2, <2>3 DEF ToldAt
<1>20. ToldAt(v, m + 1)
  BY <1>6, <1>13, <1>18, <1>19 DEF ToldAt
<1>21. \A k \in 0..Len(v.calls) : ToldAt(v, k) /\ (k # 0 => CalledAt(v, k))
  <2>1. \A k \in 0..Len(v.calls) : k \in 0..m \/ k = m + 1
    BY <1>1, <1>9
  <2> QED BY <1>11, <1>15, <1>20, <2>1
<1>22. \A k \in 1..Len(v.calls) : k \in 0..Len(v.calls) /\ k # 0
  BY <1>1, <1>9
<1> QED BY <1>2, <1>14, <1>21, <1>22 DEF Returning, OnItsWay

LEMMA BackFollowed ==
  ASSUME Typed, Settled, NEW w, WalkTyped(w), Followable(w), w.at.node # None, NEW v \in Back(w)
  PROVE  Followable(v)
<1> SUFFICES ASSUME Finished, ~reported, ~collided, ~v.twice PROVE Returning(v) /\ OnItsWay(v)
  BY DEF Followable
<1>1. prog \in Programs /\ w.of = None /\ w.at \in Paths /\ w.in \in Items(Functions) /\ Len(w.calls) \in Nat
      /\ w.calls \in Seq(Calls)
  BY WalkFacts DEF Typed
<1> DEFINE m == Len(w.calls)
           top == w.calls[m]
           F == Transfer(top.at).fields
           X == Transfer(w.at).fields
<1>2. /\ m \in Nat \ {0} /\ top \in Calls
      /\ v.item = w.item /\ v.calls = SubSeq(w.calls, 1, m - 1) /\ v.in = top.in /\ v.of = None /\ v.twice = w.twice
  BY BackTyped
<1>3. PICK r \in Returned(w.at) :
        /\ r = prog.sites[SiteOf(top.a)].ret /\ MayFollow(SiteOf(top.a), F, X)
        /\ v.at = [Start(r) EXCEPT !.fields = F \o X, !.kind = KindAfter(w.at)]
  BY BackTyped
<1>4. OnItsWay(w)
  BY <1>2 DEF Followable
<1>5. w.at \in tracked[w.in] /\ \A k \in 0..m : ToldAt(w, k) /\ (k # 0 => CalledAt(w, k))
  BY <1>1, <1>4 DEF OnItsWay
<1>6. /\ top.in \in Items(Functions) /\ top.at \in tracked[top.in] /\ top.a \in Passed(top.at)
      /\ w.in \in CalleeFormals(top.a, Position(top.a))
  <2>1. CalledAt(w, m) /\ Item(w, m) = w.in
    BY <1>2, <1>5 DEF Item
  <2> QED BY <2>1 DEF CalledAt
<1>7. w.in \in AllFormals
  <2>1. top.at \in Paths
    BY <1>2 DEF Calls
  <2> QED BY <1>1, <1>6, <2>1, NextFacts, CalleeFacts
<1> DEFINE x == [node |-> w.at.node, fields |-> X, kind |-> KindAfter(w.at)]
<1>8. x \in summaries[w.in].exits
  <2>1. PathsClosed(w.in, summaries, tracked[w.in], tracked[w.in])
    BY <1>1, AllClosed DEF Closed
  <2> QED BY <1>3, <1>5, <1>7, <2>1 DEF PathsClosed
<1>9. PathsBehind(top.at, top.a, w.in, summaries) \subseteq tracked[top.in]
  <2>1. PathsClosed(top.in, summaries, tracked[top.in], tracked[top.in])
    BY <1>6, AllClosed DEF Closed
  <2> QED BY <1>6, <2>1 DEF PathsClosed
<1>10. v.at \in tracked[v.in]
  <2>1. x.node = w.at.node /\ x.fields = X /\ x.kind = KindAfter(w.at)
    OBVIOUS
  <2>2. r \in Resumes(top.a, x.node)
    <3>1. PICK e \in prog.edges : e.from = w.at.node /\ Op(e.to) = "actualret" /\ r = e.to
      BY <1>3 DEF Returned, Followed
    <3> QED BY <1>3, <2>1, <3>1 DEF Resumes
  <2>3. v.at = [Start(r) EXCEPT !.fields = F \o x.fields, !.kind = x.kind] /\ MayFollow(SiteOf(top.a), F, x.fields)
    BY <1>3, <2>1
  <2> HIDE DEF x
  <2>4. v.at \in {[Start(s) EXCEPT !.fields = F \o x.fields, !.kind = x.kind] : s \in Resumes(top.a, x.node)}
    BY <2>2, <2>3
  <2>5. v.at \in PathsBehind(top.at, top.a, w.in, summaries)
    <3> HIDE DEF top
    <3> DEFINE E == {y \in summaries[w.in].exits : MayFollow(SiteOf(top.a), Transfer(top.at).fields, y.fields)}
               Q(y) == {[Start(s) EXCEPT !.fields = F \o y.fields, !.kind = y.kind] : s \in Resumes(top.a, y.node)}
    <3>1. x \in E /\ v.at \in Q(x)
      BY <1>8, <2>3, <2>4
    <3>2. PathsBehind(top.at, top.a, w.in, summaries) = UNION {Q(y) : y \in E}
      BY DEF PathsBehind
    <3> HIDE DEF E, Q
    <3> QED BY <3>1, <3>2
  <2> QED BY <1>2, <1>9, <2>5
<1>11. Len(v.calls) = m - 1 /\ \A j \in 1..(m - 1) : v.calls[j] = w.calls[j]
  BY <1>1, <1>2
<1>12. \A k \in 0..(m - 1) : Item(v, k) = Item(w, k)
  <2> SUFFICES ASSUME NEW k \in 0..(m - 1) PROVE Item(v, k) = Item(w, k)
    OBVIOUS
  <2>1. CASE k = m - 1
    BY <1>2, <1>11, <2>1 DEF Item
  <2>2. CASE k # m - 1
    <3>1. k + 1 \in 1..(m - 1) /\ k # m
      BY <1>2, <2>2
    <3> QED BY <1>11, <2>2, <3>1 DEF Item
  <2> QED BY <2>1, <2>2
<1>13. \A k \in 0..(m - 1) : ToldAt(v, k) /\ (k # 0 => CalledAt(v, k))
  <2>1. m - 1 \in Nat /\ \A k \in 0..(m - 1) : k \in 0..m
    BY <1>2
  <2> HIDE DEF m
  <2> QED BY <1>2, <1>5, <1>11, <1>12, <2>1, SameLevels
<1>14. \A k \in 1..Len(v.calls) : k \in 0..(m - 1) /\ k # 0
  BY <1>2, <1>11
<1> QED BY <1>2, <1>10, <1>11, <1>13, <1>14 DEF Returning, OnItsWay
LEMMA MoveFollowed ==
  ASSUME Typed, Settled, NEW w, NEW v \in Moves(w), WalkTyped(w) /\ Followable(w)
  PROVE  WalkTyped(v) /\ Followable(v)
<1>1. CASE w.at.node = None
  <2>1. v \in Origins(w)
    BY <1>1 DEF Moves
  <2> QED BY <1>1, <2>1, OriginsTyped, OriginsFollowed
<1>2. CASE w.at.node # None
  <2>1. v \in Along(w) \/ v \in Into(w) \/ v \in Back(w)
    BY <1>2 DEF Moves
  <2>2. CASE v \in Along(w)
    BY <1>2, <2>2, AlongTyped, AlongFollowed
  <2>3. CASE v \in Into(w)
    BY <1>2, <2>3, IntoTyped, IntoFollowed
  <2>4. CASE v \in Back(w)
    BY <1>2, <2>4, BackTyped, BackFollowed
  <2> QED BY <2>1, <2>2, <2>3, <2>4
<1> QED BY <1>1, <1>2

LEMMA SameWalks ==
  ASSUME prog' = prog, scc' = scc, summaries' = summaries, tracked' = tracked, reported' = reported,
         collided' = collided
  PROVE  \A w : WalkTyped(w)' = WalkTyped(w) /\ Followable(w)' = Followable(w)
<1>1. Functions' = Functions /\ Paths' = Paths /\ Nodes' = Nodes /\ Items(Functions)' = Items(Functions)
  BY SameNodes DEF Items
<1>2. Seq(Fields)' = Seq(Fields)
  BY DEF Fields
<1>3. Calls' = Calls
  BY <1>1, <1>2 DEF Calls
<1>4. Walks' = Walks
  BY <1>1, <1>3 DEF Walks
<1>5. \A w : WalkTyped(w)' = WalkTyped(w)
  BY <1>1, <1>4 DEF WalkTyped
<1>6. \A w, k : Free(w, k)' = Free(w, k) /\ \A fields : Tellable(w, k, fields)' = Tellable(w, k, fields)
  BY SameNodes DEF Free, Tellable
<1>7. \A w, k : ToldAt(w, k)' = ToldAt(w, k)
  BY <1>1, <1>6 DEF ToldAt
<1>8. \A w, k : CalledAt(w, k)' = CalledAt(w, k)
  <2> SUFFICES ASSUME NEW w, NEW k PROVE CalledAt(w, k)' = CalledAt(w, k)
    OBVIOUS
  <2> DEFINE c == w.calls[k]
  <2>1. /\ Passed(c.at)' = Passed(c.at) /\ Transfer(c.at)' = Transfer(c.at)
        /\ CalleeFormals(c.a, Position(c.a))' = CalleeFormals(c.a, Position(c.a))
        /\ tracked'[c.in] = tracked[c.in]
    BY SamePaths
  <2> QED BY <1>1, <2>1 DEF CalledAt, Item, WholeAt
<1>9. \A w : Returning(w)' = Returning(w) /\ OnItsWay(w)' = OnItsWay(w)
  BY <1>7, <1>8 DEF Returning, OnItsWay
<1>10. \A w : Followable(w)' = Followable(w)
  BY <1>9 DEF Followable, Finished
<1> QED BY <1>5, <1>10

LEMMA WalkingStep == Typed /\ Settled /\ Walking /\ [Next]_vars => Walking'
<1> SUFFICES ASSUME Typed, Settled, Walking, [Next]_vars PROVE Walking'
  OBVIOUS
<1>1. CASE Analyse
  <2>1. walk = NoWalk
    BY <1>1, AnalyseOff DEF Walking
  <2>2. walk' = walk
    BY <1>1 DEF Analyse, StartItem, NextSource, Drop, Track, EndItem, NextRound, NextScc
  <2> QED BY <2>1, <2>2 DEF Walking, NoWalk, Start
<1>2. CASE Move
  <2>1. /\ prog' = prog /\ scc' = scc /\ summaries' = summaries /\ tracked' = tracked /\ reported' = reported
        /\ collided' = collided /\ Finished
    BY <1>2 DEF Move, progress, history
  <2>2. WalkTyped(walk') /\ Followable(walk')
    <3>1. CASE walk = NoWalk /\ \E i \in Items(Functions) : walk' = FirstSteps(i)
      BY <3>1, FirstTyped, FirstFollowed
    <3>2. CASE walk' \in Moves(walk)
      <4>1. walk # NoWalk
        <5> SUFFICES ASSUME walk = NoWalk PROVE FALSE
          OBVIOUS
        <5>1. walk.at.node = None /\ walk.of = None
          BY DEF NoWalk, Start
        <5> QED BY <3>2, <5>1 DEF Moves, Origins
      <4>2. WalkTyped(walk) /\ Followable(walk)
        BY <4>1 DEF Walking
      <4> DEFINE v == walk'
      <4>3. v \in Moves(walk)
        BY <3>2
      <4> HIDE DEF v
      <4>4. WalkTyped(v) /\ Followable(v)
        BY <4>2, <4>3, MoveFollowed
      <4> QED BY <4>4 DEF v
    <3> QED BY <1>2, <3>1, <3>2 DEF Move
  <2>3. Finished'
    BY <2>1 DEF Finished
  <2>4. WalkTyped(walk)' /\ Followable(walk)'
    BY <2>1, <2>2, SameWalks
  <2> QED BY <2>3, <2>4 DEF Walking
<1>3. CASE Explore \/ UNCHANGED vars
  <2>1. /\ prog' = prog /\ scc' = scc /\ summaries' = summaries /\ tracked' = tracked /\ reported' = reported
        /\ collided' = collided /\ walk' = walk
    BY <1>3 DEF Explore, FollowAll, GoOn, vars, progress, history
  <2>2. Finished' = Finished /\ NoWalk' = NoWalk
    BY <2>1 DEF Finished, NoWalk, Start
  <2>3. WalkTyped(walk)' = WalkTyped(walk) /\ Followable(walk)' = Followable(walk)
    BY <2>1, SameWalks
  <2> QED BY <2>1, <2>2, <2>3 DEF Walking
<1> QED BY <1>1, <1>2, <1>3 DEF Next, Analysis
-----------------------------------------------------------------------------
(* Theorems. *)

LEMMA InitInv == Init => IInv
<1> SUFFICES ASSUME Init PROVE IInv
  OBVIOUS
<1>1. Typed
  BY InitTyped
<1>2. Growing
  BY DEF Init, Growing
<1>3. scc = 1 /\ Len(prog.sccs) \in Nat \ {0} /\ prog \in Programs
  BY SccFacts DEF Init
<1>4. Before = {} /\ Walked = {}
  <2>1. Component = prog.sccs[1] /\ 1..(scc - 1) = {}
    BY <1>3 DEF Component, Finished
  <2>2. Walked = {}
    BY <2>1 DEF Init, Walked
  <2>3. Before = {}
    BY <2>1 DEF Before, Items
  <2> QED BY <2>2, <2>3
<1>5. Settled
  BY <1>4 DEF Init, Settled
<1>6. Walking
  BY DEF Init, Walking
<1> QED BY <1>1, <1>2, <1>5, <1>6 DEF IInv

LEMMA StepInv == IInv /\ [Next]_vars => IInv'
BY TypedStep, GrowingStep, SettledStep, WalkingStep DEF IInv

\* The types of the analysis, the walk of each item up to now, and the summaries that are closed: on the paths that
\* were taken, and under the summaries they use (summarize_from, summarize_return, process_scc).
THEOREM Inductive == Spec => []IInv
BY InitInv, StepInv, PTL DEF Spec

LEMMA CoveredInv == IInv => Covered
<1> SUFFICES ASSUME Typed, Settled, Walking, Finished, ~reported, ~collided, walk # NoWalk, ~PassedTwice(walk),
                    walk.at.node # None
             PROVE  /\ \A t \in Done(walk) : Told(walk, t.fields) =>
                         [fields |-> t.fields, kind |-> t.kind] \in AccessTypes(summaries[walk.item].effects)
                    /\ IsArrayAccess(walk.at) /\ Whole(walk) = <<>>
                         /\ (\A k \in DOMAIN walk.calls : ~TooManyTargets(SiteOf(walk.calls[k].a)))
                       => summaries[walk.item].array
  BY DEF IInv, Covered, Done
<1> DEFINE w == walk
           m == Len(w.calls)
           W == Whole(w)
           f == w.at.fields
<1>1. WalkTyped(w) /\ Followable(w) /\ ~w.twice /\ AtAny(w.at) = AtFirst(w.at)
  BY DEF Walking, PassedTwice
<1>2. prog \in Programs /\ w.of = None /\ w.at \in Paths /\ w.in \in Items(Functions) /\ m \in Nat
      /\ w.calls \in Seq(Calls) /\ W \in Seq(Fields)
  BY <1>1, WalkFacts DEF Typed
<1>3. w.at \in tracked[w.in] /\ ToldAt(w, m)
  BY <1>1, <1>2 DEF Followable, OnItsWay
<1>4. WholeAt(w, m) = W /\ Item(w, m) = w.in /\ DOMAIN w.calls = 1..m
  <2>1. CASE m = 0
    <3>1. w.calls = <<>>
      BY <1>2, <2>1, EmptySeq
    <3> QED BY <2>1, <3>1 DEF WholeAt, Whole, Item
  <2>2. CASE m # 0
    <3>1. w.calls # <<>>
      BY <2>2
    <3> QED BY <1>2, <2>2, <3>1 DEF WholeAt, Whole, Last, Item
  <2> QED BY <2>1, <2>2
<1>5. /\ \A x \in Touched(w.at, AtFirst(w.at)) : Entry(f, x) \in AccessTypes(summaries[w.in].effects)
      /\ IsArrayAccess(w.at) => summaries[w.in].array
  <2>1. PathsClosed(w.in, summaries, tracked[w.in], tracked[w.in])
    BY <1>2, AllClosed DEF Closed
  <2> QED BY <1>3, <2>1 DEF PathsClosed
<1>6. f \in Seq(Fields)
  BY <1>2, TransferFacts
<1>7. ASSUME NEW t \in Done(w), Told(w, t.fields)
      PROVE  [fields |-> t.fields, kind |-> t.kind] \in AccessTypes(summaries[w.item].effects)
  <2>1. PICK x \in Touched(w.at, AtFirst(w.at)) : t = [x EXCEPT !.fields = (W \o f) \o x.fields]
    BY <1>1 DEF Done, Behind
  <2>2. x \in Effects
    BY <1>2, <2>1, TouchedFacts
  <2> HIDE DEF w, W, f, m
  <2>3. t.fields = (W \o f) \o x.fields /\ t.kind = x.kind /\ x.fields \in Seq(Fields)
    BY <2>1, <2>2 DEF Effects
  <2> DEFINE y == Entry(f, x)
  <2>4. y \in AccessTypes(summaries[w.in].effects) /\ y.fields = f \o x.fields /\ y.kind = x.kind
    BY <1>5, <2>1 DEF Entry
  <2>5. W \o y.fields = t.fields
    <3> DEFINE X == x.fields
    <3>1. X \in Seq(Fields) /\ y.fields = f \o X /\ t.fields = (W \o f) \o X
      BY <2>3, <2>4
    <3>2. \A a1, b1, c1 \in Seq(Fields) : (a1 \o b1) \o c1 = a1 \o (b1 \o c1)
      BY ConcatAssociative
    <3> HIDE DEF X, y
    <3>3. (W \o f) \o X = W \o (f \o X)
      BY <1>2, <1>6, <3>1, <3>2, Zenon
    <3> QED BY <3>1, <3>3
  <2> HIDE DEF y
  <2>6. Tellable(w, m, W \o y.fields)
    <3>1. m # 0 => w.calls # <<>>
      BY DEF m
    <3> QED BY <1>4, <1>7, <2>5, <3>1 DEF Tellable, Told
  <2>7. Entry(W, y) \in AccessTypes(summaries[w.item].effects)
    BY <1>3, <1>4, <2>4, <2>6 DEF ToldAt
  <2>8. Entry(W, y) = [fields |-> t.fields, kind |-> t.kind]
    BY <2>3, <2>4, <2>5 DEF Entry
  <2> QED BY <2>7, <2>8
<1>8. ASSUME IsArrayAccess(w.at), W = <<>>, \A k \in DOMAIN w.calls : ~TooManyTargets(SiteOf(w.calls[k].a))
      PROVE  summaries[w.item].array
  BY <1>3, <1>4, <1>5, <1>8 DEF ToldAt, Free
<1> QED BY <1>7, <1>8

\* Unless a component was cut off with the warning, nothing that happens to a value on its way through the program,
\* into calls and back, is missing in the summary of where it began: for any program, any depth of calls, and any
\* bounds (summarize_from, summarize_return, process_scc, merge_summary).
THEOREM SummariesComplete == Spec => []Covered
BY Inductive, CoveredInv, PTL
-----------------------------------------------------------------------------
(* Nothing that does not happen is told. *)

\* Places in the functions below an item, as opposed to those of a returned pointer.
Places == [of : {None}, whole : Seq(Fields), in : Items(Functions), at : Paths]

Came(i, q) == [of |-> None, whole |-> <<>>, in |-> i, at |-> q]

\* A set that holds all places that the value of i can come to, and more maybe.
ClosedFrom(i, S) == Outset(i) \in S /\ Further(S) \subseteq S

\* What a summary tells really happens: in each such set there is a place where it does.
Genuine(i, s) ==
  \A S : ClosedFrom(i, S) =>
    /\ AccessTypes(s.effects) \subseteq AccessTypes(UNION {DoneAt(v) : v \in S})
    /\ s.array => \E v \in S : v.of = None /\ v.whole = <<>> /\ IsArrayAccess(v.at)
    /\ i \in AllFormals => \A x \in s.exits :
         \E q : /\ Came(i, q) \in S /\ x.node = q.node /\ Returned(q) # {}
                /\ x.fields = Transfer(q).fields /\ x.kind = KindAfter(q)

\* The value of i comes to this path of its function.
Comes(i, q) == \A S : ClosedFrom(i, S) => Came(i, q) \in S

AllGenuine ==
  /\ \A i \in Items(Functions) : Genuine(i, summaries[i])
  /\ \A f \in prog.returns : summaries[f].params \subseteq ReturnedParams[f]
  /\ \A p \in worklist : Comes(cur, p)
  /\ whom # None => whom \in Items(Functions) /\ Outset(whom) \in places
-----------------------------------------------------------------------------
LEMMA WithinPrefix ==
  ASSUME NEW a \in Seq(Fields), NEW b \in Seq(Fields), Within(a \o b)
  PROVE  Within(a)
<1>1. Len(a \o b) = Len(a) + Len(b) /\ Len(a) \in Nat /\ Len(b) \in Nat /\ DOMAIN a = 1..Len(a)
      /\ DOMAIN (a \o b) = 1..(Len(a) + Len(b))
  OBVIOUS
<1>2. \A j \in DOMAIN a : j \in DOMAIN (a \o b) /\ (a \o b)[j] = a[j]
  BY <1>1
<1>3. MAX_FIELD_DEPTH \in Nat
  BY ProgramsAssumption DEF ProgramsAssumption
<1>4. Len(a) <= MAX_FIELD_DEPTH
  BY <1>1, <1>3 DEF Within
<1> QED BY <1>2, <1>4 DEF Within

\* What a step that goes further leads to.
LEMMA FurtherIs ==
  ASSUME NEW S, NEW u
  PROVE  u \in Further(S) <=>
           \/ \E v \in S : v.of # None /\ u \in Origins(v)
           \/ \E v \in S : v.of = None /\ u \in Along(v) \cup Entering(v)
           \/ \E v \in S : \E w \in S : /\ v.of = None /\ w.of = None /\ w.whole = PassedFields(v)
                                        /\ u \in Leaving(w, v)
<1> DEFINE on == {v \in S : v.of = None}
           calls == {v \in on : Passed(v.at) # {}}
           ends == {w \in on : Returned(w.at) # {}}
           L(v) == UNION {Leaving(w, v) : w \in {x \in ends : x.whole = PassedFields(v)}}
           O == UNION {Origins(v) : v \in S \ on}
           A == UNION {Along(v) : v \in on}
           N == UNION {Entering(v) : v \in calls}
           B == UNION {L(v) : v \in calls}
<1>1. Further(S) = O \cup A \cup N \cup B
  BY DEF Further
<1>2. ASSUME NEW v, Passed(v.at) = {} PROVE Entering(v) = {} /\ \A w : Leaving(w, v) = {}
  <2>1. AtAny(v.at) = {}
    BY <1>2 DEF AtAny
  <2> QED BY <2>1 DEF Entering, Leaving
<1>3. ASSUME NEW w, Returned(w.at) = {} PROVE \A v : Leaving(w, v) = {}
  BY <1>3 DEF Leaving
<1>4. u \in B <=>
        \E v \in on : \E w \in on : w.whole = PassedFields(v) /\ u \in Leaving(w, v)
  <2>1. \A v : u \in L(v) <=> \E w \in ends : w.whole = PassedFields(v) /\ u \in Leaving(w, v)
    OBVIOUS
  <2> HIDE DEF L
  <2> QED BY <1>2, <1>3, <2>1
<1>5. u \in N <=> \E v \in on : u \in Entering(v)
  BY <1>2
<1>6. u \in O <=> \E v \in S : v.of # None /\ u \in Origins(v)
  OBVIOUS
<1>7. u \in A <=> \E v \in on : u \in Along(v)
  OBVIOUS
<1>8. \A v : v \in on <=> v \in S /\ v.of = None
  OBVIOUS
<1> HIDE DEF O, A, N, B, on, calls
<1>9. u \in Further(S) <=> u \in O \/ u \in A \/ u \in N \/ u \in B
  BY <1>1
<1> QED BY <1>4, <1>5, <1>6, <1>7, <1>8, <1>9

\* The path after a step begins with the fields of the path before it.
LEMMA NextFields ==
  ASSUME prog \in Programs, NEW p \in Paths, NEW q \in Next3(p)
  PROVE  q.fields = Transfer(p).fields
<1>1. PICK e \in Followed(p) : q = [Transfer(p) EXCEPT !.node = e.to, !.via = e.via,
                                      !.mem = IF Op(e.to) = "load" THEN None ELSE Transfer(p).mem]
  BY DEF Next3
<1>2. Transfer(p) \in Paths
  BY TransferFacts
<1> QED BY <1>1, <1>2 DEF Paths

\* The first position that a value is passed at is one.
LEMMA PositionFacts ==
  ASSUME prog \in Programs, NEW a \in Nodes, Op(a) = "actual"
  PROVE  Position(a) \in Positions(a)
<1>1. CallSites(prog)
  BY ProgramsAssumption DEF ProgramsAssumption
<1>2. a \in DOMAIN prog.actual
  BY <1>1 DEF CallSites, Op, Nodes
<1>3. Positions(a) # {} /\ Positions(a) \subseteq Nat
  BY <1>1, <1>2 DEF CallSites, Positions, SiteOf
<1>4. PICK k \in Positions(a) : \A j \in Positions(a) : ~(<<j, k>> \in OpToRel(<, Nat))
  BY <1>3, NatLessThanWellFounded, WFMin
<1>5. \A j \in Positions(a) : ~(j < k)
  BY <1>3, <1>4 DEF OpToRel
<1>6. \A j \in Positions(a) : k <= j
  BY <1>3, <1>5
<1> QED BY <1>6 DEF Position

LEMMA TouchedAny ==
  ASSUME prog \in Programs, NEW p \in Paths
  PROVE  /\ Touched(p, AtFirst(p)) \subseteq Touched(p, AtAny(p))
         /\ \A x \in Touched(p, AtAny(p)) : x \in Effects
<1>1. AtFirst(p) \subseteq AtAny(p)
  <2> SUFFICES ASSUME NEW a \in Passed(p) PROVE <<a, Position(a)>> \in AtAny(p)
    BY DEF AtFirst
  <2>1. Position(a) \in Positions(a)
    BY NextFacts, PositionFacts
  <2> QED BY <2>1 DEF AtAny
<1>2. ASSUME NEW a \in Passed(p), NEW n, NEW x \in Handled(p, a, n)
      PROVE  x \in Effects
  <2> DEFINE H(f) == {y \in prog.handlers[f] : y.pos = n /\ (y.whole => Transfer(p).fields = <<>>)}
             G(f) == {[fields |-> FieldOf(p.node), kind |-> h.kind, node |-> SiteOf(a)] : h \in H(f)}
  <2>1. x \in UNION {G(f) : f \in callee_targets(SiteOf(a)) \cap DOMAIN prog.handlers}
    BY DEF Handled
  <2>2. PICK f \in DOMAIN prog.handlers : x \in G(f)
    BY <2>1
  <2>3. PICK h \in prog.handlers[f] : x = [fields |-> FieldOf(p.node), kind |-> h.kind, node |-> SiteOf(a)]
    BY <2>2
  <2>4. h.kind \in Kinds
    BY <2>2 DEF Kinds
  <2>5. FieldOf(p.node) \in Seq(Fields) /\ SiteOf(a) \in DOMAIN prog.sites
    BY NextFacts, CallFacts, TransferFacts
  <2> QED BY <2>3, <2>4, <2>5 DEF Effects
<1>3. \A x \in Accesses(p) : x \in Effects
  BY TouchedFacts
<1>4. ASSUME NEW x \in Touched(p, AtAny(p)) PROVE x \in Effects
  <2>1. CASE x \in Accesses(p)
    BY <1>3, <2>1
  <2>2. CASE x \notin Accesses(p)
    <3>1. PICK y \in AtAny(p) : x \in Handled(p, y[1], y[2])
      BY <2>2 DEF Touched
    <3>2. y[1] \in Passed(p)
      BY <3>1 DEF AtAny
    <3> QED BY <1>2, <3>1, <3>2
  <2> QED BY <2>1, <2>2
<1>5. Touched(p, AtFirst(p)) \subseteq Touched(p, AtAny(p))
  BY <1>1 DEF Touched
<1> QED BY <1>4, <1>5
-----------------------------------------------------------------------------
(* A value inside a call that it was passed to. *)

\* A place as seen from a caller, where the value had these fields before.
Inside(F, v) == [of |-> None, whole |-> F \o v.whole, in |-> v.in, at |-> v.at]

LEMMA PlaceFacts ==
  ASSUME NEW v \in Places
  PROVE  /\ v = [of |-> None, whole |-> v.whole, in |-> v.in, at |-> v.at]
         /\ v.of = None /\ v.whole \in Seq(Fields) /\ v.in \in Items(Functions) /\ v.at \in Paths
BY DEF Places

LEMMA FieldsJoin == \A a1, b1 \in Seq(Fields) : a1 \o b1 \in Seq(Fields)
BY ConcatProperties

Associative(a) == \A b1, c1 \in Seq(Fields) : (a \o b1) \o c1 = a \o (b1 \o c1)

LEMMA FieldsAssociative == \A a1 \in Seq(Fields) : Associative(a1)
<1>1. \A a1, b1, c1 \in Seq(Fields) : (a1 \o b1) \o c1 = a1 \o (b1 \o c1)
  BY ConcatAssociative
<1> QED BY <1>1 DEF Associative

\* What joining the fields of a value at several places gives.
Linked(F, W, A, G, X) ==
  /\ A \o G \in Seq(Fields) /\ W \o (A \o G) \in Seq(Fields) /\ F \o (W \o (A \o G)) \in Seq(Fields)
  /\ W \o A \in Seq(Fields) /\ F \o (W \o A) \in Seq(Fields)
  /\ (F \o W) \o (A \o G) = F \o (W \o (A \o G))
  /\ W \o ((A \o G) \o X) = (W \o (A \o G)) \o X
  /\ F \o (W \o ((A \o G) \o X)) = (F \o (W \o (A \o G))) \o X
  /\ F \o (W \o (A \o G)) = (F \o (W \o A)) \o G

LEMMA Chains ==
  ASSUME NEW F \in Seq(Fields), NEW W \in Seq(Fields), NEW A \in Seq(Fields), NEW G \in Seq(Fields), NEW X \in Seq(Fields)
  PROVE  Linked(F, W, A, G, X)
<1>1. A \o G \in Seq(Fields) /\ W \o A \in Seq(Fields)
  BY FieldsJoin, Zenon
<1>2. Associative(F) /\ Associative(W)
  BY FieldsAssociative, Zenon
<1>3. W \o (A \o G) \in Seq(Fields)
  BY <1>1, FieldsJoin, Zenon
<1>4. W \o (A \o G) = (W \o A) \o G
  BY <1>2, Zenon DEF Associative
<1> DEFINE T == A \o G
           P == W \o T
           Q == W \o A
<1> HIDE DEF T, P, Q
<1>5. T \in Seq(Fields) /\ P \in Seq(Fields) /\ Q \in Seq(Fields)
  BY <1>1, <1>3 DEF T, P, Q
<1>6. (F \o W) \o T = F \o (W \o T)
  BY <1>2, <1>5, Zenon DEF Associative
<1>7. W \o (T \o X) = (W \o T) \o X
  BY <1>2, <1>5, Zenon DEF Associative
<1>8. F \o (Q \o G) = (F \o Q) \o G
  BY <1>2, <1>5, Zenon DEF Associative
<1>9. F \o (P \o X) = (F \o P) \o X
  BY <1>2, <1>5, Zenon DEF Associative
<1>10. F \o P \in Seq(Fields) /\ F \o Q \in Seq(Fields)
  BY <1>5, FieldsJoin, Zenon
<1> QED BY <1>1, <1>3, <1>4, <1>6, <1>7, <1>8, <1>9, <1>10, Zenon DEF T, P, Q, Linked

\* What the value has when it is passed on contains what it had before.
LEMMA FieldsFacts ==
  ASSUME prog \in Programs, NEW F \in Seq(Fields), NEW v \in Places
  PROVE  /\ PassedFields(v) \in Seq(Fields) /\ PassedFields(v) = v.whole \o Transfer(v.at).fields
         /\ PassedFields(Inside(F, v)) = F \o PassedFields(v)
         /\ F \o PassedFields(v) \in Seq(Fields) /\ F \o (v.whole \o v.at.fields) \in Seq(Fields)
         /\ Within(F \o PassedFields(v)) => Within(F \o (v.whole \o v.at.fields))
         /\ \A x \in Seq(Fields) :
              /\ F \o (v.whole \o (Transfer(v.at).fields \o x)) = (F \o PassedFields(v)) \o x
              /\ Within(F \o (v.whole \o (Transfer(v.at).fields \o x))) => Within(F \o PassedFields(v))
<1> DEFINE T == Transfer(v.at).fields
           W == v.whole
           A == v.at.fields
           G == FieldOf(v.at.node)
           P == PassedFields(v)
<1>1. W \in Seq(Fields) /\ v.at \in Paths
  BY PlaceFacts
<1>2. T \in Seq(Fields) /\ A \in Seq(Fields) /\ G \in Seq(Fields) /\ T = A \o G
  BY <1>1, TransferFacts
<1>3. P = W \o T
  BY DEF PassedFields
<1>4. PassedFields(Inside(F, v)) = (F \o W) \o T
  BY DEF PassedFields, Inside
<1> HIDE DEF T, W, A, G, P
<1>5. ASSUME NEW x \in Seq(Fields)
       PROVE  /\ W \o T \in Seq(Fields) /\ F \o (W \o T) \in Seq(Fields) /\ F \o (W \o A) \in Seq(Fields)
              /\ (F \o W) \o T = F \o (W \o T)
              /\ F \o (W \o (T \o x)) = (F \o (W \o T)) \o x
              /\ F \o (W \o T) = (F \o (W \o A)) \o G
  <2>1. W \in Seq(Fields)
    BY <1>1
  <2>2. Linked(F, W, A, G, x)
    BY <1>2, <2>1, Chains, Zenon
  <2> QED BY <1>2, <2>2, Zenon DEF Linked
<1>6. /\ P \in Seq(Fields) /\ F \o P \in Seq(Fields) /\ F \o (W \o A) \in Seq(Fields)
      /\ (F \o W) \o T = F \o P /\ F \o P = (F \o (W \o A)) \o G
  BY <1>2, <1>3, <1>5, Zenon
<1>7. \A x \in Seq(Fields) : F \o (W \o (T \o x)) = (F \o P) \o x
  BY <1>3, <1>5, Zenon
<1>8. \A x \in Seq(Fields) : Within((F \o P) \o x) => Within(F \o P)
  <2> TAKE x \in Seq(Fields)
  <2> QED BY <1>6, WithinPrefix
<1>9. Within((F \o (W \o A)) \o G) => Within(F \o (W \o A))
  BY <1>2, <1>6, WithinPrefix
<1>10. \A x \in Seq(Fields) :
        F \o (W \o (T \o x)) = (F \o P) \o x /\ (Within(F \o (W \o (T \o x))) => Within(F \o P))
  BY <1>7, <1>8, Zenon
<1>11. Within(F \o P) => Within(F \o (W \o A))
  BY <1>6, <1>9, Zenon
<1> QED BY <1>3, <1>4, <1>6, <1>10, <1>11, Zenon DEF T, W, A, P

\* The path on which a value comes back.
LeftAt(u, v, w, r, a, n, at) ==
  /\ w.in \in CalleeFormals(a, n) /\ r = prog.sites[SiteOf(a)].ret
  /\ MayFollow(SiteOf(a), Transfer(v.at).fields, Transfer(w.at).fields)
  /\ at = [Start(r) EXCEPT !.fields = Transfer(v.at).fields \o Transfer(w.at).fields, !.kind = KindAfter(w.at)]
  /\ at.fields = Transfer(v.at).fields \o Transfer(w.at).fields
  /\ u = [of |-> None, whole |-> v.whole, in |-> v.in, at |-> at] /\ u \in Places

LEMMA LeavingFacts ==
  ASSUME prog \in Programs, NEW v \in Places, NEW w \in Places, NEW u \in Leaving(w, v)
  PROVE  \E r \in Returned(w.at) : \E a \in Passed(v.at) : \E n \in Positions(a) : \E at \in Paths :
           LeftAt(u, v, w, r, a, n, at)
<1> DEFINE at(r) == [Start(r) EXCEPT !.fields = Transfer(v.at).fields \o Transfer(w.at).fields, !.kind = KindAfter(w.at)]
<1>1. PICK r \in Returned(w.at) :
        /\ u = [v EXCEPT !.at = at(r)]
        /\ \E x \in AtAny(v.at) :
              /\ w.in \in CalleeFormals(x[1], x[2]) /\ r = prog.sites[SiteOf(x[1])].ret
              /\ MayFollow(SiteOf(x[1]), Transfer(v.at).fields, Transfer(w.at).fields)
  BY DEF Leaving
<1>2. PICK a \in Passed(v.at) : \E n \in Positions(a) :
        /\ w.in \in CalleeFormals(a, n) /\ r = prog.sites[SiteOf(a)].ret
        /\ MayFollow(SiteOf(a), Transfer(v.at).fields, Transfer(w.at).fields)
  BY <1>1 DEF AtAny
<1>3. v.at \in Paths /\ w.at \in Paths
  BY PlaceFacts
<1>4. at(r) \in Paths /\ at(r).fields = Transfer(v.at).fields \o Transfer(w.at).fields
  <2>1. r \in Nodes
    BY <1>3, EdgeFacts DEF Returned, Followed
  <2>2. Transfer(v.at).fields \in Seq(Fields) /\ Transfer(w.at).fields \in Seq(Fields) /\ KindAfter(w.at) \in Kinds
    BY <1>3, TransferFacts
  <2> DEFINE both == Transfer(v.at).fields \o Transfer(w.at).fields
             kind == KindAfter(w.at)
  <2>3. both \in Seq(Fields) /\ kind \in Kinds
    BY <2>2, ConcatProperties
  <2>4. at(r) = [Start(r) EXCEPT !.fields = both, !.kind = kind]
    OBVIOUS
  <2>5. Start(r) \in Paths
    BY <2>1, StartFacts
  <2> HIDE DEF both, kind, at
  <2>6. at(r) \in Paths /\ at(r).fields = both
    BY <2>3, <2>4, <2>5 DEF Paths
  <2> QED BY <2>6 DEF both
<1> DEFINE q == at(r)
<1>5. u = [v EXCEPT !.at = q] /\ q \in Paths
      /\ q = [Start(r) EXCEPT !.fields = Transfer(v.at).fields \o Transfer(w.at).fields, !.kind = KindAfter(w.at)]
      /\ q.fields = Transfer(v.at).fields \o Transfer(w.at).fields
  BY <1>1, <1>4
<1> HIDE DEF q, at
<1>6. u = [of |-> None, whole |-> v.whole, in |-> v.in, at |-> q]
  BY <1>5, PlaceFacts
<1>7. u \in Places
  BY <1>5, <1>6, PlaceFacts DEF Places
<1> QED BY <1>2, <1>5, <1>6, <1>7 DEF LeftAt

LEMMA LeavingIntro ==
  ASSUME NEW v, NEW w, NEW r \in Returned(w.at), NEW a \in Passed(v.at), NEW n \in Positions(a),
         w.in \in CalleeFormals(a, n), r = prog.sites[SiteOf(a)].ret,
         MayFollow(SiteOf(a), Transfer(v.at).fields, Transfer(w.at).fields)
  PROVE  [v EXCEPT !.at = [Start(r) EXCEPT !.fields = Transfer(v.at).fields \o Transfer(w.at).fields,
                                           !.kind = KindAfter(w.at)]] \in Leaving(w, v)
<1>1. <<a, n>> \in AtAny(v.at)
  BY DEF AtAny
<1>2. \E x \in AtAny(v.at) :
        /\ w.in \in CalleeFormals(x[1], x[2]) /\ r = prog.sites[SiteOf(x[1])].ret
        /\ MayFollow(SiteOf(x[1]), Transfer(v.at).fields, Transfer(w.at).fields)
  BY <1>1
<1> QED BY <1>2 DEF Leaving

\* Steps out of places.
LEMMA EnteringIntro ==
  ASSUME NEW v, NEW a \in Passed(v.at), NEW n \in Positions(a), NEW c \in CalleeFormals(a, n), Within(PassedFields(v))
  PROVE  [of |-> None, whole |-> PassedFields(v), in |-> c, at |-> Start(c)] \in Entering(v)
<1> DEFINE X == {y \in AtAny(v.at) : Within(PassedFields(v))}
           E(x) == {[of |-> None, whole |-> PassedFields(v), in |-> d, at |-> Start(d)] : d \in CalleeFormals(x[1], x[2])}
           z == [of |-> None, whole |-> PassedFields(v), in |-> c, at |-> Start(c)]
<1>1. <<a, n>> \in X
  BY DEF AtAny
<1>2. z \in E(<<a, n>>)
  OBVIOUS
<1>3. Entering(v) = UNION {E(x) : x \in X}
  BY DEF Entering
<1> HIDE DEF X, E, z
<1>4. z \in Entering(v)
  BY <1>1, <1>2, <1>3
<1> QED BY <1>4 DEF z

LEMMA EnteringFacts ==
  ASSUME prog \in Programs, NEW v \in Places, NEW u \in Entering(v)
  PROVE  \E a \in Passed(v.at) : \E n \in Positions(a) : \E c \in CalleeFormals(a, n) :
           /\ u = [of |-> None, whole |-> PassedFields(v), in |-> c, at |-> Start(c)] /\ u \in Places
           /\ Start(c).fields = <<>> /\ Within(PassedFields(v))
<1>1. PICK x \in AtAny(v.at) : /\ Within(PassedFields(v))
                               /\ \E c \in CalleeFormals(x[1], x[2]) :
                                     u = [of |-> None, whole |-> PassedFields(v), in |-> c, at |-> Start(c)]
  BY DEF Entering
<1>2. PICK a \in Passed(v.at) : \E n \in Positions(a) : x = <<a, n>>
  BY DEF AtAny
<1>3. PICK n \in Positions(a) : x = <<a, n>>
  BY <1>2
<1>4. PICK c \in CalleeFormals(a, n) : u = [of |-> None, whole |-> PassedFields(v), in |-> c, at |-> Start(c)]
  BY <1>1, <1>3
<1>5. v.at \in Paths
  BY PlaceFacts
<1>6. c \in Items(Functions) /\ Start(c) \in Paths
  BY <1>5, NextFacts, CalleeFacts, FormalFacts, StartFacts
<1>7. PassedFields(v) \in Seq(Fields)
  BY <1>5, PlaceFacts, TransferFacts, ConcatProperties DEF PassedFields
<1>8. u = [of |-> None, whole |-> PassedFields(v), in |-> c, at |-> Start(c)]
  BY <1>4
<1>9. u \in Places
  BY <1>6, <1>7, <1>8 DEF Places
<1>10. Start(c).fields = <<>>
  BY DEF Start
<1> QED BY <1>1, <1>8, <1>9, <1>10

LEMMA AlongFacts ==
  ASSUME prog \in Programs, NEW v \in Places, NEW u \in Along(v)
  PROVE  \E q \in Next3(v.at) :
           /\ u = [of |-> None, whole |-> v.whole, in |-> v.in, at |-> q] /\ u \in Places
           /\ q.fields = Transfer(v.at).fields
<1>1. PICK q \in Next3(v.at) : u = [v EXCEPT !.at = q]
  BY DEF Along
<1>2. v.at \in Paths
  BY PlaceFacts
<1>3. q \in Paths /\ q.fields = Transfer(v.at).fields
  BY <1>2, NextFacts, NextFields
<1>4. u = [of |-> None, whole |-> v.whole, in |-> v.in, at |-> q]
  BY <1>1, PlaceFacts
<1>5. u \in Places
  BY <1>3, <1>4, PlaceFacts DEF Places
<1> QED BY <1>3, <1>4, <1>5

\* The places of a callee, as far as the value with these fields comes to them in the caller's set.
Deeper(F, S) == {v \in Places : Within(F \o (v.whole \o v.at.fields)) => Inside(F, v) \in S}

LEMMA DeeperAlong ==
  ASSUME prog \in Programs, NEW F \in Seq(Fields), NEW S, Further(S) \subseteq S,
         NEW v \in Deeper(F, S), NEW u \in Along(v)
  PROVE  u \in Deeper(F, S)
<1>1. v \in Places /\ (Within(F \o (v.whole \o v.at.fields)) => Inside(F, v) \in S)
  BY DEF Deeper
<1>2. PICK q \in Next3(v.at) : /\ u = [of |-> None, whole |-> v.whole, in |-> v.in, at |-> q] /\ u \in Places
                               /\ q.fields = Transfer(v.at).fields
  BY <1>1, AlongFacts
<1>3. F \o (u.whole \o u.at.fields) = F \o PassedFields(v)
  BY <1>2 DEF PassedFields
<1> SUFFICES ASSUME Within(F \o PassedFields(v)) PROVE Inside(F, u) \in S
  BY <1>2, <1>3 DEF Deeper
<1>4. Inside(F, v) \in S
  BY <1>1, FieldsFacts
<1>5. Inside(F, v).of = None /\ Inside(F, v).at = v.at
      /\ Inside(F, v) = [of |-> None, whole |-> F \o v.whole, in |-> v.in, at |-> v.at]
  BY DEF Inside
<1>6. Inside(F, u) = [of |-> None, whole |-> F \o v.whole, in |-> v.in, at |-> q]
  BY <1>2 DEF Inside
<1>7. Inside(F, u) = [Inside(F, v) EXCEPT !.at = q]
  <2> DEFINE W == F \o v.whole
             I == Inside(F, v)
             J == Inside(F, u)
  <2>1. I = [of |-> None, whole |-> W, in |-> v.in, at |-> v.at] /\ J = [of |-> None, whole |-> W, in |-> v.in, at |-> q]
    BY <1>5, <1>6
  <2> HIDE DEF W, I, J
  <2>2. J = [I EXCEPT !.at = q]
    BY <2>1
  <2> QED BY <2>2 DEF I, J
<1>8. Inside(F, u) \in Along(Inside(F, v))
  BY <1>2, <1>5, <1>7 DEF Along
<1> QED BY <1>4, <1>5, <1>8, FurtherIs

LEMMA DeeperEntering ==
  ASSUME prog \in Programs, NEW F \in Seq(Fields), NEW S, Further(S) \subseteq S,
         NEW v \in Deeper(F, S), NEW u \in Entering(v)
  PROVE  u \in Deeper(F, S)
<1>1. v \in Places /\ (Within(F \o (v.whole \o v.at.fields)) => Inside(F, v) \in S)
  BY DEF Deeper
<1> DEFINE E(c) == /\ u = [of |-> None, whole |-> PassedFields(v), in |-> c, at |-> Start(c)] /\ u \in Places
                   /\ Start(c).fields = <<>>
<1>2. PICK a \in Passed(v.at) : \E n \in Positions(a) : \E c \in CalleeFormals(a, n) : E(c)
  BY <1>1, EnteringFacts
<1>3. PICK n \in Positions(a) : \E c \in CalleeFormals(a, n) : E(c)
  BY <1>2
<1>4. PICK c \in CalleeFormals(a, n) : E(c)
  BY <1>3
<1>5. PassedFields(v) \in Seq(Fields)
  BY <1>1, FieldsFacts
<1>6. F \o (u.whole \o u.at.fields) = F \o PassedFields(v)
  <2>1. u.whole \o u.at.fields = PassedFields(v) \o <<>>
    BY <1>4
  <2>2. PassedFields(v) \o <<>> = PassedFields(v)
    BY <1>5, ConcatEmptySeq
  <2> QED BY <2>1, <2>2
<1> SUFFICES ASSUME Within(F \o PassedFields(v)) PROVE Inside(F, u) \in S
  BY <1>4, <1>6 DEF Deeper
<1>7. Inside(F, v) \in S
  BY <1>1, FieldsFacts
<1>8. Inside(F, v).of = None /\ Inside(F, v).at = v.at
  BY DEF Inside
<1>9. PassedFields(Inside(F, v)) = F \o PassedFields(v)
  BY <1>1, FieldsFacts
<1>10. [of |-> None, whole |-> PassedFields(Inside(F, v)), in |-> c, at |-> Start(c)] \in Entering(Inside(F, v))
  BY <1>4, <1>8, <1>9, EnteringIntro
<1>11. Inside(F, u) = [of |-> None, whole |-> F \o PassedFields(v), in |-> c, at |-> Start(c)]
  BY <1>4 DEF Inside
<1>12. Inside(F, u) \in Entering(Inside(F, v))
  BY <1>9, <1>10, <1>11
<1> QED BY <1>7, <1>8, <1>12, FurtherIs

LEMMA DeeperLeaving ==
  ASSUME prog \in Programs, NEW F \in Seq(Fields), NEW S, Further(S) \subseteq S,
         NEW v \in Deeper(F, S), NEW w \in Deeper(F, S), w.whole = PassedFields(v), NEW u \in Leaving(w, v)
  PROVE  u \in Deeper(F, S)
<1>1. /\ v \in Places /\ (Within(F \o (v.whole \o v.at.fields)) => Inside(F, v) \in S)
      /\ w \in Places /\ (Within(F \o (w.whole \o w.at.fields)) => Inside(F, w) \in S)
  BY DEF Deeper
<1> DEFINE T == Transfer(v.at).fields
           X == Transfer(w.at).fields
<1>2. PICK r \in Returned(w.at) : \E a \in Passed(v.at) : \E n \in Positions(a) : \E at \in Paths : LeftAt(u, v, w, r, a, n, at)
  BY <1>1, LeavingFacts
<1>3. PICK a \in Passed(v.at) : \E n \in Positions(a) : \E at \in Paths : LeftAt(u, v, w, r, a, n, at)
  BY <1>2
<1>4. PICK n \in Positions(a), at \in Paths : LeftAt(u, v, w, r, a, n, at)
  BY <1>3
<1>5. X \in Seq(Fields)
  BY <1>1, PlaceFacts, TransferFacts
<1>6. u \in Places /\ u.whole = v.whole /\ u.at = at /\ at.fields = T \o X
  BY <1>4 DEF LeftAt
<1>7. F \o (u.whole \o u.at.fields) = (F \o PassedFields(v)) \o X
  <2>1. F \o (v.whole \o (T \o X)) = (F \o PassedFields(v)) \o X
    BY <1>1, <1>5, FieldsFacts
  <2> HIDE DEF T, X
  <2> QED BY <1>6, <2>1, Zenon
<1> SUFFICES ASSUME Within((F \o PassedFields(v)) \o X) PROVE Inside(F, u) \in S
  BY <1>7, <1>6 DEF Deeper
<1>8. F \o PassedFields(v) \in Seq(Fields) /\ PassedFields(v) \in Seq(Fields)
  BY <1>1, FieldsFacts
<1>9. Inside(F, v) \in S
  <2>1. Within(F \o PassedFields(v))
    BY <1>5, <1>8, WithinPrefix
  <2> QED BY <1>1, <2>1, FieldsFacts
<1>10. Inside(F, w) \in S
  <2>1. PassedFields(w) = PassedFields(v) \o X
    BY DEF PassedFields
  <2>2. (F \o PassedFields(v)) \o X = F \o (PassedFields(v) \o X)
    BY <1>5, <1>8, FieldsAssociative DEF Associative
  <2>3. Within(F \o PassedFields(w))
    BY <2>1, <2>2
  <2> QED BY <1>1, <2>3, FieldsFacts
<1>11. /\ Inside(F, v).of = None /\ Inside(F, v).at = v.at
      /\ Inside(F, v) = [of |-> None, whole |-> F \o v.whole, in |-> v.in, at |-> v.at]
      /\ Inside(F, w).of = None /\ Inside(F, w).at = w.at /\ Inside(F, w).in = w.in
      /\ Inside(F, w).whole = F \o PassedFields(v)
  BY DEF Inside
<1>12. PassedFields(Inside(F, v)) = F \o PassedFields(v)
  BY <1>1, FieldsFacts
<1>13. [Inside(F, v) EXCEPT !.at = [Start(r) EXCEPT !.fields = T \o X, !.kind = KindAfter(w.at)]]
         \in Leaving(Inside(F, w), Inside(F, v))
  BY <1>4, <1>11, LeavingIntro DEF LeftAt
<1>14. [Inside(F, v) EXCEPT !.at = at] \in Leaving(Inside(F, w), Inside(F, v))
  BY <1>4, <1>13 DEF LeftAt
<1>15. Inside(F, u) = [of |-> None, whole |-> F \o v.whole, in |-> v.in, at |-> at]
  BY <1>4 DEF Inside, LeftAt
<1>16. Inside(F, u) = [Inside(F, v) EXCEPT !.at = at]
  <2> DEFINE W == F \o v.whole
             I == Inside(F, v)
             J == Inside(F, u)
  <2>1. I = [of |-> None, whole |-> W, in |-> v.in, at |-> v.at] /\ J = [of |-> None, whole |-> W, in |-> v.in, at |-> at]
    BY <1>11, <1>15
  <2> HIDE DEF W, I, J
  <2>2. J = [I EXCEPT !.at = at]
    BY <2>1
  <2> QED BY <2>2 DEF I, J
<1>17. Inside(F, u) \in Leaving(Inside(F, w), Inside(F, v))
  BY <1>14, <1>16, Zenon
<1> QED BY <1>9, <1>10, <1>11, <1>12, <1>17, FurtherIs

LEMMA DeeperClosed ==
  ASSUME prog \in Programs, NEW i \in Items(Functions), NEW p \in Paths, NEW a \in Passed(p), NEW n \in Positions(a),
         NEW c \in CalleeFormals(a, n), NEW S, Further(S) \subseteq S, Came(i, p) \in S, Within(Transfer(p).fields)
  PROVE  ClosedFrom(c, Deeper(Transfer(p).fields, S))
<1> DEFINE F == Transfer(p).fields
           T == Deeper(F, S)
<1>1. F \in Seq(Fields)
  BY TransferFacts
<1>2. \A v \in T : v \in Places /\ v.of = None
  BY PlaceFacts DEF Deeper
<1>3. Further(T) \subseteq T
  <2> HIDE DEF F, T
  <2> SUFFICES ASSUME NEW u \in Further(T) PROVE u \in T
    OBVIOUS
  <2>1. CASE \E v \in T : u \in Along(v)
    BY <1>1, <2>1, DeeperAlong DEF T
  <2>2. CASE \E v \in T : u \in Entering(v)
    BY <1>1, <2>2, DeeperEntering DEF T
  <2>3. CASE \E v \in T : \E w \in T : w.whole = PassedFields(v) /\ u \in Leaving(w, v)
    BY <1>1, <2>3, DeeperLeaving DEF T
  <2> QED BY <1>2, <2>1, <2>2, <2>3, FurtherIs
<1>4. Outset(c) \in T
  <2>1. c \in Items(Functions) /\ c \notin Functions /\ c \in Nodes
    BY NextFacts, CalleeFacts, FormalFacts
  <2>2. Outset(c) = [of |-> None, whole |-> <<>>, in |-> c, at |-> Start(c)]
    BY <2>1 DEF Outset
  <2>3. Outset(c) \in Places
    BY <2>1, <2>2, StartFacts, EmptySeq DEF Places
  <2>4. Inside(F, Outset(c)) = [of |-> None, whole |-> F, in |-> c, at |-> Start(c)]
    <3>1. F \o <<>> = F
      BY <1>1, ConcatEmptySeq
    <3> HIDE DEF F
    <3> QED BY <2>2, <3>1 DEF Inside
  <2>5. PassedFields(Came(i, p)) = F
    <3>1. <<>> \o F = F
      BY <1>1, ConcatEmptySeq
    <3> QED BY <3>1 DEF PassedFields, Came
  <2>6. Came(i, p).of = None /\ Came(i, p).at = p
    BY DEF Came
  <2>7. [of |-> None, whole |-> F, in |-> c, at |-> Start(c)] \in Entering(Came(i, p))
    BY <2>5, <2>6, EnteringIntro
  <2>8. Inside(F, Outset(c)) \in S
    BY <2>4, <2>6, <2>7, FurtherIs
  <2> QED BY <2>3, <2>8 DEF Deeper
<1> QED BY <1>3, <1>4 DEF ClosedFrom
-----------------------------------------------------------------------------
(* What one iteration adds happens somewhere. *)

\* What a callee does to the value that is passed to it, seen from the caller.
LEMMA EffectInside ==
  ASSUME prog \in Programs, NEW F \in Seq(Fields), NEW S, NEW v \in Deeper(F, S), NEW t \in DoneAt(v),
         NEW fields, fields = F \o t.fields, Within(fields)
  PROVE  [fields |-> fields, kind |-> t.kind] \in AccessTypes(UNION {DoneAt(x) : x \in S})
<1> DEFINE W == v.whole
           A == v.at.fields
           N == Touched(v.at, AtAny(v.at))
<1>1. v \in Places /\ v.of = None /\ W \in Seq(Fields) /\ v.at \in Paths
  BY PlaceFacts DEF Deeper
<1>2. A \in Seq(Fields)
  BY <1>1, TransferFacts
<1>3. DoneAt(v) = {[x EXCEPT !.fields = (W \o A) \o @] : x \in N}
  BY <1>1 DEF DoneAt, Behind
<1>4. PICK x \in N : t = [x EXCEPT !.fields = (W \o A) \o @]
  BY <1>3
<1>5. x \in Effects
  BY <1>1, TouchedAny
<1>6. x.fields \in Seq(Fields) /\ x = [fields |-> x.fields, kind |-> x.kind, node |-> x.node]
  BY <1>5 DEF Effects
<1> DEFINE X == x.fields
<1>7. t.fields = (W \o A) \o X /\ t.kind = x.kind
  <2> DEFINE B == W \o A
             Y == B \o X
  <2>1. t = [x EXCEPT !.fields = Y]
    BY <1>4
  <2> HIDE DEF B, Y
  <2>2. t.fields = Y /\ t.kind = x.kind
    BY <1>6, <2>1
  <2> QED BY <2>2 DEF Y, B
<1> HIDE DEF W, A, X, N
<1>8. W \o A \in Seq(Fields)
  BY <1>1, <1>2, FieldsJoin, Zenon
<1> DEFINE B == W \o A
<1>9. F \o B \in Seq(Fields)
  BY <1>8, FieldsJoin, Zenon
<1>10. fields = (F \o B) \o X
  <2>1. Associative(F)
    BY FieldsAssociative, Zenon
  <2>2. X \in Seq(Fields) /\ B \in Seq(Fields)
    BY <1>6, <1>8 DEF X
  <2>3. fields = F \o (B \o X)
    BY <1>7
  <2> HIDE DEF B
  <2> QED BY <2>1, <2>2, <2>3, Zenon DEF Associative
<1>11. Inside(F, v) \in S
  <2>1. X \in Seq(Fields)
    BY <1>6 DEF X
  <2>2. Within(F \o B)
    BY <1>9, <1>10, <2>1, WithinPrefix
  <2> QED BY <2>2 DEF Deeper, W, A
<1>12. Inside(F, v).of = None /\ Inside(F, v).whole = F \o W /\ Inside(F, v).at = v.at
  BY DEF Inside, W
<1>13. (F \o W) \o A = F \o B
  <2>1. Associative(F)
    BY FieldsAssociative, Zenon
  <2> QED BY <1>1, <1>2, <2>1, Zenon DEF Associative
<1> DEFINE z == [x EXCEPT !.fields = ((F \o W) \o A) \o @]
<1>14. z \in DoneAt(Inside(F, v))
  BY <1>12 DEF DoneAt, Behind, N, A
<1>15. z.fields = fields /\ z.kind = t.kind
  <2> DEFINE C == (F \o W) \o A
  <2>1. C \o X = fields
    BY <1>10, <1>13
  <2>2. z = [x EXCEPT !.fields = fields]
    BY <2>1 DEF X
  <2> HIDE DEF z
  <2> QED BY <1>6, <1>7, <2>2
<1> HIDE DEF z
<1>16. [fields |-> z.fields, kind |-> z.kind] \in AccessTypes(UNION {DoneAt(y) : y \in S})
  BY <1>11, <1>14 DEF AccessTypes
<1> QED BY <1>15, <1>16

\* The effects, the exits and the paths that a call brings back are there in each closed set of the caller.
LEMMA MergedGenuine ==
  ASSUME prog \in Programs, summaries \in [Items(Functions) -> Summary],
         NEW i \in Items(Functions), NEW p \in Paths, NEW S, ClosedFrom(i, S), Came(i, p) \in S,
         NEW a \in Passed(p), NEW c \in CalleeFormals(a, Position(a)), Genuine(c, summaries[c])
  PROVE  /\ \A x \in EffectsBehind(p, a, c, summaries) :
              [fields |-> x.fields, kind |-> x.kind] \in AccessTypes(UNION {DoneAt(v) : v \in S})
         /\ Transfer(p).fields = <<>> /\ summaries[c].array
              => \E v \in S : v.of = None /\ v.whole = <<>> /\ IsArrayAccess(v.at)
         /\ \A q \in PathsBehind(p, a, c, summaries) : Came(i, q) \in S
<1> DEFINE F == Transfer(p).fields
           T == Deeper(F, S)
<1>1. F \in Seq(Fields) /\ Further(S) \subseteq S
  BY TransferFacts DEF ClosedFrom
<1>2. Within(F)
  BY DEF Passed, Followed, GoesOn
<1>3. a \in Nodes /\ Op(a) = "actual" /\ Position(a) \in Positions(a)
  BY NextFacts, PositionFacts
<1>4. ClosedFrom(c, T)
  BY <1>1, <1>2, <1>3, DeeperClosed
<1>5. c \in Items(Functions) /\ c \in AllFormals /\ summaries[c] \in Summary
  BY <1>3, CalleeFacts
<1>6. \A v \in T : v \in Places /\ v.of = None /\ (Within(F \o (v.whole \o v.at.fields)) => Inside(F, v) \in S)
  BY PlaceFacts DEF Deeper
<1> HIDE DEF T
<1>7. /\ AccessTypes(summaries[c].effects) \subseteq AccessTypes(UNION {DoneAt(v) : v \in T})
      /\ summaries[c].array => \E v \in T : v.of = None /\ v.whole = <<>> /\ IsArrayAccess(v.at)
      /\ \A x \in summaries[c].exits :
           \E q : /\ Came(c, q) \in T /\ x.node = q.node /\ Returned(q) # {}
                  /\ x.fields = Transfer(q).fields /\ x.kind = KindAfter(q)
  BY <1>4, <1>5 DEF Genuine
<1>8. ASSUME NEW x \in EffectsBehind(p, a, c, summaries)
      PROVE  [fields |-> x.fields, kind |-> x.kind] \in AccessTypes(UNION {DoneAt(v) : v \in S})
  <2>1. PICK y \in summaries[c].effects : MayFollow(SiteOf(a), F, y.fields) /\ x = [y EXCEPT !.fields = F \o @]
    BY DEF EffectsBehind
  <2>2. y = [fields |-> y.fields, kind |-> y.kind, node |-> y.node]
    BY <1>5, SummaryFacts DEF Effects
  <2>3. x.fields = F \o y.fields /\ x.kind = y.kind
    <3> DEFINE Y == F \o y.fields
    <3>1. x = [y EXCEPT !.fields = Y]
      BY <2>1
    <3> HIDE DEF Y
    <3>2. x.fields = Y /\ x.kind = y.kind
      BY <2>2, <3>1
    <3> QED BY <3>2 DEF Y
  <2>4. Within(x.fields)
    BY <2>1, <2>3 DEF MayFollow
  <2>5. [fields |-> y.fields, kind |-> y.kind] \in AccessTypes(UNION {DoneAt(v) : v \in T})
    BY <1>7 DEF AccessTypes
  <2>6. PICK t \in UNION {DoneAt(v) : v \in T} : [fields |-> y.fields, kind |-> y.kind] = [fields |-> t.fields, kind |-> t.kind]
    BY <2>5 DEF AccessTypes
  <2>7. t.fields = y.fields /\ t.kind = y.kind
    BY <2>6
  <2>8. PICK v \in T : t \in DoneAt(v)
    BY <2>6
  <2>9. x.fields = F \o t.fields
    BY <2>3, <2>7
  <2>10. [fields |-> x.fields, kind |-> t.kind] \in AccessTypes(UNION {DoneAt(z) : z \in S})
    BY <1>1, <2>4, <2>8, <2>9, EffectInside DEF T
  <2> QED BY <2>3, <2>7, <2>10
<1>9. ASSUME F = <<>>, summaries[c].array
      PROVE  \E v \in S : v.of = None /\ v.whole = <<>> /\ IsArrayAccess(v.at)
  <2>1. PICK v \in T : v.of = None /\ v.whole = <<>> /\ IsArrayAccess(v.at)
    BY <1>7, <1>9
  <2>2. v.at.fields = <<>>
    BY <2>1 DEF IsArrayAccess
  <2>3. \A e : e = <<>> => e \o (e \o e) = e
    BY ConcatEmptySeq
  <2>4. F \o (v.whole \o v.at.fields) = <<>>
    BY <1>9, <2>1, <2>2, <2>3, Zenon
  <2>5. Within(<<>>)
    BY <1>2, <1>9
  <2>6. Inside(F, v) \in S
    BY <1>6, <2>4, <2>5
  <2>7. F \o v.whole = <<>>
    BY <1>1, <1>9, <2>1, ConcatEmptySeq
  <2> HIDE DEF F
  <2>8. Inside(F, v).of = None /\ Inside(F, v).whole = <<>> /\ Inside(F, v).at = v.at
    BY <2>7 DEF Inside
  <2> QED BY <2>1, <2>6, <2>8
<1>10. ASSUME NEW u \in PathsBehind(p, a, c, summaries)
       PROVE  Came(i, u) \in S
  <2> DEFINE G(x) == {[Start(r) EXCEPT !.fields = F \o x.fields, !.kind = x.kind] : r \in Resumes(a, x.node)}
             X == {y \in summaries[c].exits : MayFollow(SiteOf(a), F, y.fields)}
  <2>1. u \in UNION {G(x) : x \in X}
    BY DEF PathsBehind
  <2>2. PICK x \in X : u \in G(x)
    BY <2>1
  <2>3. PICK r \in Resumes(a, x.node) : u = [Start(r) EXCEPT !.fields = F \o x.fields, !.kind = x.kind]
    BY <2>2
  <2>4. PICK q : /\ Came(c, q) \in T /\ x.node = q.node /\ Returned(q) # {}
                 /\ x.fields = Transfer(q).fields /\ x.kind = KindAfter(q)
    BY <1>7, <2>2
  <2> DEFINE w == Inside(F, Came(c, q))
  <2>5. Came(c, q) \in Places /\ q \in Paths /\ (Within(F \o (<<>> \o q.fields)) => w \in S)
        /\ Came(c, q).at = q /\ Came(c, q).whole = <<>>
    BY <1>6, <2>4 DEF Came, Places
  <2>6. MayFollow(SiteOf(a), F, Transfer(q).fields)
    BY <2>2, <2>4
  <2>7. PassedFields(Came(c, q)) = Transfer(q).fields
    <3>1. Transfer(q).fields \in Seq(Fields)
      BY <2>5, TransferFacts
    <3>2. <<>> \o Transfer(q).fields = Transfer(q).fields
      BY <3>1, ConcatEmptySeq
    <3> QED BY <2>5, <3>2 DEF PassedFields
  <2>8. w \in S
    <3>1. Within(F \o PassedFields(Came(c, q)))
      BY <2>6, <2>7 DEF MayFollow
    <3>2. Within(F \o (Came(c, q).whole \o Came(c, q).at.fields))
      BY <1>1, <2>5, <3>1, FieldsFacts
    <3> QED BY <2>5, <3>2
  <2>9. w.of = None /\ w.whole = F /\ w.in = c /\ w.at = q
    <3>1. F \o <<>> = F
      BY <1>1, ConcatEmptySeq
    <3> HIDE DEF F
    <3> QED BY <3>1 DEF Inside, Came
  <2>10. r \in Returned(q) /\ r = prog.sites[SiteOf(a)].ret
    <3>1. PICK e \in prog.edges : e.to = r /\ e.from = q.node /\ Op(e.to) = "actualret" /\ r = prog.sites[SiteOf(a)].ret
      BY <2>3, <2>4 DEF Resumes
    <3>2. GoesOn(q)
      BY <2>4 DEF Returned, Followed
    <3>3. e.via # "memory"
      BY <3>1, ProgramsAssumption DEF ProgramsAssumption, ValueFlow, Op
    <3>4. e \in Followed(q)
      BY <3>1, <3>2, <3>3 DEF Followed
    <3> QED BY <3>1, <3>4 DEF Returned
  <2> DEFINE v == Came(i, p)
  <2>11. v.of = None /\ v.at = p /\ v = [of |-> None, whole |-> <<>>, in |-> i, at |-> p]
    BY DEF Came
  <2>12. PassedFields(v) = F
    <3>1. <<>> \o F = F
      BY <1>1, ConcatEmptySeq
    <3> QED BY <3>1 DEF PassedFields, Came
  <2> DEFINE at == [Start(r) EXCEPT !.fields = F \o Transfer(q).fields, !.kind = KindAfter(q)]
  <2>13. u = at
    BY <2>3, <2>4
  <2> HIDE DEF w, v
  <2>14. [v EXCEPT !.at = at] \in Leaving(w, v)
    BY <1>3, <2>6, <2>9, <2>10, <2>11, LeavingIntro
  <2>15. Came(i, u) \in Leaving(w, v)
    <3>1. Came(i, u) = [v EXCEPT !.at = u]
      BY <2>11 DEF Came
    <3> HIDE DEF at
    <3> QED BY <2>13, <2>14, <3>1
  <2>16. v \in S
    BY DEF v
  <2>17. Came(i, u) \in Further(S)
    BY <2>8, <2>9, <2>11, <2>12, <2>15, <2>16, FurtherIs
  <2> QED BY <1>1, <2>17
<1> QED BY <1>8, <1>9, <1>10

LEMMA SummaryIs ==
  ASSUME NEW e, NEW x, NEW a, NEW ps, NEW s, s = [effects |-> e, exits |-> x, array |-> a, params |-> ps]
  PROVE  s.effects = e /\ s.exits = x /\ s.array = a /\ s.params = ps
OBVIOUS

LEMMA IteratedIs ==
  ASSUME NEW s \in Summary, NEW p
  PROVE  /\ Iterated(s, p).effects = s.effects \cup Behind(p.fields, Touched(p, AtFirst(p))) \cup EffectsMerged(p, summaries)
         /\ Iterated(s, p).exits = IF Returned(p) = {} THEN s.exits
              ELSE s.exits \cup {[node |-> p.node, fields |-> Transfer(p).fields, kind |-> KindAfter(p)]}
         /\ Iterated(s, p).array = (s.array \/ IsArrayAccess(p) \/ ArrayMerged(p, summaries))
         /\ Iterated(s, p).params = s.params
<1> DEFINE ef == s.effects \cup Behind(p.fields, Touched(p, AtFirst(p))) \cup EffectsMerged(p, summaries)
           ex == IF Returned(p) = {} THEN s.exits
                 ELSE s.exits \cup {[node |-> p.node, fields |-> Transfer(p).fields, kind |-> KindAfter(p)]}
           ar == s.array \/ IsArrayAccess(p) \/ ArrayMerged(p, summaries)
<1>1. Iterated(s, p) = [s EXCEPT !.effects = ef, !.exits = ex, !.array = ar]
  BY DEF Iterated
<1>2. s = [effects |-> s.effects, exits |-> s.exits, array |-> s.array, params |-> s.params]
  BY SummaryFacts
<1> HIDE DEF ef, ex, ar
<1>3. [s EXCEPT !.effects = ef, !.exits = ex, !.array = ar].effects = ef
  BY <1>2
<1>4. [s EXCEPT !.effects = ef, !.exits = ex, !.array = ar].exits = ex
  BY <1>2
<1>5. [s EXCEPT !.effects = ef, !.exits = ex, !.array = ar].array = ar
  BY <1>2
<1>6. [s EXCEPT !.effects = ef, !.exits = ex, !.array = ar].params = s.params
  BY <1>2
<1> QED BY <1>1, <1>3, <1>4, <1>5, <1>6, Zenon DEF ef, ex, ar

\* What is done to the value at a path of its own function.
LEMMA TouchedThere ==
  ASSUME prog \in Programs, NEW p \in Paths, NEW i, NEW S, Came(i, p) \in S, NEW x \in Behind(p.fields, Touched(p, AtFirst(p)))
  PROVE  [fields |-> x.fields, kind |-> x.kind] \in AccessTypes(UNION {DoneAt(v) : v \in S})
<1>1. <<>> \o p.fields = p.fields
  BY TransferFacts, ConcatEmptySeq
<1>2. Came(i, p).of = None /\ Came(i, p).whole = <<>> /\ Came(i, p).at = p
  BY DEF Came
<1>3. DoneAt(Came(i, p)) = Behind(p.fields, Touched(p, AtAny(p)))
  BY <1>1, <1>2 DEF DoneAt
<1>4. Touched(p, AtFirst(p)) \subseteq Touched(p, AtAny(p))
  BY TouchedAny
<1>5. x \in DoneAt(Came(i, p))
  BY <1>3, <1>4 DEF Behind
<1> QED BY <1>5 DEF AccessTypes

LEMMA IteratedGenuine ==
  ASSUME prog \in Programs, summaries \in [Items(Functions) -> Summary],
         \A c \in Items(Functions) : Genuine(c, summaries[c]),
         NEW i \in Items(Functions), NEW p \in Paths, Comes(i, p)
  PROVE  /\ Genuine(i, Iterated(summaries[i], p))
         /\ \A q \in Next3(p) \cup PathsMerged(p, summaries) : Comes(i, q)
<1> DEFINE s == summaries[i]
           t == Iterated(s, p)
<1>1. s \in Summary
  OBVIOUS
<1>2. \A a \in Passed(p) : \A c \in CalleeFormals(a, Position(a)) : c \in Items(Functions) /\ Genuine(c, summaries[c])
  BY NextFacts, CalleeFacts
<1>3. ASSUME NEW S, ClosedFrom(i, S)
      PROVE  /\ AccessTypes(t.effects) \subseteq AccessTypes(UNION {DoneAt(v) : v \in S})
             /\ t.array => \E v \in S : v.of = None /\ v.whole = <<>> /\ IsArrayAccess(v.at)
             /\ i \in AllFormals => \A x \in t.exits :
                  \E q : /\ Came(i, q) \in S /\ x.node = q.node /\ Returned(q) # {}
                         /\ x.fields = Transfer(q).fields /\ x.kind = KindAfter(q)
             /\ \A q \in Next3(p) \cup PathsMerged(p, summaries) : Came(i, q) \in S
  <2>1. Came(i, p) \in S
    BY <1>3 DEF Comes
  <2>2. /\ AccessTypes(s.effects) \subseteq AccessTypes(UNION {DoneAt(v) : v \in S})
        /\ s.array => \E v \in S : v.of = None /\ v.whole = <<>> /\ IsArrayAccess(v.at)
        /\ i \in AllFormals => \A x \in s.exits :
             \E q : /\ Came(i, q) \in S /\ x.node = q.node /\ Returned(q) # {}
                    /\ x.fields = Transfer(q).fields /\ x.kind = KindAfter(q)
    <3>1. Genuine(i, s)
      OBVIOUS
    <3> HIDE DEF s
    <3> QED BY <1>3, <3>1 DEF Genuine
  <2>3. \A a \in Passed(p) : \A c \in CalleeFormals(a, Position(a)) :
          /\ \A x \in EffectsBehind(p, a, c, summaries) :
               [fields |-> x.fields, kind |-> x.kind] \in AccessTypes(UNION {DoneAt(v) : v \in S})
          /\ Transfer(p).fields = <<>> /\ summaries[c].array
               => \E v \in S : v.of = None /\ v.whole = <<>> /\ IsArrayAccess(v.at)
          /\ \A q \in PathsBehind(p, a, c, summaries) : Came(i, q) \in S
    BY <1>2, <1>3, <2>1, MergedGenuine
  <2>4. ASSUME NEW y \in AccessTypes(t.effects)
        PROVE  y \in AccessTypes(UNION {DoneAt(v) : v \in S})
    <3>1. PICK x \in t.effects : y = [fields |-> x.fields, kind |-> x.kind]
      BY <2>4 DEF AccessTypes
    <3>2. x \in s.effects \/ x \in Behind(p.fields, Touched(p, AtFirst(p))) \/ x \in EffectsMerged(p, summaries)
      BY <1>1, <3>1, IteratedIs
    <3>3. CASE x \in s.effects
      <4>1. y \in AccessTypes(s.effects)
        BY <3>1, <3>3 DEF AccessTypes
      <4> QED BY <2>2, <4>1
    <3>4. CASE x \in Behind(p.fields, Touched(p, AtFirst(p)))
      BY <2>1, <3>1, <3>4, TouchedThere
    <3>5. CASE x \in EffectsMerged(p, summaries)
      <4> DEFINE E(a) == UNION {EffectsBehind(p, a, c, summaries) : c \in CalleeFormals(a, Position(a))}
      <4>1. x \in UNION {E(a) : a \in Passed(p)}
        BY <3>5 DEF EffectsMerged
      <4>2. PICK a \in Passed(p) : x \in E(a)
        BY <4>1
      <4>3. PICK c \in CalleeFormals(a, Position(a)) : x \in EffectsBehind(p, a, c, summaries)
        BY <4>2
      <4> QED BY <2>3, <3>1, <4>3
    <3> QED BY <3>2, <3>3, <3>4, <3>5
  <2>5. ASSUME t.array
        PROVE  \E v \in S : v.of = None /\ v.whole = <<>> /\ IsArrayAccess(v.at)
    <3>1. s.array \/ IsArrayAccess(p) \/ ArrayMerged(p, summaries)
      BY <1>1, <2>5, IteratedIs
    <3>2. CASE IsArrayAccess(p)
      BY <2>1, <3>2 DEF Came
    <3>3. CASE ArrayMerged(p, summaries)
      BY <2>3, <3>3 DEF ArrayMerged
    <3> QED BY <2>2, <3>1, <3>2, <3>3
  <2>6. ASSUME i \in AllFormals, NEW x \in t.exits
        PROVE  \E q : /\ Came(i, q) \in S /\ x.node = q.node /\ Returned(q) # {}
                      /\ x.fields = Transfer(q).fields /\ x.kind = KindAfter(q)
    <3> DEFINE z == [node |-> p.node, fields |-> Transfer(p).fields, kind |-> KindAfter(p)]
    <3>4. t.exits = IF Returned(p) = {} THEN s.exits ELSE s.exits \cup {z}
      BY <1>1, IteratedIs
    <3>1. x \in s.exits \/ (Returned(p) # {} /\ x = z)
      <4> HIDE DEF t, s, z
      <4> QED BY <2>6, <3>4
    <3>2. CASE x \in s.exits
      BY <2>2, <2>6, <3>2
    <3>3. CASE Returned(p) # {} /\ x = [node |-> p.node, fields |-> Transfer(p).fields, kind |-> KindAfter(p)]
      <4>1. x.node = p.node /\ x.fields = Transfer(p).fields /\ x.kind = KindAfter(p)
        BY <3>3
      <4> QED BY <2>1, <3>3, <4>1
    <3> QED BY <3>1, <3>2, <3>3
  <2>7. ASSUME NEW q \in Next3(p) PROVE Came(i, q) \in S
    <3>1. Came(i, p).of = None /\ Came(i, p).at = p /\ Came(i, q) = [Came(i, p) EXCEPT !.at = q]
      BY DEF Came
    <3>2. Came(i, q) \in Along(Came(i, p))
      BY <3>1 DEF Along
    <3> QED BY <1>3, <2>1, <3>1, <3>2, FurtherIs DEF ClosedFrom
  <2>8. ASSUME NEW q \in PathsMerged(p, summaries) PROVE Came(i, q) \in S
    <3> DEFINE B(a) == UNION {PathsBehind(p, a, c, summaries) : c \in CalleeFormals(a, Position(a))}
    <3>1. q \in UNION {B(a) : a \in Passed(p)}
      BY DEF PathsMerged
    <3>2. PICK a \in Passed(p) : q \in B(a)
      BY <3>1
    <3>3. PICK c \in CalleeFormals(a, Position(a)) : q \in PathsBehind(p, a, c, summaries)
      BY <3>2
    <3> QED BY <2>3, <3>3
  <2> HIDE DEF t, s
  <2> QED BY <2>4, <2>5, <2>6, <2>7, <2>8
<1>4. Genuine(i, t)
  <2> HIDE DEF t
  <2> QED BY <1>3 DEF Genuine
<1>5. \A q \in Next3(p) \cup PathsMerged(p, summaries) : Comes(i, q)
  <2> HIDE DEF t
  <2> QED BY <1>3 DEF Comes
<1> QED BY <1>4, <1>5
-----------------------------------------------------------------------------
(* What a returned pointer is taken from. *)

LEMMA OriginPlaces ==
  ASSUME prog \in Programs, NEW f \in prog.returns, NEW n \in backward_slice(f), NEW S, ClosedFrom(f, S)
  PROVE  /\ Outset(f) \in S
         /\ FromMalloc(n) \subseteq DoneAt(Outset(f))
         /\ Op(n) = "formal" => ClosedFrom(n, S)
         /\ Op(n) # "formal" => \A q \in Begins(n, ReturnedParams) : Came(f, q) \in S
         /\ Op(n) = "actualret" =>
              /\ Allocated(n, callee_targets(CallOf(n))) \subseteq DoneAt(Outset(f))
              /\ \A g \in callee_targets(CallOf(n)) \cap prog.returns : ClosedFrom(g, S)
<1>1. f \in Functions /\ f # None /\ n \in Nodes /\ (Op(n) = "formal" => n \notin Functions)
      /\ \A g \in prog.returns : g \in Functions
  BY FormalFacts, EdgeFacts, SliceFacts
<1> DEFINE o == Outset(f)
<1>2. o \in S /\ Further(S) \subseteq S
  BY DEF ClosedFrom
<1>3. o = [of |-> f, whole |-> <<>>, in |-> None, at |-> Start(None)]
  BY <1>1 DEF Outset
<1>4. o.of = f
  BY <1>3
<1>5. \A u \in Origins(o) : u \in S
  BY <1>1, <1>2, <1>4, FurtherIs
<1> HIDE DEF o
<1> DEFINE A(m) == {[o EXCEPT !.of = None, !.in = IF Op(m) = "formal" THEN m ELSE o.of, !.at = q] : q \in Begins(m, ReturnedParams)}
           B(m) == {[o EXCEPT !.of = g] : g \in callee_targets(CallOf(m)) \cap prog.returns}
           C(m) == A(m) \cup (IF Op(m) # "actualret" THEN {} ELSE B(m))
<1>6. Origins(o) = UNION {C(m) : m \in backward_slice(o.of)}
  BY <1>1, <1>4 DEF Origins
<1>7. n \in backward_slice(o.of)
  BY <1>4
<1>8. A(n) \subseteq Origins(o) /\ (Op(n) = "actualret" => B(n) \subseteq Origins(o))
  <2> HIDE DEF A, B
  <2> QED BY <1>6, <1>7
<1>9. \A q \in Begins(n, ReturnedParams) :
        [o EXCEPT !.of = None, !.in = IF Op(n) = "formal" THEN n ELSE o.of, !.at = q] \in Origins(o)
  BY <1>8
<1>10. \A g \in callee_targets(CallOf(n)) \cap prog.returns : Op(n) = "actualret" => [o EXCEPT !.of = g] \in Origins(o)
  BY <1>8
<1> HIDE DEF A, B
<1>11. \A q : \A h : [o EXCEPT !.of = None, !.in = h, !.at = q] = [of |-> None, whole |-> <<>>, in |-> h, at |-> q]
  <2> TAKE q, h
  <2> DEFINE z == Start(None)
             e == None
             b == <<>>
             u == [o EXCEPT !.of = e, !.in = h, !.at = q]
  <2>1. o = [of |-> f, whole |-> b, in |-> e, at |-> z] /\ u = [o EXCEPT !.of = e, !.in = h, !.at = q]
    BY <1>3
  <2> HIDE DEF z, e, b, u
  <2>2. u = [of |-> e, whole |-> b, in |-> h, at |-> q]
    BY <2>1
  <2> QED BY <2>2 DEF u, e, b
<1>12. ASSUME Op(n) = "formal" PROVE ClosedFrom(n, S)
  <2>1. Start(n) \in Begins(n, ReturnedParams)
    BY DEF Begins
  <2>2. Outset(n) = [of |-> None, whole |-> <<>>, in |-> n, at |-> Start(n)]
    BY <1>1, <1>12 DEF Outset
  <2>3. [o EXCEPT !.of = None, !.in = n, !.at = Start(n)] \in Origins(o)
    BY <1>9, <1>12, <2>1
  <2>4. Outset(n) \in Origins(o)
    BY <1>11, <2>2, <2>3
  <2> QED BY <1>2, <1>5, <2>4 DEF ClosedFrom
<1>13. ASSUME Op(n) # "formal", NEW q \in Begins(n, ReturnedParams) PROVE Came(f, q) \in S
  <2>1. [o EXCEPT !.of = None, !.in = f, !.at = q] \in Origins(o)
    BY <1>4, <1>9, <1>13
  <2> QED BY <1>5, <1>11, <2>1 DEF Came
<1>14. ASSUME Op(n) = "actualret", NEW g \in callee_targets(CallOf(n)) \cap prog.returns PROVE ClosedFrom(g, S)
  <2>1. [o EXCEPT !.of = g] = [of |-> g, whole |-> <<>>, in |-> None, at |-> Start(None)]
    BY <1>3
  <2>2. Outset(g) = [o EXCEPT !.of = g]
    BY <1>1, <2>1 DEF Outset
  <2> QED BY <1>2, <1>5, <1>10, <1>14, <2>2 DEF ClosedFrom
<1>15. DoneAt(o) = UNION {FromMalloc(m) \cup
                          (IF Op(m) = "actualret" THEN Allocated(m, callee_targets(CallOf(m))) ELSE {}) : m \in backward_slice(f)}
  BY <1>1, <1>4 DEF DoneAt
<1>16. FromMalloc(n) \subseteq DoneAt(o) /\ (Op(n) = "actualret" => Allocated(n, callee_targets(CallOf(n))) \subseteq DoneAt(o))
  BY <1>15
<1> QED BY <1>2, <1>12, <1>13, <1>14, <1>16 DEF o

\* Only the nodes of what is allocated depend on where it is seen.
LEMMA AllocatedTypes ==
  ASSUME NEW n, NEW m, NEW callees, NEW x \in Allocated(n, callees)
  PROVE  \E y \in Allocated(m, callees) : y.fields = x.fields /\ y.kind = x.kind
<1> DEFINE A(k, f) == {[fields |-> <<>>, kind |-> h.kind, node |-> k] : h \in {z \in prog.handlers[f] : z.pos = 0}}
           X == callees \cap DOMAIN prog.handlers
<1>1. \A k : Allocated(k, callees) = UNION {A(k, f) : f \in X}
  BY DEF Allocated
<1>2. PICK f \in X : x \in A(n, f)
  BY <1>1
<1>3. PICK h \in prog.handlers[f] : h.pos = 0 /\ x = [fields |-> <<>>, kind |-> h.kind, node |-> n]
  BY <1>2
<1> DEFINE y == [fields |-> <<>>, kind |-> h.kind, node |-> m]
<1>4. y \in A(m, f)
  BY <1>3
<1>5. y \in Allocated(m, callees)
  BY <1>1, <1>4
<1>6. y.fields = x.fields /\ y.kind = x.kind
  BY <1>3
<1> QED BY <1>5, <1>6

LEMMA FromFormalIs ==
  ASSUME NEW s \in Summary, NEW n
  PROVE  /\ FromFormal(s, n).effects = s.effects \cup summaries[n].effects
         /\ FromFormal(s, n).array = (s.array \/ summaries[n].array)
         /\ FromFormal(s, n).params = s.params \cup {k \in DOMAIN prog.formals[prog.fun[n]] : prog.formals[prog.fun[n]][k] = n}
<1> DEFINE pa == s.params \cup {k \in DOMAIN prog.formals[prog.fun[n]] : prog.formals[prog.fun[n]][k] = n}
           ef == s.effects \cup summaries[n].effects
           ar == s.array \/ summaries[n].array
<1>1. FromFormal(s, n) = [s EXCEPT !.params = pa, !.effects = ef, !.array = ar]
  BY DEF FromFormal
<1>2. s = [effects |-> s.effects, exits |-> s.exits, array |-> s.array, params |-> s.params]
  BY SummaryFacts
<1> HIDE DEF pa, ef, ar
<1>3. [s EXCEPT !.params = pa, !.effects = ef, !.array = ar].effects = ef
  BY <1>2
<1>4. [s EXCEPT !.params = pa, !.effects = ef, !.array = ar].array = ar
  BY <1>2
<1>5. [s EXCEPT !.params = pa, !.effects = ef, !.array = ar].params = pa
  BY <1>2
<1> QED BY <1>1, <1>3, <1>4, <1>5, Zenon DEF pa, ef, ar

LEMMA FromCallIs ==
  ASSUME NEW s \in Summary, NEW site
  PROVE  /\ FromCall(s, site).params = s.params
         /\ \A x \in FromCall(s, site).effects :
              \/ x \in s.effects
              \/ x \in Allocated(site, callee_targets(site))
              \/ \E g \in callee_targets(site) \cap prog.returns : x \in summaries[g].effects
         /\ FromCall(s, site).array => s.array \/ \E g \in callee_targets(site) \cap prog.returns : summaries[g].array
<1> DEFINE rets == callee_targets(site) \cap prog.returns
           ef == s.effects \cup Allocated(site, callee_targets(site)) \cup UNION {summaries[f].effects : f \in rets}
           ar == s.array \/ \E f \in rets : summaries[f].array
<1>1. FromCall(s, site) = [s EXCEPT !.effects = ef, !.array = ar]
  BY DEF FromCall
<1>2. s = [effects |-> s.effects, exits |-> s.exits, array |-> s.array, params |-> s.params]
  BY SummaryFacts
<1> HIDE DEF ef, ar
<1>3. [s EXCEPT !.effects = ef, !.array = ar].effects = ef
  BY <1>2
<1>4. [s EXCEPT !.effects = ef, !.array = ar].array = ar
  BY <1>2
<1>5. [s EXCEPT !.effects = ef, !.array = ar].params = s.params
  BY <1>2
<1>6. FromCall(s, site).effects = ef /\ FromCall(s, site).array = ar /\ FromCall(s, site).params = s.params
  BY <1>1, <1>3, <1>4, <1>5, Zenon
<1>7. \A x \in ef : \/ x \in s.effects \/ x \in Allocated(site, callee_targets(site))
                    \/ \E g \in rets : x \in summaries[g].effects
  BY DEF ef
<1> QED BY <1>6, <1>7 DEF ar

LEMMA BeginsMore ==
  ASSUME NEW n, NEW P, NEW Q, \A g \in prog.returns : P[g] \subseteq Q[g]
  PROVE  Begins(n, P) \subseteq Begins(n, Q)
<1>1. CASE Op(n) # "actualret"
  BY <1>1 DEF Begins
<1>2. CASE Op(n) = "actualret"
  <2> DEFINE s == CallOf(n)
             X(ps) == {j \in DOMAIN prog.sites[s].args :
                 /\ prog.sites[s].args[j] \in DOMAIN prog.def
                 /\ \E f \in callee_targets(s) \cap prog.returns : j \in ps[f]}
  <2>1. \A ps : Begins(n, ps) = {Start(n)} \cup {Start(prog.def[prog.sites[s].args[k]]) : k \in X(ps)}
    BY <1>2 DEF Begins
  <2>2. X(P) \subseteq X(Q)
    OBVIOUS
  <2> HIDE DEF X
  <2> QED BY <2>1, <2>2
<1> QED BY <1>1, <1>2

LEMMA TakenGenuine ==
  ASSUME prog \in Programs, summaries \in [Items(Functions) -> Summary],
         \A i \in Items(Functions) : Genuine(i, summaries[i]),
         NEW f \in prog.returns, NEW n \in backward_slice(f), NEW t,
         t = CASE Op(n) = "formal" -> FromFormal(summaries[f], n)
               [] Op(n) = "actualret" -> FromCall(summaries[f], CallOf(n))
               [] Op(n) = "addr" -> [summaries[f] EXCEPT !.effects = @ \cup FromMalloc(n)]
  PROVE  /\ Genuine(f, t)
         /\ summaries[f].params \subseteq ReturnedParams[f] => t.params \subseteq ReturnedParams[f]
<1> DEFINE s == summaries[f]
<1>1. n \in Nodes /\ prog.fun[n] = f /\ Op(n) \in {"addr", "actualret", "formal"}
      /\ (Op(n) = "formal" => n \in Items(Functions))
  BY SliceFacts
<1>2. f \in Items(Functions) /\ f \notin AllFormals /\ \A g \in prog.returns : g \in Items(Functions)
  BY ItemFacts, FormalFacts
<1>3. s \in Summary
  BY <1>2
<1>4. t.params = IF Op(n) = "formal" THEN s.params \cup {k \in DOMAIN prog.formals[f] : prog.formals[f][k] = n} ELSE s.params
  <2>1. CASE Op(n) = "formal"
    BY <1>1, <1>3, <2>1, FromFormalIs
  <2>2. CASE Op(n) = "actualret"
    BY <1>3, <2>2, FromCallIs
  <2>3. CASE Op(n) = "addr"
    BY <1>3, <2>3, SummaryFacts
  <2> QED BY <1>1, <2>1, <2>2, <2>3
<1>5. ASSUME s.params \subseteq ReturnedParams[f]
      PROVE  t.params \subseteq ReturnedParams[f]
  <2>1. {k \in DOMAIN prog.formals[f] : prog.formals[f][k] = n} \subseteq ReturnedParams[f]
    BY DEF ReturnedParams
  <2> HIDE DEF s
  <2> QED BY <1>4, <1>5, <2>1
<1>6. ASSUME NEW S, ClosedFrom(f, S)
      PROVE  /\ AccessTypes(t.effects) \subseteq AccessTypes(UNION {DoneAt(v) : v \in S})
             /\ t.array => \E v \in S : v.of = None /\ v.whole = <<>> /\ IsArrayAccess(v.at)
  <2> DEFINE D == AccessTypes(UNION {DoneAt(v) : v \in S})
             R == \E v \in S : v.of = None /\ v.whole = <<>> /\ IsArrayAccess(v.at)
             Holds(r) == (\A x \in r.effects : [fields |-> x.fields, kind |-> x.kind] \in D) /\ (r.array => R)
  <2>1. \A i \in Items(Functions) : ClosedFrom(i, S) => Holds(summaries[i])
    <3> SUFFICES ASSUME NEW i \in Items(Functions), ClosedFrom(i, S) PROVE Holds(summaries[i])
      OBVIOUS
    <3>1. AccessTypes(summaries[i].effects) \subseteq D /\ (summaries[i].array => R)
      BY DEF Genuine
    <3> HIDE DEF D, R
    <3> QED BY <3>1 DEF AccessTypes
  <2>2. Holds(s)
    BY <1>2, <1>6, <2>1
  <2>3. Outset(f) \in S
    BY <1>6, OriginPlaces
  <2>4. \A x \in DoneAt(Outset(f)) : [fields |-> x.fields, kind |-> x.kind] \in D
    BY <2>3 DEF AccessTypes
  <2>5. CASE Op(n) = "formal"
    <3>1. ClosedFrom(n, S)
      BY <1>6, <2>5, OriginPlaces
    <3>2. Holds(summaries[n])
      BY <1>1, <2>1, <2>5, <3>1
    <3>3. t.effects = s.effects \cup summaries[n].effects /\ t.array = (s.array \/ summaries[n].array)
      BY <1>3, <2>5, FromFormalIs
    <3> HIDE DEF D, R, s
    <3>4. Holds(t)
      BY <2>2, <3>2, <3>3
    <3> QED BY <3>4 DEF AccessTypes, D, R
  <2>6. CASE Op(n) = "actualret"
    <3> DEFINE site == CallOf(n)
    <3>1. \A g \in callee_targets(site) \cap prog.returns : Holds(summaries[g])
      BY <1>2, <1>6, <2>1, <2>6, OriginPlaces
    <3>2. Allocated(n, callee_targets(site)) \subseteq DoneAt(Outset(f))
      BY <1>6, <2>6, OriginPlaces
    <3>3. t = FromCall(s, site)
      BY <2>6
    <3>4. /\ \A x \in t.effects : \/ x \in s.effects
                                  \/ x \in Allocated(site, callee_targets(site))
                                  \/ \E g \in callee_targets(site) \cap prog.returns : x \in summaries[g].effects
          /\ t.array => s.array \/ \E g \in callee_targets(site) \cap prog.returns : summaries[g].array
      <4> DEFINE r == FromCall(s, site)
      <4> HIDE DEF s, site
      <4>1. /\ \A x \in r.effects : \/ x \in s.effects
                                    \/ x \in Allocated(site, callee_targets(site))
                                    \/ \E g \in callee_targets(site) \cap prog.returns : x \in summaries[g].effects
            /\ r.array => s.array \/ \E g \in callee_targets(site) \cap prog.returns : summaries[g].array
        BY <1>3, FromCallIs
      <4> QED BY <3>3, <4>1, Zenon
    <3>5. \A x \in Allocated(site, callee_targets(site)) : [fields |-> x.fields, kind |-> x.kind] \in D
      <4> SUFFICES ASSUME NEW x \in Allocated(site, callee_targets(site))
                   PROVE  [fields |-> x.fields, kind |-> x.kind] \in D
        OBVIOUS
      <4>1. PICK y \in Allocated(n, callee_targets(site)) : y.fields = x.fields /\ y.kind = x.kind
        BY AllocatedTypes
      <4> HIDE DEF D
      <4>2. [fields |-> y.fields, kind |-> y.kind] \in D
        BY <2>4, <3>2
      <4> QED BY <4>1, <4>2
    <3> HIDE DEF D, R, s, site
    <3>6. Holds(t)
      BY <2>2, <3>1, <3>4, <3>5
    <3> QED BY <3>6 DEF AccessTypes, D, R
  <2>7. CASE Op(n) = "addr"
    <3> DEFINE ef == s.effects \cup FromMalloc(n)
    <3>1. t = [s EXCEPT !.effects = ef]
      BY <2>7
    <3>2. s = [effects |-> s.effects, exits |-> s.exits, array |-> s.array, params |-> s.params]
      BY <1>3, SummaryFacts
    <3>3. FromMalloc(n) \subseteq DoneAt(Outset(f))
      BY <1>6, OriginPlaces
    <3> HIDE DEF D, R, s, ef
    <3>4. t.effects = ef /\ t.array = s.array
      BY <3>1, <3>2
    <3>5. Holds(t)
      BY <2>2, <2>4, <3>3, <3>4 DEF ef
    <3> QED BY <3>5 DEF AccessTypes, D, R
  <2> QED BY <1>1, <2>5, <2>6, <2>7
<1> QED BY <1>2, <1>5, <1>6 DEF Genuine

LEMMA SourceGenuine ==
  ASSUME Typed, AllGenuine, NEW n \in sources, NextSource(n)
  PROVE  /\ Genuine(cur, summaries'[cur]) /\ summaries'[cur].params \subseteq ReturnedParams[cur]
         /\ \A q \in worklist' : Comes(cur, q)
<1>1. prog \in Programs /\ summaries \in [Items(Functions) -> Summary]
  BY DEF Typed
<1>2. cur \in prog.returns /\ n \in backward_slice(cur) /\ cur \in Items(Functions)
  BY <1>1, SourceFacts, ItemFacts
<1> DEFINE t == CASE Op(n) = "formal" -> FromFormal(summaries[cur], n)
                  [] Op(n) = "actualret" -> FromCall(summaries[cur], CallOf(n))
                  [] Op(n) = "addr" -> [summaries[cur] EXCEPT !.effects = @ \cup FromMalloc(n)]
<1>3. summaries' = [summaries EXCEPT ![cur] = t]
  BY DEF NextSource
<1>4. Genuine(cur, t) /\ t.params \subseteq ReturnedParams[cur]
  BY <1>1, <1>2, TakenGenuine DEF AllGenuine
<1>5. summaries'[cur] = t
  <2> HIDE DEF t
  <2> QED BY <1>1, <1>2, <1>3
<1>6. ASSUME NEW q \in worklist', NEW S, ClosedFrom(cur, S) PROVE Came(cur, q) \in S
  <2>1. Op(n) # "formal" /\ q \in Begins(n, [f \in prog.returns |-> summaries[f].params])
    BY <1>6 DEF NextSource
  <2> DEFINE P == [f \in prog.returns |-> summaries[f].params]
  <2>2. \A g \in prog.returns : P[g] \subseteq ReturnedParams[g]
    BY DEF AllGenuine
  <2> HIDE DEF P
  <2>3. Begins(n, P) \subseteq Begins(n, ReturnedParams)
    BY <2>2, BeginsMore
  <2>4. q \in Begins(n, ReturnedParams)
    BY <2>1, <2>3 DEF P
  <2> QED BY <1>1, <1>2, <1>6, <2>1, <2>4, OriginPlaces
<1>7. \A q \in worklist' : Comes(cur, q)
  BY <1>6 DEF Comes
<1> QED BY <1>4, <1>5, <1>7
-----------------------------------------------------------------------------
(* The steps. *)

LEMMA SameFurther ==
  ASSUME prog' = prog
  PROVE  /\ ReturnedParams' = ReturnedParams
         /\ \A i : Outset(i)' = Outset(i)
         /\ \A v : DoneAt(v)' = DoneAt(v)
         /\ \A S : Further(S)' = Further(S)
<1>1. /\ \A n : Op(n)' = Op(n) /\ SiteOf(n)' = SiteOf(n) /\ CallOf(n)' = CallOf(n)
      /\ \A s : callee_targets(s)' = callee_targets(s) /\ Functions' = Functions
      /\ \A f : backward_slice(f)' = backward_slice(f)
  BY SameNodes, SameSlices
<1>2. /\ \A p : Next3(p)' = Next3(p) /\ Passed(p)' = Passed(p) /\ Returned(p)' = Returned(p)
      /\ \A p : Transfer(p)' = Transfer(p) /\ KindAfter(p)' = KindAfter(p) /\ AtAny(p)' = AtAny(p)
      /\ \A p, at : Touched(p, at)' = Touched(p, at)
      /\ \A a, n : CalleeFormals(a, n)' = CalleeFormals(a, n)
      /\ \A s, fs, x : MayFollow(s, fs, x)' = MayFollow(s, fs, x)
      /\ \A n, ps : Begins(n, ps)' = Begins(n, ps)
      /\ \A n : Start(n)' = Start(n)
  BY SamePaths DEF Start
<1>3. ReturnedParams' = ReturnedParams
  BY <1>1 DEF ReturnedParams
<1>4. \A i : Outset(i)' = Outset(i)
  BY <1>1, <1>2 DEF Outset
<1>5. \A n, cs : FromMalloc(n)' = FromMalloc(n) /\ Allocated(n, cs)' = Allocated(n, cs)
  BY DEF FromMalloc, Allocated
<1>6. \A v : DoneAt(v)' = DoneAt(v)
  <2> SUFFICES ASSUME NEW v PROVE DoneAt(v)' = DoneAt(v)
    OBVIOUS
  <2>1. Touched(v.at, AtAny(v.at))' = Touched(v.at, AtAny(v.at))
    BY <1>2
  <2> DEFINE D(n) == FromMalloc(n) \cup (IF Op(n) = "actualret" THEN Allocated(n, callee_targets(CallOf(n))) ELSE {})
  <2>2. \A n : D(n)' = D(n)
    BY <1>1, <1>5
  <2>3. DoneAt(v) = IF v.of = None THEN Behind(v.whole \o v.at.fields, Touched(v.at, AtAny(v.at)))
                    ELSE UNION {D(n) : n \in backward_slice(v.of)}
    BY DEF DoneAt
  <2>4. DoneAt(v)' = IF v.of = None THEN Behind(v.whole \o v.at.fields, Touched(v.at, AtAny(v.at))')
                     ELSE UNION {D(n)' : n \in backward_slice(v.of)'}
    BY DEF DoneAt, Behind
  <2> HIDE DEF D
  <2> QED BY <1>1, <2>1, <2>2, <2>3, <2>4
<1>7. \A v : Origins(v)' = Origins(v)
  <2> SUFFICES ASSUME NEW v PROVE Origins(v)' = Origins(v)
    OBVIOUS
  <2> DEFINE G(n, q) == [v EXCEPT !.of = None, !.in = IF Op(n) = "formal" THEN n ELSE v.of, !.at = q]
             A(n) == {G(n, q) : q \in Begins(n, ReturnedParams)}
             B(n) == IF Op(n) # "actualret" THEN {}
                     ELSE {[v EXCEPT !.of = g] : g \in callee_targets(CallOf(n)) \cap prog.returns}
             C(n) == A(n) \cup B(n)
  <2>1. Origins(v) = IF v.of = None THEN {} ELSE UNION {C(n) : n \in backward_slice(v.of)}
    BY DEF Origins
  <2>2. Origins(v)' = IF v.of = None THEN {} ELSE UNION {C(n)' : n \in backward_slice(v.of)'}
    BY DEF Origins
  <2>3. \A n : Begins(n, ReturnedParams)' = Begins(n, ReturnedParams)
    BY <1>2, <1>3
  <2>7. \A n, q : G(n, q)' = G(n, q)
    BY <1>1
  <2>4. \A n : A(n)' = A(n)
    <3> HIDE DEF G
    <3> QED BY <2>3, <2>7
  <2>5. \A n : B(n)' = B(n)
    BY <1>1
  <2> HIDE DEF A, B
  <2>6. \A n : C(n)' = C(n)
    BY <2>4, <2>5
  <2> HIDE DEF C
  <2> QED BY <1>1, <2>1, <2>2, <2>6
<1>8. \A v : Along(v)' = Along(v) /\ PassedFields(v)' = PassedFields(v)
  BY <1>2 DEF Along, PassedFields
<1>9. \A v : Entering(v)' = Entering(v)
  <2> SUFFICES ASSUME NEW v PROVE Entering(v)' = Entering(v)
    OBVIOUS
  <2> DEFINE X == {y \in AtAny(v.at) : Within(PassedFields(v))}
             E(x) == {[of |-> None, whole |-> PassedFields(v), in |-> c, at |-> Start(c)] : c \in CalleeFormals(x[1], x[2])}
  <2>1. Entering(v) = UNION {E(x) : x \in X} /\ Entering(v)' = UNION {E(x)' : x \in X'}
    BY DEF Entering
  <2>2. X' = X
    BY <1>2, <1>8 DEF Within
  <2>3. \A x : E(x)' = E(x)
    BY <1>2, <1>8
  <2> HIDE DEF X, E
  <2> QED BY <2>1, <2>2, <2>3
<1>10. \A v, w : Leaving(w, v)' = Leaving(w, v)
  <2> SUFFICES ASSUME NEW v, NEW w PROVE Leaving(w, v)' = Leaving(w, v)
    OBVIOUS
  <2> DEFINE R(y, x) == /\ w.in \in CalleeFormals(x[1], x[2]) /\ y = prog.sites[SiteOf(x[1])].ret
                        /\ MayFollow(SiteOf(x[1]), Transfer(v.at).fields, Transfer(w.at).fields)
             Y == {y \in Returned(w.at) : \E x \in AtAny(v.at) : R(y, x)}
             Z(r) == [v EXCEPT !.at = [Start(r) EXCEPT !.fields = Transfer(v.at).fields \o Transfer(w.at).fields,
                                                       !.kind = KindAfter(w.at)]]
  <2>1. Leaving(w, v) = {Z(r) : r \in Y} /\ Leaving(w, v)' = {Z(r)' : r \in Y'}
    BY DEF Leaving
  <2>2. \A y, x : R(y, x)' = R(y, x)
    BY <1>1, <1>2
  <2>3. \A r : Z(r)' = Z(r)
    BY <1>2
  <2> HIDE DEF R, Z
  <2>4. Y' = Y
    BY <1>2, <2>2
  <2> HIDE DEF Y
  <2> QED BY <2>1, <2>3, <2>4
<1>11. \A S : Further(S)' = Further(S)
  <2> SUFFICES ASSUME NEW S PROVE Further(S)' = Further(S)
    OBVIOUS
  <2> DEFINE on == {v \in S : v.of = None}
             calls == {v \in on : Passed(v.at) # {}}
             ends == {w \in on : Returned(w.at) # {}}
             L(v) == UNION {Leaving(w, v) : w \in {x \in ends : x.whole = PassedFields(v)}}
             O == UNION {Origins(v) : v \in S \ on}
             A == UNION {Along(v) : v \in on}
             N == UNION {Entering(v) : v \in calls}
             B == UNION {L(v) : v \in calls}
  <2>1. Further(S) = O \cup A \cup N \cup B /\ Further(S)' = O' \cup A' \cup N' \cup B'
    BY DEF Further
  <2>2. calls' = calls /\ ends' = ends /\ on' = on
    BY <1>2
  <2>3. O' = O /\ A' = A
    BY <1>7, <1>8
  <2> HIDE DEF calls, ends
  <2>4. N' = N
    BY <1>9, <2>2
  <2>5. \A v : L(v)' = L(v)
    BY <1>8, <1>10, <2>2
  <2> HIDE DEF L
  <2>6. B' = B
    BY <2>2, <2>5
  <2> HIDE DEF O, A, N, B
  <2> QED BY <2>1, <2>3, <2>4, <2>6
<1> QED BY <1>3, <1>4, <1>6, <1>11

LEMMA SameGenuine ==
  ASSUME prog' = prog
  PROVE  \A i, s, q : (Genuine(i, s)' <=> Genuine(i, s)) /\ (Comes(i, q)' <=> Comes(i, q))
<1>1. \A i, S : ClosedFrom(i, S)' = ClosedFrom(i, S)
  BY SameFurther DEF ClosedFrom
<1>2. \A i, q : Comes(i, q)' <=> Comes(i, q)
  BY <1>1 DEF Comes, Came
<1>3. /\ \A p : Transfer(p)' = Transfer(p) /\ KindAfter(p)' = KindAfter(p) /\ IsArrayAccess(p)' = IsArrayAccess(p)
                /\ Returned(p)' = Returned(p)
      /\ \A v : DoneAt(v)' = DoneAt(v) /\ AllFormals' = AllFormals
  BY SamePaths, SameFurther, SameNodes
<1>4. \A S : AccessTypes(UNION {DoneAt(v) : v \in S})' = AccessTypes(UNION {DoneAt(v) : v \in S})
  BY <1>3 DEF AccessTypes
<1>5. \A i, s : Genuine(i, s)' <=> Genuine(i, s)
  <2> SUFFICES ASSUME NEW i, NEW s PROVE Genuine(i, s)' <=> Genuine(i, s)
    OBVIOUS
  <2> DEFINE P(S) == /\ AccessTypes(s.effects) \subseteq AccessTypes(UNION {DoneAt(v) : v \in S})
                     /\ s.array => \E v \in S : v.of = None /\ v.whole = <<>> /\ IsArrayAccess(v.at)
             E(S, x) == \E q : /\ Came(i, q) \in S /\ x.node = q.node /\ Returned(q) # {}
                               /\ x.fields = Transfer(q).fields /\ x.kind = KindAfter(q)
  <2>1. \A S : P(S)' = P(S)
    BY <1>3, <1>4 DEF AccessTypes
  <2>2. \A S, x : E(S, x)' = E(S, x)
    BY <1>3 DEF Came
  <2>3. Genuine(i, s) <=> \A S : ClosedFrom(i, S) => P(S) /\ (i \in AllFormals => \A x \in s.exits : E(S, x))
    BY DEF Genuine
  <2>4. Genuine(i, s)' <=> \A S : ClosedFrom(i, S)' => P(S)' /\ (i \in AllFormals' => \A x \in s.exits : E(S, x)')
    BY DEF Genuine
  <2> HIDE DEF P, E
  <2> QED BY <1>1, <1>3, <2>1, <2>2, <2>3, <2>4
<1> QED BY <1>2, <1>5

LEMMA GenuineIntro ==
  ASSUME prog' = prog,
         \A i \in Items(Functions) : Genuine(i, summaries'[i]),
         \A f \in prog.returns : summaries'[f].params \subseteq ReturnedParams[f],
         \A p \in worklist' : Comes(cur', p),
         whom' # None => whom' \in Items(Functions) /\ Outset(whom') \in places'
  PROVE  AllGenuine'
<1>1. Items(Functions)' = Items(Functions) /\ ReturnedParams' = ReturnedParams /\ \A i : Outset(i)' = Outset(i)
  BY SameNodes, SameFurther DEF Items
<1>2. \A i \in Items(Functions) : Genuine(i, summaries[i])'
  BY SameGenuine
<1>3. \A p \in worklist' : Comes(cur, p)'
  BY SameGenuine
<1>4. (whom # None => whom \in Items(Functions) /\ Outset(whom) \in places)'
  BY <1>1
<1>5. (\A f \in prog.returns : summaries[f].params \subseteq ReturnedParams[f])'
  BY <1>1
<1>6. (\A i \in Items(Functions) : Genuine(i, summaries[i]))'
  BY <1>1, <1>2
<1>7. (\A p \in worklist : Comes(cur, p))'
  BY <1>3
<1> QED BY <1>4, <1>5, <1>6, <1>7 DEF AllGenuine

LEMMA GenuineInit == Init => AllGenuine
<1> SUFFICES ASSUME Init PROVE AllGenuine
  OBVIOUS
<1>1. \A i \in Items(Functions) : summaries[i] = NoSummary
  BY DEF Init
<1>2. \A i : Genuine(i, NoSummary)
  BY DEF Genuine, NoSummary, AccessTypes
<1>3. \A f \in prog.returns : f \in Items(Functions)
  BY ItemFacts DEF Init
<1>4. worklist = {} /\ whom = None
  BY DEF Init
<1> QED BY <1>1, <1>2, <1>3, <1>4 DEF AllGenuine, NoSummary

\* Nothing but the entries, the exits of a parameter and the mark of an array counts.
LEMMA GenuineSame ==
  ASSUME NEW i, NEW s, NEW t, Same(i, t, s), Genuine(i, s)
  PROVE  Genuine(i, t)
<1>1. AccessTypes(t.effects) = AccessTypes(s.effects) /\ t.array = s.array /\ (i \in AllFormals => t.exits = s.exits)
  BY DEF Same
<1> QED BY <1>1 DEF Genuine

\* The value of a parameter begins at its node.
LEMMA BeginningComes ==
  ASSUME prog \in Programs, NEW i \in AllFormals
  PROVE  Comes(i, Start(i))
<1>1. i \notin Functions
  BY FormalFacts
<1> QED BY <1>1 DEF Comes, ClosedFrom, Outset, Came

LEMMA AllGenuineStep == Typed /\ AllGenuine /\ [Next]_vars => AllGenuine'
<1> SUFFICES ASSUME Typed, AllGenuine, [Next]_vars PROVE AllGenuine'
  OBVIOUS
<1>1. /\ prog \in Programs /\ summaries \in [Items(Functions) -> Summary]
      /\ \A i \in Items(Functions) : Genuine(i, summaries[i])
      /\ \A f \in prog.returns : summaries[f].params \subseteq ReturnedParams[f] /\ f \in Items(Functions)
      /\ \A p \in worklist : Comes(cur, p)
      /\ whom # None => whom \in Items(Functions) /\ Outset(whom) \in places
  BY ItemFacts DEF Typed, AllGenuine
<1>2. ASSUME NEW i \in todo, StartItem(i), UNCHANGED <<whom, places>>
      PROVE  AllGenuine'
  <2>1. prog' = prog /\ summaries' = summaries /\ cur' = i
        /\ worklist' = IF i \in AllFormals THEN {Start(i)} ELSE {}
    BY <1>2 DEF StartItem
  <2>2. \A p \in worklist' : Comes(cur', p)
    BY <1>1, <2>1, BeginningComes
  <2>3. /\ \A j \in Items(Functions) : Genuine(j, summaries'[j])
        /\ \A f \in prog.returns : summaries'[f].params \subseteq ReturnedParams[f]
        /\ whom' # None => whom' \in Items(Functions) /\ Outset(whom') \in places'
    BY <1>1, <1>2, <2>1
  <2> QED BY <2>1, <2>2, <2>3, GenuineIntro
<1>3. ASSUME NEW n \in sources, NextSource(n), UNCHANGED <<whom, places>>
      PROVE  AllGenuine'
  <2>1. prog' = prog /\ cur' = cur
    BY <1>3 DEF NextSource
  <2>2. \A i \in Items(Functions) : i # cur => summaries'[i] = summaries[i]
    BY <1>3, SourceFacts
  <2>3. /\ Genuine(cur, summaries'[cur]) /\ summaries'[cur].params \subseteq ReturnedParams[cur]
        /\ \A q \in worklist' : Comes(cur', q)
    BY <1>3, <2>1, SourceGenuine
  <2>4. \A i \in Items(Functions) : Genuine(i, summaries'[i])
    BY <1>1, <2>2, <2>3
  <2>5. \A f \in prog.returns : summaries'[f].params \subseteq ReturnedParams[f]
    BY <1>1, <2>2, <2>3
  <2> QED BY <1>1, <1>3, <2>1, <2>3, <2>4, <2>5, GenuineIntro
<1>4. ASSUME NEW p \in worklist, Drop(p), UNCHANGED <<whom, places>>
      PROVE  AllGenuine'
  <2>1. prog' = prog /\ summaries' = summaries /\ cur' = cur /\ worklist' \subseteq worklist
    BY <1>4 DEF Drop
  <2> QED BY <1>1, <1>4, <2>1, GenuineIntro
<1>5. ASSUME NEW p \in worklist, Track(p), UNCHANGED <<whom, places>>
      PROVE  AllGenuine'
  <2>1. prog' = prog /\ cur' = cur /\ worklist' = (worklist \ {p}) \cup Next3(p) \cup PathsMerged(p, summaries)
    BY <1>5 DEF Track
  <2>2. /\ cur \in Items(Functions) /\ p \in Paths /\ summaries'[cur] = Iterated(summaries[cur], p)
        /\ \A i \in Items(Functions) : i # cur => summaries'[i] = summaries[i]
    BY <1>5, TrackFacts
  <2>3. /\ Genuine(cur, summaries'[cur])
        /\ \A q \in Next3(p) \cup PathsMerged(p, summaries) : Comes(cur, q)
    BY <1>1, <2>2, IteratedGenuine
  <2>4. summaries[cur] \in Summary
    BY <1>1, <2>2
  <2>5. summaries'[cur].params = summaries[cur].params
    <3>1. Iterated(summaries[cur], p).params = summaries[cur].params
      BY <2>4, IteratedIs
    <3> QED BY <2>2, <3>1, Zenon
  <2>6. \A i \in Items(Functions) : Genuine(i, summaries'[i])
    BY <1>1, <2>2, <2>3
  <2>7. \A f \in prog.returns : summaries'[f].params \subseteq ReturnedParams[f]
    BY <1>1, <2>2, <2>5
  <2>8. \A q \in worklist' : Comes(cur', q)
    BY <1>1, <2>1, <2>3
  <2> QED BY <1>1, <1>5, <2>1, <2>6, <2>7, <2>8, GenuineIntro
<1>6. ASSUME EndItem, UNCHANGED <<whom, places>>
      PROVE  AllGenuine'
  <2>1. prog' = prog /\ worklist' = {}
    BY <1>6 DEF EndItem
  <2>2. /\ cur \in Items(Functions) /\ Same(cur, summaries'[cur], summaries[cur])
        /\ \A i \in Items(Functions) : i # cur => summaries'[i] = summaries[i]
    BY <1>6, EndFacts
  <2>3. Genuine(cur, summaries'[cur]) /\ summaries'[cur].params = summaries[cur].params
    BY <1>1, <2>2, GenuineSame DEF Same
  <2>4. \A i \in Items(Functions) : Genuine(i, summaries'[i])
    BY <1>1, <2>2, <2>3
  <2>5. \A f \in prog.returns : summaries'[f].params \subseteq ReturnedParams[f]
    BY <1>1, <2>2, <2>3
  <2>6. whom' # None => whom' \in Items(Functions) /\ Outset(whom') \in places'
    BY <1>1, <1>6
  <2>7. \A p \in worklist' : Comes(cur', p)
    BY <2>1
  <2> QED BY <2>1, <2>4, <2>5, <2>6, <2>7, GenuineIntro
<1>7. ASSUME NextRound \/ NextScc \/ Move \/ UNCHANGED vars, NextRound \/ NextScc => UNCHANGED <<whom, places>>
      PROVE  AllGenuine'
  <2>1. /\ prog' = prog /\ summaries' = summaries /\ cur' = cur /\ worklist' = worklist
        /\ whom' = whom /\ places' = places
    BY <1>7 DEF NextRound, NextScc, Move, vars, item, history, progress
  <2> QED BY <1>1, <2>1, GenuineIntro
<1>8. ASSUME NEW i \in Items(Functions), FollowAll(i)
      PROVE  AllGenuine'
  <2>1. /\ prog' = prog /\ summaries' = summaries /\ cur' = cur /\ worklist' = worklist
        /\ whom' = i /\ places' = {Outset(i)}
    BY <1>8 DEF FollowAll, item
  <2> QED BY <1>1, <2>1, GenuineIntro
<1>9. ASSUME GoOn
      PROVE  AllGenuine'
  <2>1. /\ prog' = prog /\ summaries' = summaries /\ cur' = cur /\ worklist' = worklist
        /\ whom' = whom /\ places \subseteq places'
    BY <1>9 DEF GoOn, item
  <2>2. whom' # None => whom' \in Items(Functions) /\ Outset(whom') \in places'
    BY <1>1, <2>1
  <2>3. /\ \A j \in Items(Functions) : Genuine(j, summaries'[j])
        /\ \A f \in prog.returns : summaries'[f].params \subseteq ReturnedParams[f]
        /\ \A p \in worklist' : Comes(cur', p)
    BY <1>1, <2>1
  <2> QED BY <2>1, <2>2, <2>3, GenuineIntro
<1>10. CASE Analysis
  BY <1>2, <1>3, <1>4, <1>5, <1>6, <1>7, <1>10 DEF Analysis, Analyse
<1>11. CASE Explore
  BY <1>8, <1>9, <1>11 DEF Explore
<1>12. CASE Move \/ UNCHANGED vars
  <2>1. NextRound \/ NextScc => UNCHANGED <<whom, places>>
    BY <1>12 DEF Move, vars
  <2> QED BY <1>7, <1>12, <2>1
<1> QED BY <1>10, <1>11, <1>12 DEF Next

LEMMA NothingInventedInv == AllGenuine => NothingInvented
<1> SUFFICES ASSUME AllGenuine, whom # None, Further(places) \subseteq places
             PROVE  /\ AccessTypes(summaries[whom].effects) \subseteq AccessTypes(UNION {DoneAt(v) : v \in places})
                    /\ summaries[whom].array => \E v \in places : v.of = None /\ v.whole = <<>> /\ IsArrayAccess(v.at)
  BY DEF NothingInvented
<1>1. ClosedFrom(whom, places) /\ Genuine(whom, summaries[whom])
  BY DEF AllGenuine, ClosedFrom
<1> QED BY <1>1 DEF Genuine

\* A summary tells nothing that happens to no value on its way through the program: at all times of the analysis, for
\* any program, however deep its calls and whichever functions are recursive (summarize_from, summarize_return,
\* merge_summary, get_resume_node).
THEOREM SummariesGenuine == Spec => []NothingInvented
<1>1. Init => IInv /\ AllGenuine
  BY InitInv, GenuineInit
<1>2. IInv /\ AllGenuine /\ [Next]_vars => (IInv /\ AllGenuine)'
  BY StepInv, AllGenuineStep DEF IInv
<1> QED BY <1>1, <1>2, NothingInventedInv, PTL DEF Spec
=============================================================================
