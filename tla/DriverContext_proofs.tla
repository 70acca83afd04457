------------------------ MODULE DriverContext_proofs ------------------------
(***************************************************************************)
(* Proofs about DriverContext, for every library and every length of the   *)
(* driver.  First what the operations of the context return (UpdateVar and *)
(* those it is made of), then what each action does in terms of the        *)
(* variables that are alive, created and pending.  The invariants:         *)
(* PendingInv ties pending lengths to arrays that are alive; Gone says that*)
(* what a sink took is nowhere in sight; Tracked that the context knows the*)
(* length of an array that is alive; AliveInv where the structures that are*)
(* alive come from; Known that what was initialised stays marked.          *)
(***************************************************************************)
EXTENDS DriverContext, SequenceTheorems, TLAPS

Var == [type : Types, n : Nat, heap : BOOLEAN]
Cond == [file : BOOLEAN, init : BOOLEAN, len : Var \cup {NoVar}]
CondFunction == UNION {[S -> Cond] : S \in SUBSET Var}
Context == [variables_alive : Seq(Var), var_to_cond : CondFunction,
            new_vars : SUBSET [var : Var, len : Var], buffs_counter : [Types -> Nat]]

\* A variable that was created.
Old(c, v) == v.n < c.buffs_counter[v.type]

Elements(s) == {s[j] : j \in DOMAIN s}
Distinct(s) == \A j, k \in DOMAIN s : s[j] = s[k] => j = k

\* The context agrees with itself.
CtxInv(c) ==
  /\ c \in Context
  /\ DOMAIN c.var_to_cond = Alive(c)
  /\ Distinct(c.variables_alive)
  /\ \A v \in Alive(c) : Old(c, v)
  /\ \A n \in c.new_vars : Old(c, n.var) /\ Old(c, n.len)
-----------------------------------------------------------------------------
(* The list of variables. *)

\* Removing an element of a list without repetitions removes it from the set of its elements.
LEMMA RemovedElements ==
  ASSUME NEW S, NEW s \in Seq(S), NEW v, \E k \in DOMAIN s : s[k] = v, Distinct(s)
  PROVE  /\ Removed(s, v) \in Seq(S)
         /\ Distinct(Removed(s, v))
         /\ Elements(Removed(s, v)) = Elements(s) \ {v}
<1> DEFINE i == CHOOSE k \in DOMAIN s : s[k] = v
           a == SubSeq(s, 1, i - 1)
           b == SubSeq(s, i + 1, Len(s))
           r == Removed(s, v)
<1>1. Len(s) \in Nat /\ DOMAIN s = 1..Len(s) /\ \A j \in 1..Len(s) : s[j] \in S
  BY LenProperties, ElementOfSeq
<1>2. i \in 1..Len(s) /\ s[i] = v
  BY <1>1
<1> HIDE DEF i
<1>3. a \in Seq(S) /\ Len(a) = i - 1 /\ \A j \in 1..(i - 1) : a[j] = s[j]
  <2>1. 1 \in Int /\ i - 1 \in Int /\ \A j \in 1..(i - 1) : s[j] \in S
    BY <1>1, <1>2
  <2>2. /\ a \in Seq(S) /\ Len(a) = IF 1 <= i - 1 THEN (i - 1) - 1 + 1 ELSE 0
        /\ \A j \in 1..((i - 1) - 1 + 1) : a[j] = s[1 + j - 1]
    BY <2>1, SubSeqProperties
  <2> QED
    BY <2>2, <1>2
<1>4. b \in Seq(S) /\ Len(b) = Len(s) - i /\ \A j \in 1..(Len(s) - i) : b[j] = s[i + j]
  <2>1. i + 1 \in Int /\ Len(s) \in Int /\ \A j \in (i + 1)..Len(s) : s[j] \in S
    BY <1>1, <1>2
  <2>2. /\ b \in Seq(S) /\ Len(b) = IF i + 1 <= Len(s) THEN Len(s) - (i + 1) + 1 ELSE 0
        /\ \A j \in 1..(Len(s) - (i + 1) + 1) : b[j] = s[(i + 1) + j - 1]
    BY <2>1, SubSeqProperties
  <2> HIDE DEF b
  <2>3. Len(b) = Len(s) - i
    <3> DEFINE l == Len(s)
    <3>1. Len(b) = IF i + 1 <= l THEN l - (i + 1) + 1 ELSE 0
      BY <2>2
    <3>2. l \in Nat /\ i \in 1..l
      BY <1>1, <1>2
    <3> HIDE DEF l
    <3>3. Len(b) = l - i
      BY <3>1, <3>2
    <3> QED
      BY <3>3 DEF l
  <2>4. ASSUME NEW j \in 1..(Len(s) - i) PROVE b[j] = s[i + j]
    <3>1. j \in 1..(Len(s) - (i + 1) + 1) /\ (i + 1) + j - 1 = i + j
      BY <1>1, <1>2
    <3> QED
      BY <2>2, <3>1
  <2> QED
    BY <2>2, <2>3, <2>4
<1>5. r = a \o b
  BY DEF Removed, RemoveAt, i
<1> HIDE DEF a, b, r
<1>6. /\ r \in Seq(S) /\ Len(r) = Len(s) - 1 /\ DOMAIN r = 1..(Len(s) - 1)
      /\ \A j \in 1..(Len(s) - 1) : r[j] = IF j <= i - 1 THEN a[j] ELSE b[j - (i - 1)]
  <2>1. /\ r \in Seq(S) /\ Len(r) = Len(a) + Len(b)
        /\ \A j \in 1..(Len(a) + Len(b)) : r[j] = IF j <= Len(a) THEN a[j] ELSE b[j - Len(a)]
    BY <1>3, <1>4, <1>5, ConcatProperties
  <2>2. DOMAIN r = 1..Len(r)
    BY <2>1, LenProperties
  <2>3. Len(a) + Len(b) = Len(s) - 1
    BY <1>1, <1>2, <1>3, <1>4
  <2> QED
    BY <2>1, <2>2, <2>3, <1>3
<1>7. \A j \in 1..(Len(s) - 1) : r[j] = IF j < i THEN s[j] ELSE s[j + 1]
  <2> TAKE j \in 1..(Len(s) - 1)
  <2>1. CASE j < i
    BY <2>1, <1>1, <1>2, <1>3, <1>6
  <2>2. CASE ~(j < i)
    <3>1. j - (i - 1) \in 1..(Len(s) - i) /\ i + (j - (i - 1)) = j + 1
      BY <2>2, <1>1, <1>2
    <3>2. r[j] = b[j - (i - 1)]
      BY <1>1, <1>2, <1>6, <2>2
    <3>3. b[j - (i - 1)] = s[j + 1]
      BY <3>1, <1>4
    <3> QED
      BY <3>2, <3>3, <2>2
  <2> QED
    BY <2>1, <2>2
<1>8. Distinct(r)
  <2> SUFFICES ASSUME NEW j \in DOMAIN r, NEW k \in DOMAIN r, r[j] = r[k] PROVE j = k
    BY DEF Distinct
  <2> DEFINE jj == IF j < i THEN j ELSE j + 1
             kk == IF k < i THEN k ELSE k + 1
  <2>1. jj \in DOMAIN s /\ kk \in DOMAIN s /\ (jj = kk => j = k)
    BY <1>1, <1>2, <1>6
  <2>2. r[j] = s[jj] /\ r[k] = s[kk]
    BY <1>6, <1>7
  <2> HIDE DEF jj, kk
  <2>3. jj = kk
    BY <2>1, <2>2 DEF Distinct
  <2> QED
    BY <2>1, <2>3
<1>9. ASSUME NEW x, \E j \in DOMAIN r : x = r[j] PROVE x # v /\ \E j \in DOMAIN s : x = s[j]
  <2>1. PICK j \in 1..(Len(s) - 1) : x = r[j]
    BY <1>6, <1>9
  <2>2. CASE j < i
    BY <2>1, <2>2, <1>1, <1>2, <1>7 DEF Distinct
  <2>3. CASE ~(j < i)
    BY <2>1, <2>3, <1>1, <1>2, <1>7 DEF Distinct
  <2> QED
    BY <2>2, <2>3
<1>10. ASSUME NEW j \in DOMAIN s, s[j] # v PROVE \E k \in DOMAIN r : s[j] = r[k]
  <2>1. j \in 1..Len(s) /\ j # i
    BY <1>1, <1>2, <1>10
  <2>2. CASE j < i
    <3>1. j \in 1..(Len(s) - 1) /\ r[j] = s[j]
      BY <2>1, <2>2, <1>1, <1>2, <1>7
    <3> QED
      BY <3>1, <1>6
  <2>3. CASE j > i
    <3>1. j - 1 \in 1..(Len(s) - 1) /\ r[j - 1] = s[j]
      BY <2>1, <2>3, <1>1, <1>2, <1>7
    <3> QED
      BY <3>1, <1>6
  <2> QED
    BY <2>1, <2>2, <2>3, <1>1, <1>2
<1>11. Elements(r) = Elements(s) \ {v}
  BY <1>9, <1>10 DEF Elements
<1> QED
  BY <1>6, <1>8, <1>11 DEF r

\* Appending a new element.
LEMMA AppendedElements ==
  ASSUME NEW S, NEW s \in Seq(S), NEW v \in S, \A k \in DOMAIN s : s[k] # v, Distinct(s)
  PROVE  /\ Append(s, v) \in Seq(S)
         /\ Distinct(Append(s, v))
         /\ Elements(Append(s, v)) = Elements(s) \cup {v}
<1> DEFINE r == Append(s, v)
<1>1. Len(s) \in Nat /\ DOMAIN s = 1..Len(s)
  BY LenProperties
<1>2. /\ r \in Seq(S) /\ DOMAIN r = 1..(Len(s) + 1)
      /\ r[Len(s) + 1] = v /\ \A j \in 1..Len(s) : r[j] = s[j]
  BY <1>1
<1> HIDE DEF r
<1>3. Distinct(r)
  BY <1>1, <1>2 DEF Distinct
<1>4. ASSUME NEW x, \E j \in DOMAIN r : x = r[j] PROVE x = v \/ \E j \in DOMAIN s : x = s[j]
  BY <1>1, <1>2, <1>4
<1>5. ASSUME NEW x, x = v \/ \E j \in DOMAIN s : x = s[j] PROVE \E j \in DOMAIN r : x = r[j]
  <2>1. CASE x = v
    BY <1>1, <1>2, <2>1
  <2>2. CASE \E j \in DOMAIN s : x = s[j]
    BY <1>1, <1>2, <2>2
  <2> QED
    BY <1>5, <2>1, <2>2
<1>6. Elements(r) = Elements(s) \cup {v}
  <2>1. \A x : x \in Elements(r) <=> \E j \in DOMAIN r : x = r[j]
    BY DEF Elements
  <2>2. \A x : x \in Elements(s) <=> \E j \in DOMAIN s : x = s[j]
    BY DEF Elements
  <2>3. \A x : x \in Elements(r) <=> x \in Elements(s) \cup {v}
    BY <1>4, <1>5, <2>1, <2>2
  <2> QED
    BY <2>3
<1> QED
  BY <1>2, <1>3, <1>6 DEF r
-----------------------------------------------------------------------------
(* What the operations on the context do to it. *)

\* The functions of conditions.
LEMMA CondFunctionFacts ==
  ASSUME NEW f \in CondFunction
  PROVE  DOMAIN f \subseteq Var /\ f = [w \in DOMAIN f |-> f[w]] /\ \A w \in DOMAIN f : f[w] \in Cond
BY DEF CondFunction

LEMMA IsCondFunction ==
  ASSUME NEW f, DOMAIN f \subseteq Var, f = [w \in DOMAIN f |-> f[w]], \A w \in DOMAIN f : f[w] \in Cond
  PROVE  f \in CondFunction
<1>1. f \in [DOMAIN f -> Cond]
  OBVIOUS
<1> QED
  BY <1>1 DEF CondFunction

\* The fields of a context.
LEMMA ContextFields ==
  ASSUME NEW c \in Context
  PROVE  /\ c.variables_alive \in Seq(Var) /\ c.var_to_cond \in CondFunction
         /\ c.new_vars \in SUBSET [var : Var, len : Var] /\ c.buffs_counter \in [Types -> Nat]
         /\ Alive(c) \subseteq Var
<1>1. /\ c.variables_alive \in Seq(Var) /\ c.var_to_cond \in CondFunction
      /\ c.new_vars \in SUBSET [var : Var, len : Var] /\ c.buffs_counter \in [Types -> Nat]
  BY DEF Context
<1>2. DOMAIN c.variables_alive = 1..Len(c.variables_alive)
  BY <1>1, LenProperties
<1>3. \A k \in DOMAIN c.variables_alive : c.variables_alive[k] \in Var
  BY <1>1, <1>2, ElementOfSeq
<1> QED
  BY <1>1, <1>3 DEF Alive

\* A variable that is forgotten is not alive any more, and no length is pending for it.
LEMMA ForgetResult ==
  ASSUME NEW c, CtxInv(c), NEW v \in Alive(c)
  PROVE  LET d == Forget(c, v)
         IN  /\ CtxInv(d)
             /\ Alive(d) = Alive(c) \ {v}
             /\ \A w \in Alive(d) : d.var_to_cond[w] = c.var_to_cond[w]
             /\ d.new_vars = {n \in c.new_vars : n.var # v}
             /\ d.buffs_counter = c.buffs_counter
<1> DEFINE d == Forget(c, v)
           f == [w \in DOMAIN c.var_to_cond \ {v} |-> c.var_to_cond[w]]
<1>1. c \in Context /\ DOMAIN c.var_to_cond = Alive(c) /\ Distinct(c.variables_alive)
  BY DEF CtxInv
<1>2. /\ d.variables_alive = Removed(c.variables_alive, v) /\ d.var_to_cond = f
      /\ d.new_vars = {n \in c.new_vars : n.var # v} /\ d.buffs_counter = c.buffs_counter
      /\ d = [variables_alive |-> d.variables_alive, var_to_cond |-> d.var_to_cond,
              new_vars |-> d.new_vars, buffs_counter |-> d.buffs_counter]
  <2> DEFINE s == Removed(c.variables_alive, v)
             h == {n \in c.new_vars : n.var # v}
  <2>1. d = [c EXCEPT !.variables_alive = s, !.var_to_cond = f, !.new_vars = h]
    BY DEF Forget
  <2> HIDE DEF d, s, f, h
  <2>2. /\ d.variables_alive = s /\ d.var_to_cond = f /\ d.new_vars = h /\ d.buffs_counter = c.buffs_counter
        /\ d = [variables_alive |-> d.variables_alive, var_to_cond |-> d.var_to_cond,
                new_vars |-> d.new_vars, buffs_counter |-> d.buffs_counter]
    BY <1>1, <2>1 DEF Context
  <2> QED
    BY <2>2 DEF s, h
<1>3. /\ d.variables_alive \in Seq(Var) /\ Distinct(d.variables_alive)
      /\ Alive(d) = Alive(c) \ {v}
  <2> DEFINE s == c.variables_alive
             r == Removed(s, v)
  <2>1. s \in Seq(Var) /\ Distinct(s) /\ \E k \in DOMAIN s : s[k] = v
    BY <1>1, ContextFields DEF Alive
  <2> HIDE DEF s
  <2>2. r \in Seq(Var) /\ Distinct(r) /\ Elements(r) = Elements(s) \ {v}
    BY <2>1, RemovedElements
  <2>3. d.variables_alive = r
    BY <1>2 DEF s
  <2> HIDE DEF r, d
  <2>4. Alive(d) = Elements(r) /\ Alive(c) = Elements(s)
    BY <2>3 DEF Alive, Elements, s
  <2> QED
    BY <2>2, <2>3, <2>4
<1>4. f \in CondFunction /\ DOMAIN f = Alive(c) \ {v}
  BY <1>1, ContextFields, CondFunctionFacts, IsCondFunction
<1>5. d.new_vars \in SUBSET [var : Var, len : Var] /\ d.buffs_counter \in [Types -> Nat]
  BY <1>1, <1>2, ContextFields
<1>6. d \in Context
  BY <1>2, <1>3, <1>4, <1>5 DEF Context
<1>7. CtxInv(d)
  BY <1>1, <1>2, <1>3, <1>4, <1>6 DEF CtxInv, Old
<1>8. \A w \in Alive(d) : d.var_to_cond[w] = c.var_to_cond[w]
  BY <1>1, <1>2, <1>3, <1>4
<1> QED
  BY <1>2, <1>3, <1>7, <1>8

\* A variable that is added is alive, with the file mark it is given.
LEMMA AddVariableResult ==
  ASSUME NEW c, CtxInv(c), NEW v \in Var, Old(c, v), NEW file \in BOOLEAN
  PROVE  LET d == AddVariable(c, v, file)
         IN  /\ CtxInv(d)
             /\ Alive(d) = Alive(c) \cup {v}
             /\ \A w \in Alive(c) \ {v} : d.var_to_cond[w] = c.var_to_cond[w]
             /\ v \in Alive(c) => /\ d.var_to_cond[v].len = c.var_to_cond[v].len
                                  /\ d.var_to_cond[v].init = c.var_to_cond[v].init
             /\ v \notin Alive(c) => d.var_to_cond[v].len = NoVar
             /\ d.var_to_cond[v].file = file
             /\ d.new_vars = c.new_vars
             /\ d.buffs_counter = c.buffs_counter
<1> DEFINE d == AddVariable(c, v, file)
           g == [file |-> file, init |-> FALSE, len |-> NoVar]
           f == [w \in DOMAIN c.var_to_cond \cup {v} |-> IF w = v THEN g ELSE c.var_to_cond[w]]
<1>1. c \in Context /\ DOMAIN c.var_to_cond = Alive(c) /\ Distinct(c.variables_alive)
  BY DEF CtxInv
<1>2. c.var_to_cond \in CondFunction /\ c.variables_alive \in Seq(Var)
  BY <1>1, ContextFields
<1>3. CASE v \in Alive(c)
  <2> DEFINE e == [c.var_to_cond EXCEPT ![v].file = file]
  <2>1. /\ d.variables_alive = c.variables_alive /\ d.var_to_cond = e
        /\ d.new_vars = c.new_vars /\ d.buffs_counter = c.buffs_counter
        /\ d = [variables_alive |-> d.variables_alive, var_to_cond |-> d.var_to_cond,
                new_vars |-> d.new_vars, buffs_counter |-> d.buffs_counter]
    BY <1>1, <1>3 DEF Context, AddVariable
  <2>2. c.var_to_cond[v] \in Cond
    BY <1>1, <1>2, <1>3, CondFunctionFacts
  <2>3. /\ DOMAIN e = DOMAIN c.var_to_cond /\ e = [w \in DOMAIN e |-> e[w]]
        /\ e[v] = [c.var_to_cond[v] EXCEPT !.file = file]
        /\ \A w \in DOMAIN e \ {v} : e[w] = c.var_to_cond[w]
    BY <1>1, <1>2, <1>3, CondFunctionFacts
  <2>4. /\ e[v] \in Cond /\ e[v].file = file /\ e[v].len = c.var_to_cond[v].len
        /\ e[v].init = c.var_to_cond[v].init
    BY <2>2, <2>3 DEF Cond
  <2> HIDE DEF e
  <2>5. e \in CondFunction
    BY <1>2, <2>3, <2>4, CondFunctionFacts, IsCondFunction
  <2>6. d \in Context
    BY <1>1, <2>1, <2>5, ContextFields DEF Context
  <2>7. Alive(d) = Alive(c)
    BY <2>1 DEF Alive
  <2>8. CtxInv(d)
    BY <1>1, <2>1, <2>3, <2>6, <2>7 DEF CtxInv, Old
  <2> QED
    BY <1>1, <1>3, <2>1, <2>3, <2>4, <2>7, <2>8
<1>4. CASE v \notin Alive(c)
  <2>1. /\ d.variables_alive = Append(c.variables_alive, v) /\ d.var_to_cond = f
        /\ d.new_vars = c.new_vars /\ d.buffs_counter = c.buffs_counter
        /\ d = [variables_alive |-> d.variables_alive, var_to_cond |-> d.var_to_cond,
                new_vars |-> d.new_vars, buffs_counter |-> d.buffs_counter]
    BY <1>1, <1>4 DEF Context, AddVariable
  <2>2. g \in Cond /\ g.file = file /\ g.len = NoVar
    BY DEF Cond
  <2>3. /\ DOMAIN f = Alive(c) \cup {v} /\ f[v] = g
        /\ \A w \in Alive(c) : f[w] = c.var_to_cond[w]
    BY <1>1, <1>4
  <2> HIDE DEF g
  <2>4. f \in CondFunction
    <3>1. DOMAIN f \subseteq Var
      BY <1>1, <2>3, ContextFields
    <3>2. \A w \in DOMAIN f : f[w] \in Cond
      BY <1>1, <1>2, <2>2, <2>3, CondFunctionFacts
    <3>3. f = [w \in DOMAIN f |-> f[w]]
      OBVIOUS
    <3> HIDE DEF f
    <3> QED
      BY <3>1, <3>2, <3>3, IsCondFunction
  <2> HIDE DEF f
  <2>5. /\ d.variables_alive \in Seq(Var) /\ Distinct(d.variables_alive)
        /\ Alive(d) = Alive(c) \cup {v}
    <3>1. \A k \in DOMAIN c.variables_alive : c.variables_alive[k] # v
      BY <1>4 DEF Alive
    <3> QED
      BY <1>1, <1>2, <2>1, <3>1, AppendedElements DEF Alive, Elements
  <2>6. d \in Context
    BY <1>1, <2>1, <2>4, <2>5, ContextFields DEF Context
  <2>7. CtxInv(d)
    BY <1>1, <2>1, <2>3, <2>5, <2>6 DEF CtxInv, Old
  <2> QED
    BY <1>1, <1>4, <2>1, <2>2, <2>3, <2>5, <2>7
<1> QED
  BY <1>3, <1>4

\* What update_var makes of context c.  A variable that is alive and given to a sink is forgotten; any
\* other is alive afterwards.  A result that overwrites it starts from scratch.
Updated(c, d, v, file, isRet, sink) ==
  /\ CtxInv(d)
  /\ d.buffs_counter = c.buffs_counter
  /\ Alive(d) = IF v \in Alive(c) /\ ~isRet /\ sink THEN Alive(c) \ {v} ELSE Alive(c) \cup {v}
  /\ d.new_vars = IF v \in Alive(c) /\ (isRet \/ sink) THEN {n \in c.new_vars : n.var # v} ELSE c.new_vars
  /\ \A w \in Alive(c) \ {v} : d.var_to_cond[w] = c.var_to_cond[w]
  /\ ~(v \in Alive(c) /\ ~isRet /\ sink) =>
       /\ d.var_to_cond[v].file = file
       /\ d.var_to_cond[v].len = IF v \in Alive(c) /\ ~isRet THEN c.var_to_cond[v].len ELSE NoVar

LEMMA UpdateVarResult ==
  ASSUME NEW c, CtxInv(c), NEW v \in Var, Old(c, v),
         NEW file \in BOOLEAN, NEW isRet, NEW sink, NEW init
  PROVE  Updated(c, UpdateVar(c, v, file, isRet, sink, init), v, file, isRet, sink)
<1> DEFINE d == UpdateVar(c, v, file, isRet, sink, init)
           fresh == IF isRet /\ v \in Alive(c) THEN Forget(c, v) ELSE c
           added == AddVariable(fresh, v, file)
           done == [added EXCEPT !.var_to_cond[v].init = (@ \/ init) /\ ~sink]
           released == v \in Alive(c) /\ ~isRet /\ sink
<1>1. /\ CtxInv(fresh) /\ fresh.buffs_counter = c.buffs_counter
      /\ Alive(fresh) = IF isRet THEN Alive(c) \ {v} ELSE Alive(c)
      /\ \A w \in Alive(fresh) : fresh.var_to_cond[w] = c.var_to_cond[w]
      /\ fresh.new_vars = IF v \in Alive(c) /\ isRet THEN {n \in c.new_vars : n.var # v} ELSE c.new_vars
      /\ Old(fresh, v)
  <2>1. CASE isRet /\ v \in Alive(c)
    <3>1. fresh = Forget(c, v)
      BY <2>1
    <3> HIDE DEF fresh
    <3> QED
      BY <2>1, <3>1, ForgetResult DEF Old
  <2>2. CASE ~(isRet /\ v \in Alive(c))
    BY <2>2
  <2> QED
    BY <2>1, <2>2
<1>2. DOMAIN fresh.var_to_cond = Alive(fresh)
  BY <1>1 DEF CtxInv
<1> HIDE DEF fresh
<1>3. /\ CtxInv(added) /\ added.buffs_counter = c.buffs_counter /\ added.new_vars = fresh.new_vars
      /\ Alive(added) = Alive(c) \cup {v}
      /\ \A w \in Alive(c) \ {v} : added.var_to_cond[w] = c.var_to_cond[w]
      /\ added.var_to_cond[v].file = file
      /\ added.var_to_cond[v].len = IF v \in Alive(c) /\ ~isRet THEN c.var_to_cond[v].len ELSE NoVar
  BY <1>1, AddVariableResult
<1>4. v \in DOMAIN fresh.var_to_cond /\ sink <=> released
  BY <1>1, <1>2
<1>5. d = IF released THEN Forget(added, v) ELSE done
  BY <1>4 DEF UpdateVar, IsReleased, fresh
<1> HIDE DEF d, added
<1> SUFFICES Updated(c, d, v, file, isRet, sink)
  BY DEF d
<1>6. CASE released
  <2>1. d = Forget(added, v) /\ v \in Alive(added)
    BY <1>3, <1>5, <1>6
  <2>2. /\ CtxInv(d) /\ Alive(d) = Alive(added) \ {v}
        /\ \A w \in Alive(d) : d.var_to_cond[w] = added.var_to_cond[w]
        /\ d.new_vars = {n \in added.new_vars : n.var # v}
        /\ d.buffs_counter = added.buffs_counter
    BY <1>3, <2>1, ForgetResult
  <2>3. Alive(d) = Alive(c) \ {v}
    BY <1>3, <2>2
  <2>4. d.new_vars = {n \in c.new_vars : n.var # v}
    BY <1>1, <1>3, <1>6, <2>2
  <2> QED
    BY <1>3, <1>6, <2>2, <2>3, <2>4 DEF Updated
<1>7. CASE ~released
  <2> DEFINE e == [added.var_to_cond EXCEPT ![v].init = (@ \/ init) /\ ~sink]
  <2>1. d = [added EXCEPT !.var_to_cond = e]
    BY <1>5, <1>7
  <2>2. added \in Context /\ DOMAIN added.var_to_cond = Alive(added) /\ v \in Alive(added)
    BY <1>3 DEF CtxInv
  <2>3. added.var_to_cond \in CondFunction /\ added.var_to_cond[v] \in Cond
    BY <2>2, ContextFields, CondFunctionFacts
  <2>4. /\ DOMAIN e = Alive(added) /\ e = [w \in DOMAIN e |-> e[w]]
        /\ \A w \in DOMAIN e \ {v} : e[w] = added.var_to_cond[w]
        /\ e[v] = [added.var_to_cond[v] EXCEPT !.init = (@ \/ init) /\ ~sink]
    BY <2>2, <2>3, CondFunctionFacts
  <2>5. e[v] \in Cond /\ e[v].file = file /\ e[v].len = added.var_to_cond[v].len
    BY <1>3, <2>3, <2>4 DEF Cond
  <2> HIDE DEF e
  <2>6. e \in CondFunction
    BY <2>2, <2>3, <2>4, <2>5, CondFunctionFacts, IsCondFunction
  <2>7. /\ d.variables_alive = added.variables_alive /\ d.var_to_cond = e /\ d.new_vars = added.new_vars
        /\ d.buffs_counter = added.buffs_counter /\ d \in Context
    BY <2>1, <2>2, <2>6 DEF Context
  <2>8. Alive(d) = Alive(added)
    BY <2>7 DEF Alive
  <2>9. CtxInv(d)
    BY <1>3, <2>2, <2>4, <2>7, <2>8 DEF CtxInv, Old
  <2>10. d.new_vars = IF v \in Alive(c) /\ (isRet \/ sink) THEN {n \in c.new_vars : n.var # v} ELSE c.new_vars
    BY <1>1, <1>3, <1>7, <2>7
  <2>11. \A w \in Alive(c) \ {v} : d.var_to_cond[w] = c.var_to_cond[w]
    BY <1>3, <2>4, <2>7
  <2> QED
    BY <1>3, <1>7, <2>5, <2>7, <2>8, <2>9, <2>10, <2>11 DEF Updated
<1> QED
  BY <1>6, <1>7

\* update_var keeps that an argument is initialised, and records it.
KeepsInit(c, d, v, sink, init) ==
  ~sink /\ (init \/ (v \in Alive(c) /\ c.var_to_cond[v].init)) => d.var_to_cond[v].init

LEMMA UpdateVarInit ==
  ASSUME NEW c, CtxInv(c), NEW v \in Var, Old(c, v), NEW file \in BOOLEAN, NEW sink \in BOOLEAN, NEW init \in BOOLEAN
  PROVE  KeepsInit(c, UpdateVar(c, v, file, FALSE, sink, init), v, sink, init)
<1> DEFINE d == UpdateVar(c, v, file, FALSE, sink, init)
           added == AddVariable(c, v, file)
           e == [added.var_to_cond EXCEPT ![v].init = (@ \/ init) /\ ~sink]
<1> SUFFICES ASSUME ~sink, init \/ (v \in Alive(c) /\ c.var_to_cond[v].init)
             PROVE  d.var_to_cond[v].init
  BY DEF KeepsInit
<1>1. /\ CtxInv(added) /\ v \in Alive(added)
      /\ v \in Alive(c) => added.var_to_cond[v].init = c.var_to_cond[v].init
  BY AddVariableResult
<1>2. d = [added EXCEPT !.var_to_cond = e]
  BY DEF UpdateVar, IsReleased
<1>3. added \in Context /\ added.var_to_cond \in CondFunction /\ DOMAIN added.var_to_cond = Alive(added)
  BY <1>1, ContextFields DEF CtxInv
<1>4. added.var_to_cond[v] \in Cond
  BY <1>1, <1>3, CondFunctionFacts
<1> HIDE DEF d, added
<1>5. e[v] = [added.var_to_cond[v] EXCEPT !.init = (@ \/ init) /\ ~sink]
  BY <1>1, <1>3, CondFunctionFacts
<1>6. e[v].init = ((added.var_to_cond[v].init \/ init) /\ ~sink)
  BY <1>4, <1>5 DEF Cond
<1> HIDE DEF e
<1>7. d.var_to_cond = e
  BY <1>2, <1>3 DEF Context
<1> QED
  BY <1>1, <1>6, <1>7

\* Creating a variable changes nothing but the counter of its type.
LEMMA CreatedResult ==
  ASSUME NEW c, CtxInv(c), NEW t \in Types, NEW heap \in BOOLEAN
  PROVE  LET d == Created(c, t)
             x == NewVar(c, t, heap)
         IN  /\ CtxInv(d)
             /\ Alive(d) = Alive(c) /\ d.var_to_cond = c.var_to_cond /\ d.new_vars = c.new_vars
             /\ \A v \in Var : Old(c, v) => Old(d, v)
             /\ x \in Var /\ ~Old(c, x) /\ Old(d, x) /\ x.type = t
<1> DEFINE d == Created(c, t)
           x == NewVar(c, t, heap)
<1>1. c \in Context /\ c.buffs_counter \in [Types -> Nat]
  BY ContextFields DEF CtxInv
<1>2. /\ d.variables_alive = c.variables_alive /\ d.var_to_cond = c.var_to_cond /\ d.new_vars = c.new_vars
      /\ d.buffs_counter = [c.buffs_counter EXCEPT ![t] = @ + 1] /\ d \in Context
  <2> DEFINE f == [c.buffs_counter EXCEPT ![t] = @ + 1]
  <2>1. d = [c EXCEPT !.buffs_counter = f]
    BY DEF Created
  <2>2. f \in [Types -> Nat]
    BY <1>1
  <2> HIDE DEF d, f
  <2>3. /\ d.variables_alive = c.variables_alive /\ d.var_to_cond = c.var_to_cond /\ d.new_vars = c.new_vars
        /\ d.buffs_counter = f /\ d \in Context
    BY <1>1, <2>1, <2>2 DEF Context
  <2> QED
    BY <2>3 DEF f
<1>3. Alive(d) = Alive(c)
  BY <1>2 DEF Alive
<1> HIDE DEF d
<1>4. \A v \in Var : Old(c, v) => Old(d, v)
  BY <1>1, <1>2 DEF Old, Var
<1>5. x \in Var /\ x.type = t /\ x.n = c.buffs_counter[t]
  BY <1>1 DEF NewVar, Var
<1> HIDE DEF x
<1>6. ~Old(c, x) /\ Old(d, x)
  BY <1>1, <1>2, <1>5 DEF Old, Var
<1>7. CtxInv(d)
  <2>1. \A v \in Alive(c) : v \in Var
    BY <1>1, ContextFields
  <2>2. \A n \in c.new_vars : n.var \in Var /\ n.len \in Var
    BY <1>1, ContextFields
  <2> QED
    BY <1>2, <1>3, <1>4, <2>1, <2>2 DEF CtxInv
<1> QED
  BY <1>2, <1>3, <1>4, <1>5, <1>6, <1>7 DEF d, x

\* A value that lands in a variable may leave a length pending for it, in a new variable.
LEMMA PendingResult ==
  ASSUME NEW c, CtxInv(c), NEW v \in Var, Old(c, v), NEW m
  PROVE  LET d == Pending(c, v, m)
             x == NewVar(c, SizeT, FALSE)
         IN  /\ CtxInv(d)
             /\ Alive(d) = Alive(c) /\ d.var_to_cond = c.var_to_cond
             /\ \A w \in Var : Old(c, w) => Old(d, w)
             /\ d.new_vars \in {c.new_vars, c.new_vars \cup {[var |-> v, len |-> x]}}
             /\ x \in Var /\ ~Old(c, x) /\ x.type = SizeT
<1> DEFINE d == Pending(c, v, m)
           x == NewVar(c, SizeT, FALSE)
           e == Created(c, SizeT)
           p == [var |-> v, len |-> x]
<1>1. SizeT \in Types
  BY TypesAssumption
<1>2. /\ CtxInv(e) /\ Alive(e) = Alive(c) /\ e.var_to_cond = c.var_to_cond /\ e.new_vars = c.new_vars
      /\ \A w \in Var : Old(c, w) => Old(e, w)
      /\ x \in Var /\ ~Old(c, x) /\ Old(e, x) /\ x.type = SizeT
  BY <1>1, CreatedResult
<1>3. CASE ~GetsLength(v, m)
  BY <1>2, <1>3 DEF Pending
<1>4. CASE GetsLength(v, m)
  <2>1. d = [e EXCEPT !.new_vars = @ \cup {p}]
    BY <1>4 DEF Pending
  <2>2. e \in Context /\ Old(e, v) /\ p \in [var : Var, len : Var] /\ p.var = v /\ p.len = x
    BY <1>2 DEF CtxInv
  <2> HIDE DEF d, e, p, x
  <2>3. e.new_vars \in SUBSET [var : Var, len : Var]
    BY <2>2, ContextFields
  <2>4. /\ d.variables_alive = e.variables_alive /\ d.var_to_cond = e.var_to_cond
        /\ d.new_vars = e.new_vars \cup {p} /\ d.buffs_counter = e.buffs_counter /\ d \in Context
    BY <2>1, <2>2, <2>3 DEF Context
  <2>5. Alive(d) = Alive(e)
    BY <2>4 DEF Alive
  <2>6. CtxInv(d)
    BY <1>2, <2>2, <2>4, <2>5 DEF CtxInv, Old
  <2>7. \A w \in Var : Old(c, w) => Old(d, w)
    BY <1>2, <2>4 DEF Old
  <2> QED
    BY <1>2, <2>2, <2>4, <2>5, <2>6, <2>7 DEF d, p, x
<1> QED
  BY <1>3, <1>4

\* Recording the length of an array that is alive.
LEMMA SetLengthResult ==
  ASSUME NEW c, CtxInv(c), NEW v \in Alive(c), NEW len \in Var
  PROVE  LET d == [c EXCEPT !.var_to_cond[v].len = len]
         IN  /\ CtxInv(d) /\ Alive(d) = Alive(c)
             /\ d.new_vars = c.new_vars /\ d.buffs_counter = c.buffs_counter
             /\ d.var_to_cond[v].len = len /\ d.var_to_cond[v].init = c.var_to_cond[v].init
             /\ \A w \in Alive(c) \ {v} : d.var_to_cond[w] = c.var_to_cond[w]
<1> DEFINE d == [c EXCEPT !.var_to_cond[v].len = len]
           e == [c.var_to_cond EXCEPT ![v].len = len]
<1>1. c \in Context /\ DOMAIN c.var_to_cond = Alive(c)
  BY DEF CtxInv
<1>2. c.var_to_cond \in CondFunction /\ c.var_to_cond[v] \in Cond
  BY <1>1, ContextFields, CondFunctionFacts
<1>3. /\ DOMAIN e = Alive(c) /\ e = [w \in DOMAIN e |-> e[w]]
      /\ \A w \in DOMAIN e \ {v} : e[w] = c.var_to_cond[w]
      /\ e[v] = [c.var_to_cond[v] EXCEPT !.len = len]
  BY <1>1, <1>2, CondFunctionFacts
<1>4. e[v] \in Cond /\ e[v].len = len /\ e[v].init = c.var_to_cond[v].init
  BY <1>2, <1>3 DEF Cond
<1>5. d = [c EXCEPT !.var_to_cond = e]
  OBVIOUS
<1> HIDE DEF d, e
<1>6. e \in CondFunction
  BY <1>1, <1>2, <1>3, <1>4, CondFunctionFacts, IsCondFunction
<1>7. /\ d.variables_alive = c.variables_alive /\ d.var_to_cond = e /\ d.new_vars = c.new_vars
      /\ d.buffs_counter = c.buffs_counter /\ d \in Context
  BY <1>1, <1>5, <1>6 DEF Context
<1>8. Alive(d) = Alive(c)
  BY <1>7 DEF Alive
<1>9. CtxInv(d)
  BY <1>1, <1>3, <1>7, <1>8 DEF CtxInv, Old
<1> QED
  BY <1>3, <1>4, <1>7, <1>8, <1>9 DEF d
-----------------------------------------------------------------------------
(* The invariants. *)

CallRecord == {r \in [api : Apis, args : Seq(Var), ret : Var \cup {NoVar}] : DOMAIN r.args = Positions(r.api)}

\* The positions whose variables the call in hand has.
HasArgument(p) ==
  \/ pc = "second" /\ p < pos
  \/ pc \in {"ret", "update", "flush"}

\* Types, and every variable in sight was created.
Typed ==
  /\ CtxInv(ctx)
  /\ drv \in Seq(CallRecord)
  /\ pc \in {"choose", "first", "second", "ret", "update", "flush"}
  /\ pc # "choose" => /\ api \in Apis
                      /\ pos \in 1..(Len(api.args) + 1)
                      /\ arg_vars \in [Positions(api) -> Var \cup {NoVar}]
  /\ pc = "choose" => arg_vars = <<>> /\ ret_var = NoVar
  /\ pc \in {"choose", "first"} => ctx.new_vars = {}
  /\ ret_var \in Var \cup {NoVar}
  /\ \A p \in DOMAIN arg_vars : arg_vars[p] # NoVar => Old(ctx, arg_vars[p])
  /\ \A p \in DOMAIN arg_vars : HasArgument(p) => arg_vars[p] # NoVar
  /\ ret_var # NoVar => Old(ctx, ret_var)
  /\ \A n \in ctx.new_vars : n.len.type = SizeT
-----------------------------------------------------------------------------
(* Facts about the library. *)

LEMMA ApiFacts ==
  ASSUME NEW a \in Apis
  PROVE  /\ Len(a.args) \in Nat /\ Positions(a) = 1..Len(a.args)
         /\ a.ret \in Metadata
         /\ \A p \in Positions(a) : /\ a.args[p] \in Metadata /\ a.args[p].type \in Types
                                    /\ Made(a.args[p].type) \in Types
                                    /\ Sized(a, p) \in BOOLEAN
<1>1. a.args \in Seq(Metadata) /\ a.ret \in Metadata
  BY ApisAssumption
<1>2. Len(a.args) \in Nat /\ Positions(a) = 1..Len(a.args)
  BY <1>1, LenProperties DEF Positions
<1>3. ASSUME NEW p \in Positions(a)
      PROVE  a.args[p] \in Metadata /\ a.args[p].type \in Types
  BY <1>1, <1>2, ElementOfSeq, ApisAssumption DEF Positions
<1> QED
  BY <1>1, <1>2, <1>3, TypesAssumption DEF Made, Sized

\* An array with a length is a pointer, and its length a number in another position.
LEMMA SizedFacts ==
  ASSUME NEW a \in Apis, NEW p \in Positions(a), Sized(a, p)
  PROVE  /\ a.args[p].len \in Positions(a)
         /\ a.args[a.args[p].len].type \in SizeType
         /\ a.args[p].type \in Pointer /\ a.args[p].type \notin SizeType
         /\ Made(a.args[p].type) \in Pointer /\ Made(a.args[p].type) \notin SizeType
         /\ a.args[p].len # p
<1>1. a.args[p].len # 0 /\ a.args[a.args[p].len].type \in SizeType
  BY DEF Sized
<1>2. a.args[p].len \in Positions(a) /\ a.args[p].type \in Pointer
  BY <1>1, ApisAssumption DEF Positions
<1> QED
  BY <1>1, <1>2, TypesAssumption DEF Made

\* No array is the length of another one.
LEMMA LengthIsNoArray ==
  ASSUME NEW a \in Apis, NEW p \in Positions(a), NEW q \in Positions(a), Sized(a, p), Sized(a, q)
  PROVE  a.args[p].len # q
BY SizedFacts

\* A sink has one argument, without a length.
LEMMA SinkFacts ==
  ASSUME NEW a \in Apis, IsSink(a)
  PROVE  Positions(a) = {1} /\ Len(a.args) = 1 /\ ~Sized(a, 1)
<1>1. Len(a.args) = 1 /\ Positions(a) = {1}
  BY ApiFacts DEF IsSink
<1>2. ~Sized(a, 1)
  BY <1>1, SizedFacts
<1> QED
  BY <1>1, <1>2

LEMMA NoVarIsNone == NoVar \notin Var
BY TypesAssumption DEF NoVar, Var
-----------------------------------------------------------------------------
(* What the steps do, in terms of the variables that are alive, created and pending. *)

\* An array with a length: two new variables, the second of which is the length of the first.
LEMMA FirstRoundEffect ==
  ASSUME Typed, FirstRound, Sized(api, pos)
  PROVE  \E x, b \in Var :
           /\ ~Old(ctx, x) /\ ~Old(ctx, b) /\ Old(ctx', x) /\ Old(ctx', b) /\ x # b
           /\ x.type = Made(api.args[pos].type) /\ b.type = api.args[api.args[pos].len].type
           /\ arg_vars' = [arg_vars EXCEPT ![pos] = x, ![api.args[pos].len] = b]
           /\ CtxInv(ctx') /\ Alive(ctx') = Alive(ctx) \cup {x, b} /\ ctx'.new_vars = ctx.new_vars
           /\ \A w \in Alive(ctx) : ctx'.var_to_cond[w] = ctx.var_to_cond[w]
           /\ ctx'.var_to_cond[x].len = b
           /\ \A w \in Var : Old(ctx, w) => Old(ctx', w)
<1> DEFINE m == api.args[pos]
           idx == api.args[m.len]
           t == Made(m.type)
           x == NewVar(ctx, t, TRUE)
           b == NewVar(ctx, idx.type, FALSE)
           init == IsInit(api, pos) \/ IsSet(api, pos)
           sink == IsSink(api)
           c0 == Created(ctx, t)
           cc == Created(c0, idx.type)
           c1 == UpdateVar(cc, x, m.file, FALSE, sink, init)
           c2 == UpdateVar(c1, b, idx.file, FALSE, sink, FALSE)
<1>1. /\ api \in Apis /\ pos \in Positions(api) /\ CtxInv(ctx)
      /\ arg_vars \in [Positions(api) -> Var \cup {NoVar}]
  BY DEF Typed, FirstRound
<1>2. /\ m \in Metadata /\ idx \in Metadata /\ t \in Types /\ idx.type \in Types
      /\ t \in Pointer /\ idx.type \in SizeType /\ t # idx.type
  BY <1>1, ApiFacts, SizedFacts
<1>3. m.file \in BOOLEAN /\ idx.file \in BOOLEAN /\ sink \in BOOLEAN /\ init \in BOOLEAN
  BY <1>2 DEF Metadata, IsSink
<1>4. arg_vars' = [arg_vars EXCEPT ![pos] = x, ![m.len] = b]
  BY DEF FirstRound
<1>5. ctx' = [c2 EXCEPT !.var_to_cond[x].len = b]
  BY DEF FirstRound
<1>6. /\ CtxInv(c0) /\ Alive(c0) = Alive(ctx) /\ c0.var_to_cond = ctx.var_to_cond /\ c0.new_vars = ctx.new_vars
      /\ \A v \in Var : Old(ctx, v) => Old(c0, v)
      /\ x \in Var /\ ~Old(ctx, x) /\ Old(c0, x) /\ x.type = t
  BY <1>1, <1>2, CreatedResult
<1>7. /\ b = NewVar(c0, idx.type, FALSE)
      /\ \A v \in Var : v.type = idx.type => (Old(c0, v) <=> Old(ctx, v))
  BY <1>1, <1>2, ContextFields DEF Created, CtxInv, Context, NewVar, Old
<1> HIDE DEF m, idx, t, x, b, init, sink, c0
<1>8. /\ CtxInv(cc) /\ Alive(cc) = Alive(ctx) /\ cc.var_to_cond = ctx.var_to_cond /\ cc.new_vars = ctx.new_vars
      /\ \A v \in Var : Old(ctx, v) => Old(cc, v)
      /\ b \in Var /\ ~Old(ctx, b) /\ Old(cc, b) /\ b.type = idx.type /\ Old(cc, x)
  <2> DEFINE y == NewVar(c0, idx.type, FALSE)
  <2>1. /\ CtxInv(cc) /\ Alive(cc) = Alive(c0) /\ cc.var_to_cond = c0.var_to_cond /\ cc.new_vars = c0.new_vars
        /\ \A v \in Var : Old(c0, v) => Old(cc, v)
        /\ y \in Var /\ ~Old(c0, y) /\ Old(cc, y) /\ y.type = idx.type
    BY <1>2, <1>6, CreatedResult
  <2>2. b = y
    BY <1>7
  <2> HIDE DEF cc, y
  <2> QED
    BY <1>6, <1>7, <2>1, <2>2
<1> HIDE DEF cc
<1>9. x \notin Alive(ctx) /\ b \notin Alive(ctx) /\ x # b
  BY <1>1, <1>2, <1>6, <1>8 DEF CtxInv
<1>10. /\ CtxInv(c1) /\ c1.buffs_counter = cc.buffs_counter /\ Alive(c1) = Alive(ctx) \cup {x} /\ c1.new_vars = ctx.new_vars
       /\ \A w \in Alive(ctx) : c1.var_to_cond[w] = ctx.var_to_cond[w]
  <2>1. Updated(cc, c1, x, m.file, FALSE, sink)
    BY <1>3, <1>6, <1>8, UpdateVarResult, Zenon
  <2> HIDE DEF c1
  <2> QED
    BY <1>8, <1>9, <2>1 DEF Updated
<1>11. Old(c1, b)
  BY <1>8, <1>10 DEF Old
<1> HIDE DEF c1
<1>12. /\ CtxInv(c2) /\ c2.buffs_counter = cc.buffs_counter /\ Alive(c2) = Alive(ctx) \cup {x, b}
       /\ c2.new_vars = ctx.new_vars
       /\ \A w \in Alive(ctx) : c2.var_to_cond[w] = ctx.var_to_cond[w]
  <2>1. Updated(c1, c2, b, idx.file, FALSE, sink)
    BY <1>3, <1>8, <1>10, <1>11, UpdateVarResult, Zenon
  <2> HIDE DEF c2
  <2> QED
    BY <1>8, <1>9, <1>10, <2>1 DEF Updated
<1> HIDE DEF c2
<1>13. /\ CtxInv(ctx') /\ Alive(ctx') = Alive(c2) /\ ctx'.new_vars = c2.new_vars
       /\ ctx'.buffs_counter = c2.buffs_counter /\ ctx'.var_to_cond[x].len = b
       /\ \A w \in Alive(c2) \ {x} : ctx'.var_to_cond[w] = c2.var_to_cond[w]
  BY <1>5, <1>6, <1>8, <1>12, SetLengthResult
<1>14. \A w \in Var : Old(ctx, w) => Old(ctx', w)
  BY <1>8, <1>12, <1>13 DEF Old
<1>15. Old(ctx', x) /\ Old(ctx', b)
  BY <1>8, <1>12, <1>13 DEF Old
<1> QED
  BY <1>4, <1>6, <1>8, <1>9, <1>12, <1>13, <1>14, <1>15 DEF m, idx, t

\* A variable that can be chosen for an argument is alive, without a length unless the call is a sink, or
\* it is new: then nothing usable was there, or the argument is one that is made.
MakesNew(a, p) == MadeVoid(a.args[p].type) \/ IsInit(a, p) \/ IsSetby(a, p) \/ UsableVars(Argument(a, p)) = {}
Chosen(a, p, v) ==
  \/ /\ v \in Alive(ctx) /\ v.type = a.args[p].type /\ (IsSink(a) \/ ctx.var_to_cond[v].len = NoVar)
     /\ IsSink(a) \/ ~(IsInit(a, p) \/ IsSetby(a, p)) \/ ~ctx.var_to_cond[v].init
  \/ ~IsSink(a) /\ ~Old(ctx, v) /\ MakesNew(a, p) /\ v.type = Made(a.args[p].type)

LEMMA ArgumentChoiceFacts ==
  ASSUME Typed, pc = "second", pos \in Positions(api), NEW c \in ArgumentChoices(api, pos)
  PROVE  /\ c.var \in Var /\ Old(c.ctx, c.var)
         /\ CtxInv(c.ctx) /\ Alive(c.ctx) = Alive(ctx)
         /\ c.ctx.var_to_cond = ctx.var_to_cond /\ c.ctx.new_vars = ctx.new_vars
         /\ \A w \in Var : Old(ctx, w) => Old(c.ctx, w)
         /\ Chosen(api, pos, c.var)
<1> DEFINE m == Argument(api, pos)
           old(S) == {[var |-> v, ctx |-> ctx] : v \in S}
           new(t) == {[var |-> NewVar(ctx, t, OnHeap(m, FALSE)), ctx |-> Created(ctx, t)]}
           Made1 == MadeVoid(m.type)
           Init1 == IsInit(api, pos) \/ IsSetby(api, pos)
<1>1. api \in Apis /\ CtxInv(ctx) /\ Alive(ctx) \subseteq Var
  BY ContextFields DEF Typed, CtxInv
<1>2. m.type = api.args[pos].type /\ m.type \in Types /\ Made(m.type) \in Types /\ CharArray \in Types
  <2>1. api.args[pos] \in Metadata
    BY <1>1, ApiFacts
  <2> QED
    BY <1>1, <2>1, ApiFacts, TypesAssumption DEF Argument, Metadata
<1>3. ASSUME NEW S, S \subseteq Alive(ctx), c \in old(S),
             \A v \in S : /\ v.type = m.type /\ (IsSink(api) \/ ctx.var_to_cond[v].len = NoVar)
                          /\ IsSink(api) \/ ~Init1 \/ ~ctx.var_to_cond[v].init
      PROVE  /\ c.var \in Var /\ Old(c.ctx, c.var)
             /\ CtxInv(c.ctx) /\ Alive(c.ctx) = Alive(ctx)
             /\ c.ctx.var_to_cond = ctx.var_to_cond /\ c.ctx.new_vars = ctx.new_vars
             /\ \A w \in Var : Old(ctx, w) => Old(c.ctx, w)
             /\ Chosen(api, pos, c.var)
  <2>1. PICK v \in S : c = [var |-> v, ctx |-> ctx]
    BY <1>3
  <2>2. c.var = v /\ c.ctx = ctx
    BY <2>1
  <2> QED
    BY <1>1, <1>2, <1>3, <2>1, <2>2 DEF CtxInv, Chosen
<1>4. ASSUME NEW t \in Types, c \in new(t), ~IsSink(api), MakesNew(api, pos), t = Made(m.type)
      PROVE  /\ c.var \in Var /\ Old(c.ctx, c.var)
             /\ CtxInv(c.ctx) /\ Alive(c.ctx) = Alive(ctx)
             /\ c.ctx.var_to_cond = ctx.var_to_cond /\ c.ctx.new_vars = ctx.new_vars
             /\ \A w \in Var : Old(ctx, w) => Old(c.ctx, w)
             /\ Chosen(api, pos, c.var)
  <2> DEFINE heap == OnHeap(m, FALSE)
  <2>1. heap \in BOOLEAN
    BY DEF OnHeap
  <2>2. c.var = NewVar(ctx, t, heap) /\ c.ctx = Created(ctx, t)
    <3> DEFINE y == NewVar(ctx, t, heap)
    <3>1. c = [var |-> y, ctx |-> Created(ctx, t)]
      BY <1>4, Zenon
    <3> HIDE DEF y
    <3>2. c.var = y /\ c.ctx = Created(ctx, t)
      BY <3>1
    <3> QED
      BY <3>2 DEF y
  <2> HIDE DEF heap
  <2> QED
    BY <1>1, <1>2, <1>4, <2>1, <2>2, CreatedResult DEF Chosen
<1>5. /\ StrictlySatisfying(m) \subseteq Alive(ctx)
      /\ UsableVars(m) \subseteq Alive(ctx) /\ Uninitialised(m) \subseteq UsableVars(m)
      /\ \A v \in StrictlySatisfying(m) : v.type = m.type
      /\ \A v \in UsableVars(m) : v.type = m.type /\ ctx.var_to_cond[v].len = NoVar
      /\ \A v \in Uninitialised(m) : ~ctx.var_to_cond[v].init
  BY DEF StrictlySatisfying, UsableVars, Uninitialised, Usable
<1>6. c \in IF IsSink(api) THEN old(StrictlySatisfying(m))
            ELSE IF Made1 THEN new(CharArray)
            ELSE IF Init1 THEN IF Uninitialised(m) # {} THEN old(Uninitialised(m)) ELSE new(Made(m.type))
            ELSE IF UsableVars(m) # {} THEN old(UsableVars(m)) ELSE new(Made(m.type))
  BY DEF ArgumentChoices
<1>7. /\ Made1 => MakesNew(api, pos)
      /\ Init1 => MakesNew(api, pos)
      /\ UsableVars(m) = {} => MakesNew(api, pos)
      /\ Made1 => CharArray = Made(m.type)
  BY <1>2 DEF MakesNew, MadeVoid, Made
<1> HIDE DEF m, old, new, Made1, Init1
<1>8. CASE IsSink(api)
  BY <1>3, <1>5, <1>6, <1>8
<1>9. CASE ~IsSink(api) /\ Made1
  BY <1>2, <1>4, <1>6, <1>7, <1>9
<1>10. CASE ~IsSink(api) /\ ~Made1 /\ Init1
  BY <1>2, <1>3, <1>4, <1>5, <1>6, <1>7, <1>10
<1>11. CASE ~IsSink(api) /\ ~Made1 /\ ~Init1
  BY <1>2, <1>3, <1>4, <1>5, <1>6, <1>7, <1>11
<1> QED
  BY <1>8, <1>9, <1>10, <1>11

\* A value that lands in v leaves the context as it is but for a length that is pending in a new variable.
Landed(v) ==
  /\ CtxInv(ctx') /\ Alive(ctx') = Alive(ctx) /\ ctx'.var_to_cond = ctx.var_to_cond
  /\ \A w \in Var : Old(ctx, w) => Old(ctx', w)
  /\ Old(ctx', v)
  /\ \/ ctx'.new_vars = ctx.new_vars
     \/ \E len \in Var : /\ ~Old(ctx, len) /\ len # v /\ len.type = SizeT
                         /\ ctx'.new_vars = ctx.new_vars \cup {[var |-> v, len |-> len]}

LEMMA LandedResult ==
  ASSUME CtxInv(ctx), NEW c, NEW v \in Var, NEW m,
         CtxInv(c), Old(c, v), Alive(c) = Alive(ctx), c.var_to_cond = ctx.var_to_cond, c.new_vars = ctx.new_vars,
         \A w \in Var : Old(ctx, w) => Old(c, w), ctx' = Pending(c, v, m)
  PROVE  Landed(v)
<1> DEFINE d == Pending(c, v, m)
           x == NewVar(c, SizeT, FALSE)
<1>1. /\ CtxInv(d) /\ Alive(d) = Alive(c) /\ d.var_to_cond = c.var_to_cond
      /\ \A w \in Var : Old(c, w) => Old(d, w)
      /\ d.new_vars \in {c.new_vars, c.new_vars \cup {[var |-> v, len |-> x]}}
      /\ x \in Var /\ ~Old(c, x) /\ x.type = SizeT
  BY PendingResult
<1>2. ctx' = d
  OBVIOUS
<1> HIDE DEF d, x
<1>3. ~Old(ctx, x) /\ x # v
  BY <1>1
<1> QED
  BY <1>1, <1>2, <1>3 DEF Landed

\* The second round chooses a variable for an argument.
LEMMA SecondRoundEffect ==
  ASSUME Typed, SecondRound, arg_vars[pos] = NoVar
  PROVE  \E v \in Var : /\ Chosen(api, pos, v)
                        /\ arg_vars' = [arg_vars EXCEPT ![pos] = v]
                        /\ Landed(v)
<1>1. PICK c \in ArgumentChoices(api, pos) :
        /\ arg_vars' = [arg_vars EXCEPT ![pos] = c.var]
        /\ ctx' = Pending(c.ctx, c.var, Argument(api, pos))
  BY DEF SecondRound, IsSetUp
<1>2. pc = "second" /\ pos \in Positions(api) /\ CtxInv(ctx)
  BY DEF SecondRound, Typed
<1>3. /\ c.var \in Var /\ Old(c.ctx, c.var)
      /\ CtxInv(c.ctx) /\ Alive(c.ctx) = Alive(ctx)
      /\ c.ctx.var_to_cond = ctx.var_to_cond /\ c.ctx.new_vars = ctx.new_vars
      /\ \A w \in Var : Old(ctx, w) => Old(c.ctx, w)
      /\ Chosen(api, pos, c.var)
  BY <1>2, ArgumentChoiceFacts
<1>4. Landed(c.var)
  BY <1>1, <1>2, <1>3, LandedResult
<1> QED
  BY <1>1, <1>3, <1>4

\* The result lands in a new variable or, if it is not a pointer, in one that is alive.
LEMMA ReturnEffect ==
  ASSUME Typed, Return, api.ret.type # NoType
  PROVE  \E v \in Var : /\ \/ ~Old(ctx, v)
                           \/ v \in Alive(ctx) /\ v.type \notin Pointer
                        /\ ret_var' = v
                        /\ Landed(v)
<1> DEFINE m == api.ret
           heap == OnHeap(m, TRUE)
           new == NewVar(ctx, m.type, heap)
<1>1. PICK v \in {new} \cup (IF m.type \in Pointer \/ m.create THEN {} ELSE UsableVars(m)) :
        /\ ret_var' = v
        /\ ctx' = Pending(IF v \in Alive(ctx) THEN ctx ELSE Created(ctx, m.type), v, m)
  BY DEF Return
<1>2. api \in Apis /\ CtxInv(ctx) /\ m \in Metadata /\ m.type \in Types
  BY ApiFacts DEF Typed, Return, Metadata
<1>3. heap \in BOOLEAN
  BY <1>2 DEF OnHeap, Metadata
<1> HIDE DEF heap
<1>4. /\ CtxInv(Created(ctx, m.type)) /\ Alive(Created(ctx, m.type)) = Alive(ctx)
      /\ Created(ctx, m.type).var_to_cond = ctx.var_to_cond /\ Created(ctx, m.type).new_vars = ctx.new_vars
      /\ \A w \in Var : Old(ctx, w) => Old(Created(ctx, m.type), w)
      /\ new \in Var /\ ~Old(ctx, new) /\ Old(Created(ctx, m.type), new)
  BY <1>2, <1>3, CreatedResult
<1>5. CASE v = new
  <2>1. v \notin Alive(ctx)
    BY <1>2, <1>4, <1>5 DEF CtxInv
  <2>2. ctx' = Pending(Created(ctx, m.type), v, m)
    BY <1>1, <2>1
  <2>3. Landed(v)
    BY <1>2, <1>4, <1>5, <2>2, LandedResult
  <2> QED
    BY <1>1, <1>4, <1>5, <2>3
<1>6. CASE v # new
  <2>1. v \in Alive(ctx) /\ v.type \notin Pointer /\ v \in Var /\ Old(ctx, v)
    <3>1. m.type \notin Pointer /\ v \in UsableVars(m)
      BY <1>1, <1>6
    <3>2. v \in Alive(ctx) /\ v.type = m.type
      BY <3>1 DEF UsableVars, Usable
    <3> QED
      BY <1>2, <3>1, <3>2, ContextFields DEF CtxInv
  <2>2. ctx' = Pending(ctx, v, m)
    BY <1>1, <2>1
  <2>3. Landed(v)
    BY <1>2, <2>1, <2>2, LandedResult
  <2> QED
    BY <1>1, <2>1, <2>3
<1> QED
  BY <1>5, <1>6

\* A call's arguments are recorded one after the other.
LEMMA UpdateEffect ==
  ASSUME Typed, Update
  PROVE  /\ arg_vars[pos] \in Var
         /\ Updated(ctx, ctx', arg_vars[pos], StaleCond.file, FALSE, IsSink(api))
<1>1. /\ pc = "update" /\ api \in Apis /\ pos \in Positions(api) /\ CtxInv(ctx) /\ DOMAIN arg_vars = Positions(api)
      /\ ctx' = UpdateVar(ctx, arg_vars[pos], StaleCond.file, FALSE, IsSink(api), SetsInit(api, pos))
  BY DEF Update, Typed
<1>2. arg_vars[pos] # NoVar /\ arg_vars[pos] \in Var /\ Old(ctx, arg_vars[pos])
  BY <1>1 DEF Typed, HasArgument
<1>3. StaleCond.file \in BOOLEAN
  <2>1. Len(api.args) \in Positions(api)
    BY <1>1, ApiFacts
  <2>2. StaleCond \in Metadata
    BY <1>1, <2>1, ApiFacts DEF StaleCond
  <2> QED
    BY <2>2 DEF Metadata
<1> QED
  BY <1>1, <1>2, <1>3, UpdateVarResult, Zenon

\* The result is recorded last.
LEMMA UpdateReturnEffect ==
  ASSUME Typed, UpdateReturn
  PROVE  \/ ret_var = NoVar /\ ctx' = ctx
         \/ ret_var \in Var /\ Updated(ctx, ctx', ret_var, api.ret.file, TRUE, IsSink(api))
<1>1. CASE ret_var = NoVar
  BY <1>1 DEF UpdateReturn
<1>2. CASE ret_var # NoVar
  <2>1. /\ ctx' = UpdateVar(ctx, ret_var, api.ret.file, TRUE, IsSink(api), FALSE)
        /\ api \in Apis /\ CtxInv(ctx) /\ ret_var \in Var /\ Old(ctx, ret_var)
    BY <1>2 DEF UpdateReturn, Typed
  <2>2. api.ret.file \in BOOLEAN
    BY <2>1, ApiFacts DEF Metadata
  <2> QED
    BY <2>1, <2>2, UpdateVarResult, Zenon
<1> QED
  BY <1>1, <1>2

\* A pending length is alive, and belongs to its array.
LEMMA FlushEffect ==
  ASSUME Typed, NEW n \in ctx.new_vars, Flush(n)
  PROVE  /\ n.len \in Var /\ n.var \in Alive(ctx)
         /\ CtxInv(ctx') /\ Alive(ctx') = Alive(ctx) \cup {n.len}
         /\ ctx'.new_vars = ctx.new_vars \ {n}
         /\ \A w \in Alive(ctx) \ {n.len, n.var} : ctx'.var_to_cond[w] = ctx.var_to_cond[w]
         /\ \A w \in Alive(ctx) \ {n.var} : ctx'.var_to_cond[w].len = ctx.var_to_cond[w].len
         /\ \A w \in Alive(ctx) \ {n.len} : ctx'.var_to_cond[w].init = ctx.var_to_cond[w].init
         /\ ctx'.buffs_counter = ctx.buffs_counter
<1> DEFINE c1 == UpdateVar(ctx, n.len, FALSE, FALSE, FALSE, FALSE)
           c2 == [c1 EXCEPT !.var_to_cond[n.var].len = n.len]
<1>1. /\ CtxInv(ctx) /\ n.len \in Var /\ Old(ctx, n.len) /\ n.var \in Alive(ctx)
      /\ ctx.new_vars \in SUBSET [var : Var, len : Var]
  BY ContextFields DEF Typed, CtxInv, Flush
<1>2. ctx' = [c2 EXCEPT !.new_vars = @ \ {n}]
  BY DEF Flush
<1>3. Updated(ctx, c1, n.len, FALSE, FALSE, FALSE)
  <2>1. FALSE \in BOOLEAN
    OBVIOUS
  <2> QED
    BY <1>1, <2>1, UpdateVarResult, Zenon
<1> HIDE DEF c1
<1>4. /\ CtxInv(c1) /\ Alive(c1) = Alive(ctx) \cup {n.len} /\ c1.new_vars = ctx.new_vars
      /\ c1.buffs_counter = ctx.buffs_counter
      /\ \A w \in Alive(ctx) \ {n.len} : c1.var_to_cond[w] = ctx.var_to_cond[w]
      /\ \A w \in Alive(ctx) : c1.var_to_cond[w].len = ctx.var_to_cond[w].len
  BY <1>3 DEF Updated
<1>5. /\ CtxInv(c2) /\ Alive(c2) = Alive(c1) /\ c2.new_vars = c1.new_vars /\ c2.buffs_counter = c1.buffs_counter
      /\ \A w \in Alive(c1) \ {n.var} : c2.var_to_cond[w] = c1.var_to_cond[w]
      /\ c2.var_to_cond[n.var].init = c1.var_to_cond[n.var].init
  BY <1>1, <1>4, SetLengthResult
<1> HIDE DEF c2
<1>6. /\ ctx'.variables_alive = c2.variables_alive /\ ctx'.var_to_cond = c2.var_to_cond
      /\ ctx'.new_vars = ctx.new_vars \ {n} /\ ctx'.buffs_counter = c2.buffs_counter /\ ctx' \in Context
  BY <1>1, <1>2, <1>4, <1>5 DEF CtxInv, Context
<1>7. Alive(ctx') = Alive(c2)
  BY <1>6 DEF Alive
<1>8. CtxInv(ctx')
  BY <1>4, <1>5, <1>6, <1>7 DEF CtxInv, Old
<1> QED
  BY <1>1, <1>4, <1>5, <1>6, <1>7, <1>8
-----------------------------------------------------------------------------
(* Types. *)

LEMMA TypedInit == Init => Typed
<1> SUFFICES ASSUME Init PROVE Typed
  OBVIOUS
<1> DEFINE none == [v \in {} |-> {}]
<1>1. none \in CondFunction /\ DOMAIN none = {}
  BY IsCondFunction
<1>2. <<>> \in Seq(Var) /\ {} \in SUBSET [var : Var, len : Var] /\ [t \in Types |-> 0] \in [Types -> Nat]
  OBVIOUS
<1>3. ctx = [variables_alive |-> <<>>, var_to_cond |-> none, new_vars |-> {}, buffs_counter |-> [t \in Types |-> 0]]
  BY DEF Init, EmptyContext
<1> HIDE DEF none
<1>4. ctx \in Context /\ ctx.variables_alive = <<>> /\ ctx.var_to_cond = none /\ ctx.new_vars = {}
  BY <1>1, <1>2, <1>3 DEF Context
<1>5. Alive(ctx) = {} /\ Distinct(ctx.variables_alive)
  BY <1>4 DEF Alive, Distinct
<1>6. CtxInv(ctx)
  BY <1>1, <1>4, <1>5 DEF CtxInv
<1> QED
  BY <1>4, <1>6 DEF Init, Typed, HasArgument

LEMMA TypedStep == Typed /\ Next => Typed'
<1> SUFFICES ASSUME Typed, Next PROVE Typed'
  OBVIOUS
<1> USE DEF Typed
<1>0. NoVar \notin Var
  BY NoVarIsNone
<1>1. ASSUME NEW a \in Apis, Choose(a) PROVE Typed'
  <2>1. Len(a.args) \in Nat
    BY ApiFacts
  <2> QED
    BY <1>1, <2>1 DEF Choose, HasArgument
<1>2. CASE EndOf("first", "second")
  <2>1. Len(api.args) \in Nat /\ Positions(api) = 1..Len(api.args)
    BY <1>2, ApiFacts DEF EndOf
  <2> QED
    BY <1>2, <2>1 DEF EndOf, call, HasArgument
<1>3. CASE EndOf("second", "ret")
  <2>1. Len(api.args) \in Nat /\ Positions(api) = 1..Len(api.args)
    BY <1>3, ApiFacts DEF EndOf
  <2> QED
    BY <1>3, <2>1 DEF EndOf, call, HasArgument
<1>4. CASE FirstRound
  <2>1. /\ api \in Apis /\ pos \in Positions(api) /\ Len(api.args) \in Nat /\ Positions(api) = 1..Len(api.args)
        /\ pos + 1 \in 1..(Len(api.args) + 1)
    <3>1. api \in Apis /\ pos \in Positions(api)
      BY <1>4 DEF FirstRound
    <3>2. Len(api.args) \in Nat /\ Positions(api) = 1..Len(api.args)
      BY <3>1, ApiFacts
    <3> QED
      BY <3>1, <3>2
  <2>2. CASE ~Sized(api, pos)
    BY <1>4, <2>1, <2>2 DEF FirstRound, HasArgument
  <2>3. CASE Sized(api, pos)
    <3> DEFINE l == api.args[pos].len
    <3>1. PICK x, b \in Var :
             /\ Old(ctx', x) /\ Old(ctx', b)
             /\ arg_vars' = [arg_vars EXCEPT ![pos] = x, ![l] = b]
             /\ CtxInv(ctx') /\ ctx'.new_vars = ctx.new_vars
             /\ \A w \in Var : Old(ctx, w) => Old(ctx', w)
      BY <1>4, <2>3, FirstRoundEffect
    <3>2. l \in Positions(api)
      BY <2>1, <2>3, SizedFacts
    <3> HIDE DEF l
    <3>3. arg_vars' \in [Positions(api) -> Var \cup {NoVar}]
      BY <1>4, <2>1, <3>1, <3>2 DEF FirstRound
    <3>4. \A p \in DOMAIN arg_vars' : arg_vars'[p] # NoVar => Old(ctx', arg_vars'[p])
      <4> SUFFICES ASSUME NEW p \in Positions(api), arg_vars'[p] # NoVar PROVE Old(ctx', arg_vars'[p])
        BY <3>3
      <4>1. arg_vars'[p] \in {x, b, arg_vars[p]} /\ arg_vars[p] \in Var \cup {NoVar} /\ DOMAIN arg_vars = Positions(api)
        BY <1>4, <2>1, <3>1, <3>2 DEF FirstRound
      <4> QED
        BY <3>1, <4>1
    <3> QED
      BY <1>4, <2>1, <3>1, <3>3, <3>4 DEF FirstRound, HasArgument
  <2> QED
    BY <2>2, <2>3
<1>5. CASE SecondRound
  <2>1. /\ api \in Apis /\ pos \in Positions(api) /\ Len(api.args) \in Nat /\ Positions(api) = 1..Len(api.args)
        /\ pos + 1 \in 1..(Len(api.args) + 1)
    <3>1. api \in Apis /\ pos \in Positions(api)
      BY <1>5 DEF SecondRound
    <3>2. Len(api.args) \in Nat /\ Positions(api) = 1..Len(api.args)
      BY <3>1, ApiFacts
    <3> QED
      BY <3>1, <3>2
  <2>2. CASE arg_vars[pos] # NoVar
    <3>1. UNCHANGED <<arg_vars, ctx, drv, pc, api, ret_var>> /\ pos' = pos + 1 /\ pc = "second"
      BY <1>5, <2>2 DEF SecondRound, IsSetUp
    <3>2. \A p \in DOMAIN arg_vars : HasArgument(p)' => arg_vars[p] # NoVar
      BY <2>1, <2>2, <3>1 DEF HasArgument
    <3> QED
      BY <2>1, <3>1, <3>2
  <2>3. CASE arg_vars[pos] = NoVar
    <3>1. PICK v \in Var : arg_vars' = [arg_vars EXCEPT ![pos] = v] /\ Landed(v)
      BY <1>5, <2>3, SecondRoundEffect
    <3>2. UNCHANGED <<drv, pc, api, ret_var>> /\ pos' = pos + 1 /\ pc = "second"
      BY <1>5 DEF SecondRound
    <3>3. arg_vars' \in [Positions(api) -> Var \cup {NoVar}]
      BY <2>1, <3>1, <3>2
    <3>4. \A p \in DOMAIN arg_vars' : arg_vars'[p] # NoVar => Old(ctx', arg_vars'[p])
      BY <2>1, <3>1, <3>2, <3>3 DEF Landed
    <3>5. \A p \in DOMAIN arg_vars' : HasArgument(p)' => arg_vars'[p] # NoVar
      BY <1>0, <2>1, <3>1, <3>2, <3>3 DEF HasArgument
    <3>6. \A n \in ctx'.new_vars : n.len.type = SizeT
      BY <3>1 DEF Landed
    <3> QED
      BY <2>1, <3>1, <3>2, <3>3, <3>4, <3>5, <3>6 DEF Landed
  <2> QED
    BY <2>2, <2>3
<1>6. CASE Return
  <2>1. UNCHANGED <<drv, pos, api, arg_vars>> /\ pc = "ret" /\ pc' = "update"
    BY <1>6 DEF Return
  <2>2. CASE api.ret.type = NoType
    BY <1>6, <2>1, <2>2 DEF Return, HasArgument
  <2>3. CASE api.ret.type # NoType
    <3>1. PICK v \in Var : ret_var' = v /\ Landed(v)
      BY <1>6, <2>3, ReturnEffect
    <3>2. \A n \in ctx'.new_vars : n.len.type = SizeT
      BY <3>1 DEF Landed
    <3>3. \A p \in DOMAIN arg_vars' : arg_vars'[p] # NoVar => Old(ctx', arg_vars'[p])
      BY <2>1, <3>1 DEF Landed
    <3> QED
      BY <2>1, <3>1, <3>2, <3>3 DEF Landed, HasArgument
  <2> QED
    BY <2>2, <2>3
<1>7. CASE Update
  <2>1. /\ api \in Apis /\ pos \in Positions(api) /\ Len(api.args) \in Nat /\ Positions(api) = 1..Len(api.args)
        /\ pos + 1 \in 1..(Len(api.args) + 1)
    <3>1. api \in Apis /\ pos \in Positions(api)
      BY <1>7 DEF Update
    <3>2. Len(api.args) \in Nat /\ Positions(api) = 1..Len(api.args)
      BY <3>1, ApiFacts
    <3> QED
      BY <3>1, <3>2
  <2>2. /\ Updated(ctx, ctx', arg_vars[pos], StaleCond.file, FALSE, IsSink(api))
        /\ UNCHANGED <<drv, pc, api, arg_vars, ret_var>> /\ pos' = pos + 1 /\ pc = "update"
    BY <1>7, UpdateEffect DEF Update, call
  <2>3. CtxInv(ctx') /\ ctx'.new_vars \subseteq ctx.new_vars /\ ctx'.buffs_counter = ctx.buffs_counter
    BY <2>2 DEF Updated
  <2> QED
    BY <2>1, <2>2, <2>3 DEF Old, HasArgument
<1>8. CASE UpdateReturn
  <2>1. UNCHANGED <<drv, pos, api, arg_vars, ret_var>> /\ pc = "update" /\ pc' = "flush"
    BY <1>8 DEF UpdateReturn, call
  <2>2. CtxInv(ctx') /\ ctx'.new_vars \subseteq ctx.new_vars /\ ctx'.buffs_counter = ctx.buffs_counter
    BY <1>8, UpdateReturnEffect DEF Updated
  <2> QED
    BY <2>1, <2>2 DEF Old, HasArgument
<1>9. ASSUME NEW n \in ctx.new_vars, Flush(n) PROVE Typed'
  <2>1. UNCHANGED <<drv, pc, pos, api, arg_vars, ret_var>> /\ pc = "flush"
    BY <1>9 DEF Flush, call
  <2>2. CtxInv(ctx') /\ ctx'.new_vars \subseteq ctx.new_vars /\ ctx'.buffs_counter = ctx.buffs_counter
    BY <1>9, FlushEffect
  <2> QED
    BY <2>1, <2>2 DEF Old, HasArgument
<1>10. CASE Append_
  <2> DEFINE r == [api |-> api, args |-> arg_vars, ret |-> ret_var]
  <2>1. api \in Apis /\ Len(api.args) \in Nat /\ Positions(api) = 1..Len(api.args) /\ pc = "flush"
    BY <1>10, ApiFacts DEF Append_
  <2>2. arg_vars \in [1..Len(api.args) -> Var]
    BY <2>1 DEF HasArgument
  <2>3. arg_vars \in Seq(Var) /\ DOMAIN arg_vars = Positions(api)
    BY <2>1, <2>2
  <2>4. r \in CallRecord
    BY <2>1, <2>3 DEF CallRecord
  <2>5. drv' \in Seq(CallRecord)
    BY <1>10, <2>4 DEF Append_
  <2> QED
    BY <1>10, <2>5 DEF Append_, HasArgument
<1> QED
  BY <1>1, <1>2, <1>3, <1>4, <1>5, <1>6, <1>7, <1>8, <1>9, <1>10 DEF Next

LEMMA TypedStutter == Typed /\ UNCHANGED vars => Typed'
BY DEF Typed, HasArgument, vars, call
-----------------------------------------------------------------------------
(* The flush finds every array. *)

\* The array of a pending length is alive, or the call in hand has it and has not recorded it.
WaitsFor(n) ==
  \/ n.var \in Alive(ctx)
  \/ \E p \in DOMAIN arg_vars : arg_vars[p] = n.var /\ (pc \in {"second", "ret"} \/ (pc = "update" /\ pos <= p))
  \/ pc = "update" /\ ret_var = n.var
PendingInv ==
  /\ \A n \in ctx.new_vars : WaitsFor(n)
  /\ pc = "ret" => pos = 1

LEMMA PendingVars == ASSUME Typed PROVE ctx.new_vars \in SUBSET [var : Var, len : Var]
BY ContextFields DEF Typed, CtxInv

LEMMA PendingStep == Typed /\ PendingInv /\ Next => PendingInv'
<1> SUFFICES ASSUME Typed, PendingInv, Next PROVE PendingInv'
  OBVIOUS
<1>0. NoVar \notin Var /\ \A n \in ctx.new_vars : n.var \in Var /\ n.len \in Var
  BY NoVarIsNone, PendingVars
<1>1. ASSUME NEW a \in Apis, Choose(a) PROVE PendingInv'
  BY <1>1 DEF Choose, Typed, PendingInv, WaitsFor
<1>2. CASE EndOf("first", "second")
  BY <1>2 DEF EndOf, call, Typed, PendingInv, WaitsFor
<1>3. CASE EndOf("second", "ret")
  BY <1>3 DEF EndOf, call, Typed, PendingInv, WaitsFor
<1>4. CASE FirstRound
  <2>1. ctx'.new_vars = {} /\ pc' = "first"
    BY <1>4, FirstRoundEffect DEF FirstRound, Typed
  <2> QED
    BY <2>1 DEF PendingInv
<1>5. CASE SecondRound
  <2>1. /\ pc = "second" /\ UNCHANGED <<drv, pc, api, ret_var>> /\ pos \in DOMAIN arg_vars
    BY <1>5 DEF SecondRound, Typed
  <2>2. CASE arg_vars[pos] # NoVar
    BY <1>5, <2>1, <2>2 DEF SecondRound, IsSetUp, PendingInv, WaitsFor
  <2>3. CASE arg_vars[pos] = NoVar
    <3>1. PICK v \in Var : arg_vars' = [arg_vars EXCEPT ![pos] = v] /\ Landed(v)
      BY <1>5, <2>3, SecondRoundEffect
    <3>2. DOMAIN arg_vars' = DOMAIN arg_vars /\ arg_vars'[pos] = v /\ \A p \in DOMAIN arg_vars \ {pos} : arg_vars'[p] = arg_vars[p]
      BY <2>1, <3>1
    <3>3. ASSUME NEW n \in ctx.new_vars PROVE WaitsFor(n)'
      BY <1>0, <2>1, <2>3, <3>1, <3>2 DEF PendingInv, WaitsFor, Landed
    <3>4. ASSUME NEW n, n.var = v PROVE WaitsFor(n)'
      BY <2>1, <3>2, <3>4 DEF WaitsFor
    <3>5. \A n \in ctx'.new_vars : n \in ctx.new_vars \/ n.var = v
      BY <3>1 DEF Landed
    <3> QED
      BY <2>1, <3>3, <3>4, <3>5 DEF PendingInv
  <2> QED
    BY <2>2, <2>3
<1>6. CASE Return
  <2>1. /\ pc = "ret" /\ pc' = "update" /\ pos = 1 /\ UNCHANGED <<drv, pos, api, arg_vars>>
        /\ \A p \in DOMAIN arg_vars : 1 <= p
    BY <1>6, ApiFacts DEF Return, PendingInv, Typed
  <2>2. ASSUME NEW n \in ctx.new_vars, Alive(ctx') = Alive(ctx) PROVE WaitsFor(n)'
    BY <2>1, <2>2 DEF PendingInv, WaitsFor
  <2>3. CASE api.ret.type = NoType
    BY <1>6, <2>1, <2>2, <2>3 DEF Return, PendingInv
  <2>4. CASE api.ret.type # NoType
    <3>1. PICK v \in Var : ret_var' = v /\ Landed(v)
      BY <1>6, <2>4, ReturnEffect
    <3>2. \A n \in ctx'.new_vars : n \in ctx.new_vars \/ n.var = v
      BY <3>1 DEF Landed
    <3>3. ASSUME NEW n, n.var = v PROVE WaitsFor(n)'
      BY <2>1, <3>1, <3>3 DEF WaitsFor
    <3> QED
      BY <2>1, <2>2, <3>1, <3>2, <3>3 DEF PendingInv, Landed
  <2> QED
    BY <2>3, <2>4
<1>7. CASE Update
  <2>1. /\ Updated(ctx, ctx', arg_vars[pos], StaleCond.file, FALSE, IsSink(api))
        /\ UNCHANGED <<drv, pc, api, arg_vars, ret_var>> /\ pos' = pos + 1 /\ pc = "update" /\ pos \in Nat
        /\ \A p \in DOMAIN arg_vars : p \in Nat
    <3>1. Updated(ctx, ctx', arg_vars[pos], StaleCond.file, FALSE, IsSink(api))
      BY <1>7, UpdateEffect
    <3>2. /\ UNCHANGED <<drv, pc, api, arg_vars, ret_var>> /\ pos' = pos + 1 /\ pc = "update"
          /\ api \in Apis /\ pos \in Positions(api) /\ DOMAIN arg_vars = Positions(api)
      BY <1>7 DEF Update, call, Typed
    <3>3. Positions(api) \subseteq Nat
      BY <3>2, ApiFacts
    <3> QED
      BY <3>1, <3>2, <3>3
  <2> SUFFICES ASSUME NEW n \in ctx'.new_vars PROVE WaitsFor(n)'
    BY <2>1 DEF PendingInv
  <2>2. n \in ctx.new_vars /\ (n.var \in Alive(ctx) \cup {arg_vars[pos]} => n.var \in Alive(ctx'))
    BY <2>1 DEF Updated
  <2>3. CASE n.var \in Alive(ctx) \cup {arg_vars[pos]}
    BY <2>2, <2>3 DEF WaitsFor
  <2>4. CASE n.var \notin Alive(ctx) \cup {arg_vars[pos]}
    <3>1. CASE ret_var = n.var
      BY <2>1, <3>1 DEF WaitsFor
    <3>2. CASE ret_var # n.var
      <4>1. PICK p \in DOMAIN arg_vars : arg_vars[p] = n.var /\ pos <= p
        BY <2>1, <2>2, <2>4, <3>2 DEF PendingInv, WaitsFor
      <4>2. pos + 1 <= p
        BY <2>1, <2>4, <4>1
      <4> QED
        BY <2>1, <4>1, <4>2 DEF WaitsFor
    <3> QED
      BY <3>1, <3>2
  <2> QED
    BY <2>3, <2>4
<1>8. CASE UpdateReturn
  <2>1. /\ pc = "update" /\ pos = Len(api.args) + 1 /\ pc' = "flush" /\ DOMAIN arg_vars = 1..Len(api.args) /\ Len(api.args) \in Nat
    BY <1>8, ApiFacts DEF UpdateReturn, Typed
  <2>2. ASSUME NEW n \in ctx.new_vars PROVE n.var \in Alive(ctx) \/ ret_var = n.var
    BY <2>1 DEF PendingInv, WaitsFor
  <2>3. /\ ctx'.new_vars \subseteq ctx.new_vars /\ Alive(ctx) \subseteq Alive(ctx')
        /\ ret_var # NoVar => ret_var \in Alive(ctx')
    BY <1>8, UpdateReturnEffect DEF Updated
  <2> QED
    BY <1>0, <2>1, <2>2, <2>3 DEF PendingInv, WaitsFor
<1>9. ASSUME NEW n \in ctx.new_vars, Flush(n) PROVE PendingInv'
  <2>1. pc = "flush" /\ pc' = pc
    BY <1>9 DEF Flush
  <2>2. ctx'.new_vars \subseteq ctx.new_vars /\ Alive(ctx) \subseteq Alive(ctx')
    BY <1>9, FlushEffect
  <2> QED
    BY <2>1, <2>2 DEF PendingInv, WaitsFor
<1>10. CASE Append_
  BY <1>10 DEF Append_, PendingInv, WaitsFor
<1> QED
  BY <1>1, <1>2, <1>3, <1>4, <1>5, <1>6, <1>7, <1>8, <1>9, <1>10 DEF Next

\* The flush finds the array of every pending length: no lookup in var_to_cond fails.
THEOREM FlushSucceeds == Spec => []FlushFindsArrays
<1>1. Init => Typed /\ PendingInv
  BY TypedInit DEF Init, EmptyContext, PendingInv
<1>2. Typed /\ PendingInv /\ [Next]_vars => (Typed /\ PendingInv)'
  <2>1. Typed /\ PendingInv /\ UNCHANGED vars => PendingInv'
    BY DEF PendingInv, WaitsFor, vars, call
  <2> QED
    BY <2>1, TypedStep, TypedStutter, PendingStep
<1>3. Typed /\ PendingInv => FlushFindsArrays
  BY DEF Typed, CtxInv, PendingInv, WaitsFor, FlushFindsArrays
<1> QED
  BY <1>1, <1>2, <1>3, PTL DEF Spec
-----------------------------------------------------------------------------
(* What a sink was given. *)

\* A variable that is nowhere in sight.
Gone(x) ==
  /\ Old(ctx, x) /\ x \notin Alive(ctx)
  /\ \A p \in DOMAIN arg_vars : arg_vars[p] # x
  /\ ret_var # x
  /\ \A n \in ctx.new_vars : n.len # x

\* The variable of a sink is one that is alive, and gone when it is recorded.
SinkInHand ==
  /\ pc # "choose" /\ IsSink(api) =>
       /\ pc = "first" \/ (pc = "second" /\ pos = 1) => arg_vars[1] = NoVar
       /\ (pc = "second" /\ pos = 2) \/ pc = "ret" \/ (pc = "update" /\ pos = 1) => arg_vars[1] \in Alive(ctx)
       /\ pc = "update" /\ pos = 2 =>
            arg_vars[1] \notin Alive(ctx) /\ \A n \in ctx.new_vars : n.len # arg_vars[1]
       /\ pc = "flush" =>
            ret_var = arg_vars[1] \/ (arg_vars[1] \notin Alive(ctx) /\ \A n \in ctx.new_vars : n.len # arg_vars[1])

\* A pending length is a new variable.
LengthsAreNew ==
  \A n \in ctx.new_vars :
    /\ pc \in {"second", "ret", "update"} => \A p \in DOMAIN arg_vars : arg_vars[p] # n.len
    /\ pc = "second" => n.len \notin Alive(ctx)

\* What the sinks of the driver were given is gone, or a later call returned into it.
PastSinks ==
  \A i \in DOMAIN drv : IsSink(drv[i].api) =>
    \/ Gone(drv[i].args[1])
    \/ \E k \in i..Len(drv) : drv[k].ret = drv[i].args[1]

SinkInv == SinkInHand /\ LengthsAreNew /\ PastSinks /\ NoUseAfterSink

\* A variable that is gone does not come back.
LEMMA GoneStep ==
  ASSUME NEW x \in Var, Typed, Gone(x), Next
  PROVE  Gone(x)'
<1>0. NoVar \notin Var
  BY NoVarIsNone
<1>1. ASSUME NEW a \in Apis, Choose(a) PROVE Gone(x)'
  BY <1>0, <1>1 DEF Choose, Gone
<1>2. CASE EndOf("first", "second") \/ EndOf("second", "ret")
  BY <1>2 DEF EndOf, call, Gone
<1>3. CASE FirstRound
  <2>1. CASE ~Sized(api, pos)
    BY <1>3, <2>1 DEF FirstRound, Gone
  <2>2. CASE Sized(api, pos)
    <3> DEFINE l == api.args[pos].len
    <3>1. PICK y, b \in Var :
             /\ ~Old(ctx, y) /\ ~Old(ctx, b)
             /\ arg_vars' = [arg_vars EXCEPT ![pos] = y, ![l] = b]
             /\ Alive(ctx') = Alive(ctx) \cup {y, b} /\ ctx'.new_vars = ctx.new_vars
             /\ \A w \in Var : Old(ctx, w) => Old(ctx', w)
      BY <1>3, <2>2, FirstRoundEffect
    <3> HIDE DEF l
    <3>2. ASSUME NEW p \in DOMAIN arg_vars' PROVE p \in DOMAIN arg_vars /\ arg_vars'[p] \in {y, b, arg_vars[p]}
      <4>1. arg_vars \in [DOMAIN arg_vars -> Var \cup {NoVar}]
        BY <1>3 DEF Typed, FirstRound
      <4> QED
        BY <3>1, <4>1
    <3> QED
      BY <1>3, <3>1, <3>2 DEF FirstRound, Gone
  <2> QED
    BY <2>1, <2>2
<1>4. CASE SecondRound
  <2>1. CASE arg_vars[pos] # NoVar
    BY <1>4, <2>1 DEF SecondRound, IsSetUp, Gone
  <2>2. CASE arg_vars[pos] = NoVar
    <3>1. PICK v \in Var : Chosen(api, pos, v) /\ arg_vars' = [arg_vars EXCEPT ![pos] = v] /\ Landed(v)
      BY <1>4, <2>2, SecondRoundEffect
    <3>2. v # x
      BY <3>1 DEF Chosen, Gone
    <3>3. arg_vars \in [DOMAIN arg_vars -> Var \cup {NoVar}]
      BY <1>4 DEF Typed, SecondRound
    <3>4. \A n \in ctx'.new_vars : n.len # x
      BY <3>1 DEF Landed, Gone
    <3> QED
      BY <1>4, <3>1, <3>2, <3>3, <3>4 DEF SecondRound, Gone, Landed
  <2> QED
    BY <2>1, <2>2
<1>5. CASE Return
  <2>1. CASE api.ret.type = NoType
    BY <1>5, <2>1 DEF Return, Gone
  <2>2. CASE api.ret.type # NoType
    <3>1. PICK v \in Var : (~Old(ctx, v) \/ v \in Alive(ctx)) /\ ret_var' = v /\ Landed(v)
      BY <1>5, <2>2, ReturnEffect
    <3>2. \A n \in ctx'.new_vars : n.len # x
      BY <3>1 DEF Landed, Gone
    <3> QED
      BY <1>5, <3>1, <3>2 DEF Return, Gone, Landed
  <2> QED
    BY <2>1, <2>2
<1>6. CASE Update
  <2>1. Updated(ctx, ctx', arg_vars[pos], StaleCond.file, FALSE, IsSink(api))
    BY <1>6, UpdateEffect
  <2>2. pos \in DOMAIN arg_vars /\ UNCHANGED <<arg_vars, ret_var>>
    BY <1>6 DEF Update, call, Typed
  <2> QED
    BY <2>1, <2>2 DEF Updated, Gone, Old
<1>7. CASE UpdateReturn
  <2>1. UNCHANGED <<arg_vars, ret_var>>
    BY <1>7 DEF UpdateReturn, call
  <2> QED
    BY <1>7, <2>1, UpdateReturnEffect DEF Updated, Gone, Old
<1>8. ASSUME NEW n \in ctx.new_vars, Flush(n) PROVE Gone(x)'
  <2>1. UNCHANGED <<arg_vars, ret_var>>
    BY <1>8 DEF Flush, call
  <2> QED
    BY <1>8, <2>1, FlushEffect DEF Gone, Old
<1>9. CASE Append_
  BY <1>0, <1>9 DEF Append_, Gone
<1> QED
  BY <1>1, <1>2, <1>3, <1>4, <1>5, <1>6, <1>7, <1>8, <1>9 DEF Next

\* The calls of the driver.
LEMMA CallFacts ==
  ASSUME Typed, NEW i \in DOMAIN drv
  PROVE  /\ DOMAIN drv = 1..Len(drv) /\ Len(drv) \in Nat
         /\ drv[i].api \in Apis /\ DOMAIN drv[i].args = Positions(drv[i].api)
         /\ \A p \in Positions(drv[i].api) : drv[i].args[p] \in Var
<1>1. DOMAIN drv = 1..Len(drv) /\ Len(drv) \in Nat /\ drv[i] \in CallRecord
  BY LenProperties, ElementOfSeq DEF Typed
<1>2. drv[i].api \in Apis /\ drv[i].args \in Seq(Var) /\ DOMAIN drv[i].args = Positions(drv[i].api)
  BY <1>1 DEF CallRecord
<1>3. DOMAIN drv[i].args = 1..Len(drv[i].args)
  BY <1>2, LenProperties
<1> QED
  BY <1>1, <1>2, <1>3, ElementOfSeq

\* The driver after a call was appended.
LEMMA AppendFacts ==
  ASSUME Typed, Append_
  PROVE  /\ DOMAIN drv = 1..Len(drv) /\ Len(drv) \in Nat
         /\ DOMAIN drv' = 1..(Len(drv) + 1) /\ Len(drv') = Len(drv) + 1
         /\ \A i \in DOMAIN drv : drv'[i] = drv[i]
         /\ drv'[Len(drv) + 1].api = api /\ drv'[Len(drv) + 1].args = arg_vars
         /\ drv'[Len(drv) + 1].ret = ret_var
         /\ pc = "flush" /\ api \in Apis /\ DOMAIN arg_vars = Positions(api) /\ ctx' = ctx
         /\ \A p \in Positions(api) : arg_vars[p] \in Var
<1>1. DOMAIN drv = 1..Len(drv) /\ Len(drv) \in Nat
  BY LenProperties DEF Typed
<1> DEFINE r == [api |-> api, args |-> arg_vars, ret |-> ret_var]
<1>2. drv' = Append(drv, r) /\ pc = "flush" /\ ctx' = ctx
  BY DEF Append_
<1>3. r.api = api /\ r.args = arg_vars /\ r.ret = ret_var
  OBVIOUS
<1> HIDE DEF r
<1>4. /\ DOMAIN drv' = 1..(Len(drv) + 1) /\ Len(drv') = Len(drv) + 1
      /\ \A i \in DOMAIN drv : drv'[i] = drv[i]
      /\ drv'[Len(drv) + 1] = r
  <2>1. drv \in Seq(CallRecord \cup {r})
    BY SeqMonotonic DEF Typed
  <2> QED
    BY <1>1, <1>2, <2>1
<1>5. api \in Apis /\ DOMAIN arg_vars = Positions(api) /\ \A p \in Positions(api) : arg_vars[p] \in Var
  BY <1>2 DEF Typed, HasArgument
<1> QED
  BY <1>1, <1>2, <1>3, <1>4, <1>5

LEMMA SinkInHandStep == Typed /\ PendingInv /\ SinkInHand /\ LengthsAreNew /\ Next => SinkInHand'
<1> SUFFICES ASSUME Typed, PendingInv, SinkInHand, LengthsAreNew, Next PROVE SinkInHand'
  OBVIOUS
<1>0. NoVar \notin Var /\ \A n \in ctx.new_vars : n.len \in Var
  BY NoVarIsNone, PendingVars
<1>1. ASSUME NEW a \in Apis, Choose(a) PROVE SinkInHand'
  BY <1>1, SinkFacts DEF Choose, SinkInHand
<1> SUFFICES ASSUME api \in Apis, IsSink(api), pc # "choose", Positions(api) = {1}, Len(api.args) = 1, ~Sized(api, 1),
                    DOMAIN arg_vars = {1}, api' = api
             PROVE  SinkInHand'
  <2>1. CASE Append_
    BY <2>1 DEF Append_, SinkInHand
  <2>2. CASE api' = api /\ IsSink(api) /\ pc # "choose"
    BY <2>2, SinkFacts DEF Typed
  <2>3. CASE api' = api /\ ~IsSink(api)
    BY <2>3 DEF SinkInHand
  <2>4. CASE pc = "choose"
    BY <1>1, <2>4 DEF Next, EndOf, FirstRound, SecondRound, Return, Update, UpdateReturn, Flush, Append_
  <2>5. (\E a \in Apis : Choose(a)) \/ Append_ \/ api' = api
    BY DEF Next, EndOf, FirstRound, SecondRound, Return, Update, UpdateReturn, Flush, Append_, call
  <2> QED
    BY <1>1, <2>1, <2>2, <2>3, <2>4, <2>5
<1>2. CASE EndOf("first", "second") \/ EndOf("second", "ret")
  BY <1>2 DEF EndOf, call, SinkInHand
<1>3. CASE FirstRound
  BY <1>3 DEF FirstRound, SinkInHand
<1>4. CASE SecondRound
  <2>1. pos = 1 /\ arg_vars[1] = NoVar /\ pos' = 2 /\ pc = "second" /\ pc' = "second"
    BY <1>4 DEF SecondRound, SinkInHand
  <2>2. PICK v \in Var : Chosen(api, pos, v) /\ arg_vars' = [arg_vars EXCEPT ![pos] = v] /\ Landed(v)
    BY <1>4, <2>1, SecondRoundEffect
  <2>3. arg_vars'[1] = v /\ v \in Alive(ctx')
    BY <2>1, <2>2 DEF Chosen, Landed
  <2> QED
    BY <2>1, <2>3 DEF SinkInHand
<1>5. CASE Return
  <2>1. /\ pos' = 1 /\ pc' = "update" /\ arg_vars' = arg_vars /\ arg_vars[1] \in Alive(ctx)
    BY <1>5 DEF Return, SinkInHand, PendingInv
  <2>2. Alive(ctx') = Alive(ctx)
    BY <1>5, ReturnEffect DEF Return, Landed
  <2> QED
    BY <2>1, <2>2 DEF SinkInHand
<1>6. CASE Update
  <2>1. /\ pos = 1 /\ pos' = 2 /\ pc = "update" /\ pc' = "update" /\ arg_vars' = arg_vars
    BY <1>6 DEF Update, call
  <2>2. arg_vars[1] \in Alive(ctx) /\ \A n \in ctx.new_vars : n.len # arg_vars[1]
    BY <2>1 DEF SinkInHand, LengthsAreNew
  <2>3. Updated(ctx, ctx', arg_vars[1], StaleCond.file, FALSE, IsSink(api))
    BY <1>6, <2>1, UpdateEffect
  <2> QED
    BY <2>1, <2>2, <2>3 DEF SinkInHand, Updated
<1>7. CASE UpdateReturn
  <2>1. /\ pos = 2 /\ pc = "update" /\ pc' = "flush" /\ UNCHANGED <<arg_vars, ret_var>>
    BY <1>7 DEF UpdateReturn, call
  <2>2. arg_vars[1] \notin Alive(ctx) /\ \A n \in ctx.new_vars : n.len # arg_vars[1]
    BY <2>1 DEF SinkInHand
  <2>3. Alive(ctx') \subseteq Alive(ctx) \cup {ret_var} /\ ctx'.new_vars \subseteq ctx.new_vars
    BY <1>7, UpdateReturnEffect DEF Updated
  <2> QED
    BY <2>1, <2>2, <2>3 DEF SinkInHand
<1>8. ASSUME NEW n \in ctx.new_vars, Flush(n) PROVE SinkInHand'
  <2>1. UNCHANGED <<pc, pos, arg_vars, ret_var>> /\ pc = "flush"
    BY <1>8 DEF Flush, call
  <2> QED
    BY <1>8, <2>1, FlushEffect DEF SinkInHand
<1>9. CASE Append_
  BY <1>9 DEF Append_, SinkInHand
<1> QED
  BY <1>1, <1>2, <1>3, <1>4, <1>5, <1>6, <1>7, <1>8, <1>9 DEF Next

LEMMA LengthsAreNewStep == Typed /\ LengthsAreNew /\ Next => LengthsAreNew'
<1> SUFFICES ASSUME Typed, LengthsAreNew, Next PROVE LengthsAreNew'
  OBVIOUS
<1>0. NoVar \notin Var /\ \A n \in ctx.new_vars : n.len \in Var /\ Old(ctx, n.len)
  BY NoVarIsNone, PendingVars DEF Typed, CtxInv
<1>1. CASE pc \in {"choose", "first"}
  <2>1. ctx.new_vars = {}
    BY <1>1 DEF Typed
  <2>2. ctx'.new_vars = {}
    BY <1>1, <2>1, FirstRoundEffect
       DEF Next, Choose, EndOf, FirstRound, SecondRound, Return, Update, UpdateReturn, Flush, Append_
  <2> QED
    BY <2>2 DEF LengthsAreNew
<1>2. CASE EndOf("second", "ret")
  BY <1>2 DEF EndOf, call, LengthsAreNew
<1>3. CASE SecondRound
  <2>1. CASE arg_vars[pos] # NoVar
    BY <1>3, <2>1 DEF SecondRound, IsSetUp, LengthsAreNew
  <2>2. CASE arg_vars[pos] = NoVar
    <3>1. PICK v \in Var : Chosen(api, pos, v) /\ arg_vars' = [arg_vars EXCEPT ![pos] = v] /\ Landed(v)
      BY <1>3, <2>2, SecondRoundEffect
    <3>2. arg_vars \in [DOMAIN arg_vars -> Var \cup {NoVar}] /\ pc = "second" /\ pc' = pc
      BY <1>3 DEF Typed, SecondRound
    <3>3. \A n \in ctx.new_vars : n.len # v /\ n.len \notin Alive(ctx) /\ \A p \in DOMAIN arg_vars : arg_vars[p] # n.len
      BY <1>0, <3>1, <3>2 DEF LengthsAreNew, Chosen
    <3>4. ASSUME NEW n \in ctx'.new_vars
          PROVE  n.len # v /\ n.len \notin Alive(ctx) /\ \A p \in DOMAIN arg_vars : arg_vars[p] # n.len
      <4>1. CASE n \in ctx.new_vars
        BY <3>3, <4>1
      <4>2. CASE n \notin ctx.new_vars
        <5>1. ~Old(ctx, n.len) /\ n.len # v /\ n.len \in Var
          BY <3>1, <4>2 DEF Landed
        <5> QED
          BY <1>0, <5>1 DEF Typed, CtxInv
      <4> QED
        BY <4>1, <4>2
    <3> QED
      BY <3>1, <3>2, <3>4 DEF LengthsAreNew, Landed
  <2> QED
    BY <2>1, <2>2
<1>4. CASE Return
  <2>1. CASE api.ret.type = NoType
    BY <1>4, <2>1 DEF Return, LengthsAreNew
  <2>2. CASE api.ret.type # NoType
    <3>1. PICK v \in Var : ret_var' = v /\ Landed(v)
      BY <1>4, <2>2, ReturnEffect
    <3>2. ASSUME NEW n \in ctx'.new_vars PROVE \A p \in DOMAIN arg_vars : arg_vars[p] # n.len
      <4>1. CASE n \in ctx.new_vars
        BY <1>4, <4>1 DEF LengthsAreNew, Return
      <4>2. CASE n \notin ctx.new_vars
        <5>1. ~Old(ctx, n.len) /\ n.len \in Var
          BY <3>1, <4>2 DEF Landed
        <5> QED
          BY <1>0, <5>1 DEF Typed
      <4> QED
        BY <4>1, <4>2
    <3> QED
      BY <1>4, <3>2 DEF Return, LengthsAreNew
  <2> QED
    BY <2>1, <2>2
<1>5. CASE Update
  <2>1. Updated(ctx, ctx', arg_vars[pos], StaleCond.file, FALSE, IsSink(api))
    BY <1>5, UpdateEffect
  <2> QED
    BY <1>5, <2>1 DEF Update, call, Updated, LengthsAreNew
<1>6. CASE UpdateReturn \/ Append_ \/ \E n \in ctx.new_vars : Flush(n)
  BY <1>6 DEF UpdateReturn, Append_, Flush, LengthsAreNew
<1> QED
  BY <1>1, <1>2, <1>3, <1>4, <1>5, <1>6 DEF Next, Choose, EndOf, FirstRound

LEMMA PastSinksStep ==
  Typed /\ SinkInHand /\ PastSinks /\ NoUseAfterSink /\ Next => (PastSinks /\ NoUseAfterSink)'
<1> SUFFICES ASSUME Typed, SinkInHand, PastSinks, NoUseAfterSink, Next PROVE (PastSinks /\ NoUseAfterSink)'
  OBVIOUS
<1>1. ASSUME NEW i \in DOMAIN drv, IsSink(drv[i].api), NEW x, x = drv[i].args[1]
      PROVE  /\ x \in Var
             /\ Gone(x) => Gone(x)'
             /\ Gone(x) \/ \E k \in i..Len(drv) : drv[k].ret = x
  <2>1. x \in Var
    BY <1>1, CallFacts, SinkFacts
  <2> QED
    BY <1>1, <2>1, GoneStep DEF PastSinks
<1>2. CASE UNCHANGED drv
  <2>1. ASSUME NEW i \in DOMAIN drv, IsSink(drv[i].api), NEW x, x = drv[i].args[1]
        PROVE  Gone(x)' \/ \E k \in i..Len(drv) : drv[k].ret = drv[i].args[1]
    BY <1>1, <2>1
  <2> QED
    BY <1>2, <2>1 DEF PastSinks, NoUseAfterSink, PassedTo, Gone
<1>3. CASE Append_
  <2> DEFINE m == Len(drv) + 1
  <2>1. /\ DOMAIN drv = 1..Len(drv) /\ Len(drv) \in Nat
        /\ DOMAIN drv' = 1..m /\ Len(drv') = m
        /\ \A i \in DOMAIN drv : drv'[i] = drv[i]
        /\ drv'[m].api = api /\ drv'[m].args = arg_vars /\ drv'[m].ret = ret_var
        /\ pc = "flush" /\ api \in Apis /\ DOMAIN arg_vars = Positions(api) /\ ctx' = ctx
        /\ \A p \in Positions(api) : arg_vars[p] \in Var
        /\ arg_vars' = <<>> /\ ret_var' = NoVar
    BY <1>3, AppendFacts DEF Append_
  <2> HIDE DEF m
  <2>2. m = Len(drv) + 1
    BY DEF m
  <2>3. ASSUME NEW i \in DOMAIN drv', IsSink(drv'[i].api), NEW x, x = drv'[i].args[1]
        PROVE  Gone(x)' \/ \E k \in i..m : drv'[k].ret = x
    <3>1. CASE i \in DOMAIN drv
      <4>1. Gone(x)' \/ \E k \in i..Len(drv) : drv[k].ret = x
        BY <1>1, <2>1, <2>3, <3>1
      <4>2. ASSUME NEW k \in i..Len(drv), drv[k].ret = x PROVE k \in i..m /\ drv'[k].ret = x
        BY <2>1, <2>2, <3>1, <4>2
      <4> QED
        BY <4>1, <4>2
    <3>2. CASE i = m
      <4>1. IsSink(api) /\ x = arg_vars[1] /\ x \in Var /\ Old(ctx, x)
        <5>1. IsSink(api) /\ x = arg_vars[1]
          BY <2>1, <2>3, <3>2
        <5>2. 1 \in Positions(api)
          BY <2>1, <5>1, SinkFacts
        <5> QED
          BY <2>1, <5>1, <5>2, NoVarIsNone DEF Typed
      <4>2. ret_var = x \/ (x \notin Alive(ctx) /\ \A n \in ctx.new_vars : n.len # x)
        BY <2>1, <4>1 DEF SinkInHand
      <4>3. CASE ret_var = x
        BY <2>1, <2>2, <3>2, <4>3
      <4>4. CASE x \notin Alive(ctx) /\ \A n \in ctx.new_vars : n.len # x
        BY <2>1, <4>1, <4>4, NoVarIsNone DEF Gone
      <4> QED
        BY <4>2, <4>3, <4>4
    <3> QED
      BY <2>1, <2>2, <3>1, <3>2
  <2>4. ASSUME NEW i \in DOMAIN drv', NEW j \in DOMAIN drv', i < j, IsSink(drv'[i].api), PassedTo(j, drv[i].args[1])'
        PROVE  \E k \in i..(j - 1) : drv'[k].ret = drv'[i].args[1]
    <3>1. i \in DOMAIN drv /\ drv'[i] = drv[i]
      BY <2>1, <2>2, <2>4
    <3>2. CASE j \in DOMAIN drv
      <4>1. PassedTo(j, drv[i].args[1])
        BY <2>1, <2>4, <3>1, <3>2 DEF PassedTo
      <4>2. PICK k \in i..(j - 1) : drv[k].ret = drv[i].args[1]
        BY <2>4, <3>1, <3>2, <4>1 DEF NoUseAfterSink
      <4> QED
        BY <2>1, <3>1, <3>2, <4>2
    <3>3. CASE j = m
      <4>1. PICK p \in DOMAIN arg_vars : arg_vars[p] = drv[i].args[1]
        BY <2>1, <2>4, <3>1, <3>3 DEF PassedTo
      <4>2. ~Gone(drv[i].args[1])
        BY <4>1 DEF Gone
      <4>3. PICK k \in i..Len(drv) : drv[k].ret = drv[i].args[1]
        BY <1>1, <2>4, <3>1, <4>2
      <4> QED
        BY <2>1, <2>2, <3>1, <3>3, <4>3
    <3> QED
      BY <2>1, <2>2, <3>2, <3>3
  <2>5. PastSinks'
    BY <2>1, <2>3 DEF PastSinks
  <2>6. NoUseAfterSink'
    BY <2>1, <2>4 DEF NoUseAfterSink, PassedTo
  <2> QED
    BY <2>5, <2>6
<1> QED
  BY <1>2, <1>3 DEF Next, Choose, EndOf, FirstRound, SecondRound, Return, Update, UpdateReturn, Flush

\* What a sink was given, and what the driver calls free or close, is not passed to a later call unless a
\* call returned into it.
THEOREM SinksAreFinal == Spec => []NoUseAfterSink
<1>1. Init => Typed /\ PendingInv /\ SinkInv
  BY TypedInit DEF Init, EmptyContext, PendingInv, SinkInv, SinkInHand, LengthsAreNew, PastSinks, NoUseAfterSink
<1>2. Typed /\ PendingInv /\ SinkInv /\ [Next]_vars => (Typed /\ PendingInv /\ SinkInv)'
  <2>1. Typed /\ PendingInv /\ SinkInv /\ UNCHANGED vars => (PendingInv /\ SinkInv)'
    BY DEF PendingInv, WaitsFor, SinkInv, SinkInHand, LengthsAreNew, PastSinks, Gone, NoUseAfterSink, PassedTo, vars, call
  <2>2. Typed /\ PendingInv /\ SinkInv /\ Next => (PendingInv /\ SinkInv)'
    BY PendingStep, SinkInHandStep, LengthsAreNewStep, PastSinksStep DEF SinkInv
  <2> QED
    BY <2>1, <2>2, TypedStep, TypedStutter
<1>3. Typed /\ PendingInv /\ SinkInv => NoUseAfterSink
  BY DEF SinkInv
<1> QED
  BY <1>1, <1>2, <1>3, PTL DEF Spec
-----------------------------------------------------------------------------
(* Arrays and their lengths. *)

\* x is an array and b its length: as long as x is alive, the context knows.
Tracked(x, b) ==
  /\ Old(ctx, x)
  /\ x \in Alive(ctx) => ctx.var_to_cond[x].len = b
  /\ ret_var # x
  /\ \A n \in ctx.new_vars : n.var = x =>
       IsSink(api) /\ arg_vars[1] = x /\ (pc \in {"second", "ret"} \/ (pc = "update" /\ pos = 1))
  /\ \A p \in DOMAIN arg_vars :
       arg_vars[p] = x /\ (pc \in {"first", "second", "ret"} \/ (pc = "update" /\ pos <= p)) => x \in Alive(ctx)

\* Before position n, a later array of the call has the same length.
SharedBefore(a, p, n) == \E q \in Positions(a) : q > p /\ q < n /\ Sized(a, q) /\ a.args[q].len = a.args[p].len

\* The positions of the call in hand that the first round is through with.
Done == IF pc = "first" THEN pos ELSE Len(api.args) + 1

PastArrays ==
  \A k \in DOMAIN drv : \A p \in Positions(drv[k].api) : Sized(drv[k].api, p) =>
    \E x, b \in Var : /\ x = drv[k].args[p] /\ x.type \in Pointer /\ x.type \notin SizeType
                      /\ Tracked(x, b)
                      /\ b = drv[k].args[drv[k].api.args[p].len] <=> ~SharedLength(drv[k].api, p)

OwnArrays ==
  pc # "choose" => \A p \in Positions(api) : Sized(api, p) /\ p < Done =>
    /\ arg_vars[api.args[p].len] \in Var
    /\ \E x, b \in Var : /\ x = arg_vars[p] /\ x.type \in Pointer /\ x.type \notin SizeType
                         /\ Tracked(x, b) /\ (pc = "first" => Old(ctx, b))
                         /\ b = arg_vars[api.args[p].len] <=> ~SharedBefore(api, p, Done)

\* The context goes on knowing.
LEMMA TrackedStep ==
  ASSUME NEW x \in Var, NEW b \in Var, x.type \in Pointer, x.type \notin SizeType,
         Typed, PendingInv, SinkInHand, Tracked(x, b), Next
  PROVE  Tracked(x, b)'
<1>0. NoVar \notin Var /\ \A n \in ctx.new_vars : n.var \in Var /\ n.len \in Var
  BY NoVarIsNone, PendingVars
<1>1. ASSUME NEW a \in Apis, Choose(a) PROVE Tracked(x, b)'
  BY <1>0, <1>1 DEF Choose, Tracked, Typed
<1>2. CASE EndOf("first", "second") \/ EndOf("second", "ret")
  BY <1>2 DEF EndOf, call, Tracked, Typed
<1>3. CASE FirstRound
  <2>1. CASE ~Sized(api, pos)
    BY <1>3, <2>1 DEF FirstRound, Tracked, Typed
  <2>2. CASE Sized(api, pos)
    <3> DEFINE l == api.args[pos].len
    <3>1. PICK y, c \in Var :
             /\ ~Old(ctx, y) /\ ~Old(ctx, c)
             /\ arg_vars' = [arg_vars EXCEPT ![pos] = y, ![l] = c]
             /\ Alive(ctx') = Alive(ctx) \cup {y, c} /\ ctx'.new_vars = ctx.new_vars
             /\ \A w \in Alive(ctx) : ctx'.var_to_cond[w] = ctx.var_to_cond[w]
             /\ \A w \in Var : Old(ctx, w) => Old(ctx', w)
      BY <1>3, <2>2, FirstRoundEffect
    <3> HIDE DEF l
    <3>2. x # y /\ x # c
      BY <3>1 DEF Tracked
    <3>3. ASSUME NEW p \in DOMAIN arg_vars' PROVE p \in DOMAIN arg_vars /\ arg_vars'[p] \in {y, c, arg_vars[p]}
      <4>1. arg_vars \in [DOMAIN arg_vars -> Var \cup {NoVar}]
        BY <1>3 DEF Typed, FirstRound
      <4> QED
        BY <3>1, <4>1
    <3>4. ctx.new_vars = {} /\ UNCHANGED <<drv, pc, api, ret_var>> /\ pc = "first"
      BY <1>3 DEF FirstRound, Typed
    <3> QED
      BY <3>1, <3>2, <3>3, <3>4 DEF Tracked
  <2> QED
    BY <2>1, <2>2
<1>4. CASE SecondRound
  <2>1. /\ pc = "second" /\ UNCHANGED <<drv, pc, api, ret_var>> /\ pos' = pos + 1 /\ api \in Apis
        /\ arg_vars \in [Positions(api) -> Var \cup {NoVar}] /\ pos \in Positions(api)
    BY <1>4 DEF SecondRound, Typed
  <2>2. CASE arg_vars[pos] # NoVar
    BY <1>4, <2>1, <2>2 DEF SecondRound, IsSetUp, Tracked
  <2>3. CASE arg_vars[pos] = NoVar
    <3>1. PICK v \in Var : Chosen(api, pos, v) /\ arg_vars' = [arg_vars EXCEPT ![pos] = v] /\ Landed(v)
      BY <1>4, <2>3, SecondRoundEffect
    <3>2. v = x => x \in Alive(ctx) /\ IsSink(api)
      BY <1>0, <3>1 DEF Chosen, Tracked
    <3>3. IsSink(api) => Positions(api) = {1} /\ pos = 1
      BY <2>1, SinkFacts
    <3>4. ASSUME NEW n \in ctx'.new_vars, n.var = x PROVE IsSink(api) /\ arg_vars'[1] = x
      <4>1. CASE n \in ctx.new_vars
        BY <1>0, <2>1, <2>3, <3>1, <3>3, <3>4, <4>1 DEF Tracked
      <4>2. CASE n \notin ctx.new_vars
        BY <2>1, <3>1, <3>2, <3>3, <3>4, <4>2 DEF Landed
      <4> QED
        BY <4>1, <4>2
    <3>5. ASSUME NEW p \in DOMAIN arg_vars', arg_vars'[p] = x PROVE x \in Alive(ctx')
      BY <2>1, <3>1, <3>2, <3>5 DEF Tracked, Landed
    <3> QED
      BY <2>1, <3>1, <3>4, <3>5 DEF Tracked, Landed
  <2> QED
    BY <2>2, <2>3
<1>5. CASE Return
  <2>1. /\ pc = "ret" /\ pc' = "update" /\ pos = 1 /\ UNCHANGED <<drv, pos, api, arg_vars>>
    BY <1>5 DEF Return, PendingInv
  <2>2. CASE api.ret.type = NoType
    BY <1>0, <1>5, <2>1, <2>2 DEF Return, Tracked
  <2>3. CASE api.ret.type # NoType
    <3>1. PICK v \in Var : (~Old(ctx, v) \/ v.type \notin Pointer) /\ ret_var' = v /\ Landed(v)
      BY <1>5, <2>3, ReturnEffect
    <3>2. v # x
      BY <3>1 DEF Tracked
    <3>3. \A n \in ctx'.new_vars : n.var = x => n \in ctx.new_vars
      BY <3>1, <3>2 DEF Landed
    <3> QED
      BY <2>1, <3>1, <3>2, <3>3 DEF Tracked, Landed
  <2> QED
    BY <2>2, <2>3
<1>6. CASE Update
  <2>1. Updated(ctx, ctx', arg_vars[pos], StaleCond.file, FALSE, IsSink(api))
    BY <1>6, UpdateEffect
  <2>2. /\ pc = "update" /\ UNCHANGED <<drv, pc, api, arg_vars, ret_var>> /\ pos' = pos + 1 /\ api \in Apis
        /\ pos \in Positions(api) /\ DOMAIN arg_vars = Positions(api)
    BY <1>6 DEF Update, call, Typed
  <2>3. Positions(api) \subseteq Nat /\ (IsSink(api) => Positions(api) = {1})
    BY <2>2, ApiFacts, SinkFacts
  <2>4. arg_vars[pos] = x => x \in Alive(ctx)
    BY <2>2, <2>3 DEF Tracked
  <2>5. x \in Alive(ctx') => ctx'.var_to_cond[x].len = b
    BY <2>1, <2>4 DEF Tracked, Updated
  <2>6. ASSUME NEW n \in ctx'.new_vars, n.var = x PROVE FALSE
    <3>1. n \in ctx.new_vars
      BY <2>1, <2>6 DEF Updated
    <3>2. IsSink(api) /\ arg_vars[1] = x /\ pos = 1
      BY <2>2, <2>6, <3>1 DEF Tracked
    <3> QED
      BY <2>1, <2>4, <2>6, <3>1, <3>2 DEF Updated
  <2>7. ASSUME NEW p \in DOMAIN arg_vars, arg_vars[p] = x, pos + 1 <= p PROVE x \in Alive(ctx')
    <3>1. x \in Alive(ctx) /\ ~IsSink(api)
      BY <2>2, <2>3, <2>7 DEF Tracked
    <3> QED
      BY <2>1, <3>1 DEF Updated
  <2>8. Old(ctx', x)
    BY <2>1 DEF Updated, Old, Tracked
  <2> QED
    BY <2>2, <2>5, <2>6, <2>7, <2>8 DEF Tracked
<1>7. CASE UpdateReturn
  <2>1. /\ pc = "update" /\ pc' = "flush" /\ UNCHANGED <<api, arg_vars, ret_var>> /\ pos = Len(api.args) + 1 /\ api \in Apis
    BY <1>7 DEF UpdateReturn, call, Typed
  <2>2. /\ ret_var # x
        /\ x \in Alive(ctx') => x \in Alive(ctx) /\ ctx'.var_to_cond[x] = ctx.var_to_cond[x]
        /\ ctx'.new_vars \subseteq ctx.new_vars /\ ctx'.buffs_counter = ctx.buffs_counter
    BY <1>7, UpdateReturnEffect DEF Updated, Tracked
  <2>3. ASSUME NEW n \in ctx.new_vars, n.var = x PROVE FALSE
    BY <2>1, <2>3, SinkFacts DEF Tracked
  <2> QED
    BY <2>1, <2>2, <2>3 DEF Tracked, Old
<1>8. ASSUME NEW n \in ctx.new_vars, Flush(n) PROVE Tracked(x, b)'
  <2>1. /\ pc = "flush" /\ UNCHANGED <<drv, pc, pos, api, arg_vars, ret_var>>
    BY <1>8 DEF Flush, call
  <2>2. n.var # x /\ n.len # x
    BY <2>1, TypesAssumption DEF Tracked, Typed
  <2>3. /\ Alive(ctx') = Alive(ctx) \cup {n.len} /\ ctx'.new_vars \subseteq ctx.new_vars
        /\ \A w \in Alive(ctx) \ {n.len, n.var} : ctx'.var_to_cond[w] = ctx.var_to_cond[w]
        /\ ctx'.buffs_counter = ctx.buffs_counter
    BY <1>8, FlushEffect
  <2> QED
    BY <2>1, <2>2, <2>3 DEF Tracked, Old
<1>9. CASE Append_
  BY <1>0, <1>9 DEF Append_, Tracked
<1> QED
  BY <1>1, <1>2, <1>3, <1>4, <1>5, <1>6, <1>7, <1>8, <1>9 DEF Next

LEMMA OwnArraysStep == Typed /\ PendingInv /\ SinkInHand /\ OwnArrays /\ Next => OwnArrays'
<1> SUFFICES ASSUME Typed, PendingInv, SinkInHand, OwnArrays, Next PROVE OwnArrays'
  OBVIOUS
<1>0. NoVar \notin Var
  BY NoVarIsNone
<1>1. CASE \E a \in Apis : Choose(a)
  <2>1. pc' = "first" /\ pos' = 1 /\ api' \in Apis
    BY <1>1 DEF Choose
  <2>2. \A p \in Positions(api)' : ~(p < 1)
    BY <2>1, ApiFacts DEF Positions
  <2> QED
    BY <2>1, <2>2 DEF OwnArrays, Done
<1>2. CASE Append_
  BY <1>2 DEF Append_, OwnArrays
<1> SUFFICES ASSUME pc # "choose", pc' # "choose", api' = api, api \in Apis,
                    NEW p \in Positions(api), Sized(api, p), p < Done'
             PROVE  /\ arg_vars'[api.args[p].len] \in Var
                    /\ \E x, b \in Var : /\ x = arg_vars'[p] /\ x.type \in Pointer /\ x.type \notin SizeType
                                         /\ Tracked(x, b)' /\ (pc' = "first" => Old(ctx', b))
                                         /\ b = arg_vars'[api.args[p].len] <=> ~SharedBefore(api, p, Done')
  <2>1. CASE pc = "choose"
    BY <1>1, <2>1 DEF Next, EndOf, FirstRound, SecondRound, Return, Update, UpdateReturn, Flush, Append_
  <2>2. CASE pc # "choose"
    <3>1. api \in Apis
      BY <2>2 DEF Typed
    <3>2. (\E a \in Apis : Choose(a)) \/ Append_ \/ api' = api
      BY DEF Next, EndOf, FirstRound, SecondRound, Return, Update, UpdateReturn, Flush, call
    <3> QED
      BY <1>1, <1>2, <2>2, <3>1, <3>2 DEF OwnArrays, Old
  <2> QED
    BY <2>1, <2>2
<1> DEFINE l == api.args[p].len
<1>3. /\ l \in Positions(api) /\ p # l
      /\ Positions(api) = 1..Len(api.args) /\ Len(api.args) \in Nat /\ arg_vars \in [Positions(api) -> Var \cup {NoVar}]
      /\ pos \in 1..(Len(api.args) + 1)
  BY SizedFacts, ApiFacts DEF Typed
\* Nothing happens to the array and its length.
<1>4. ASSUME arg_vars'[p] = arg_vars[p], arg_vars'[l] = arg_vars[l], p < Done,
             SharedBefore(api, p, Done') <=> SharedBefore(api, p, Done),
             pc' = "first" => pc = "first" /\ \A w \in Var : Old(ctx, w) => Old(ctx', w)
      PROVE  /\ arg_vars'[l] \in Var
             /\ \E x, b \in Var : /\ x = arg_vars'[p] /\ x.type \in Pointer /\ x.type \notin SizeType
                                  /\ Tracked(x, b)' /\ (pc' = "first" => Old(ctx', b))
                                  /\ b = arg_vars'[l] <=> ~SharedBefore(api, p, Done')
  <2>1. PICK x, b \in Var : /\ x = arg_vars[p] /\ x.type \in Pointer /\ x.type \notin SizeType
                            /\ Tracked(x, b) /\ (pc = "first" => Old(ctx, b))
                            /\ b = arg_vars[l] <=> ~SharedBefore(api, p, Done)
    BY <1>4 DEF OwnArrays
  <2>2. arg_vars[l] \in Var
    BY <1>4 DEF OwnArrays
  <2>3. Tracked(x, b)'
    BY <2>1, TrackedStep
  <2> HIDE DEF l
  <2> QED
    BY <1>4, <2>1, <2>2, <2>3
<1>5. CASE UNCHANGED arg_vars /\ ~FirstRound
  <2>1. Done' = Done /\ pc' # "first"
    BY <1>3, <1>5 DEF Next, Choose, EndOf, SecondRound, Return, Update, UpdateReturn, Flush, Append_, Done, Typed
  <2> QED
    BY <1>4, <1>5, <2>1
<1>6. CASE FirstRound
  <2>1. pos \in Positions(api) /\ pc = "first" /\ pc' = "first" /\ pos' = pos + 1 /\ UNCHANGED <<drv, api, ret_var>>
    BY <1>6 DEF FirstRound
  <2>2. Done = pos /\ Done' = pos + 1 /\ p < pos + 1
    BY <2>1 DEF Done
  <2>3. CASE ~Sized(api, pos)
    <3>1. p < pos /\ arg_vars' = arg_vars /\ ctx' = ctx
      BY <1>3, <1>6, <2>1, <2>2, <2>3 DEF FirstRound
    <3>2. SharedBefore(api, p, pos + 1) <=> SharedBefore(api, p, pos)
      BY <1>3, <2>1, <2>3 DEF SharedBefore
    <3> QED
      BY <1>4, <2>1, <2>2, <3>1, <3>2
  <2>4. CASE Sized(api, pos)
    <3> DEFINE m == api.args[pos].len
    <3>1. PICK y, c \in Var :
             /\ ~Old(ctx, y) /\ ~Old(ctx, c) /\ Old(ctx', y) /\ Old(ctx', c)
             /\ y.type = Made(api.args[pos].type)
             /\ arg_vars' = [arg_vars EXCEPT ![pos] = y, ![m] = c]
             /\ Alive(ctx') = Alive(ctx) \cup {y, c} /\ ctx'.new_vars = ctx.new_vars
             /\ ctx'.var_to_cond[y].len = c
             /\ \A w \in Var : Old(ctx, w) => Old(ctx', w)
      BY <1>6, <2>4, FirstRoundEffect
    <3>2. m \in Positions(api) /\ m # pos /\ Made(api.args[pos].type) \in Pointer /\ Made(api.args[pos].type) \notin SizeType
      BY <2>1, <2>4, SizedFacts
    <3>3. p # m /\ l # pos
      BY <2>1, <2>4, LengthIsNoArray
    <3>4. SharedBefore(api, p, pos + 1) <=> SharedBefore(api, p, pos) \/ (p < pos /\ l = m)
      BY <1>3, <2>1, <2>4 DEF SharedBefore
    <3> HIDE DEF l, m
    <3>5. CASE p < pos /\ l # m
      <4>1. arg_vars'[p] = arg_vars[p] /\ arg_vars'[l] = arg_vars[l]
        BY <1>3, <2>1, <3>1, <3>2, <3>3, <3>5
      <4> QED
        BY <1>4, <2>1, <2>2, <3>1, <3>4, <3>5, <4>1 DEF l
    <3>6. CASE p < pos /\ l = m
      <4>1. arg_vars'[p] = arg_vars[p] /\ arg_vars'[l] = c
        BY <1>3, <2>1, <3>1, <3>2, <3>3, <3>6
      <4>2. PICK x, b \in Var : /\ x = arg_vars[p] /\ x.type \in Pointer /\ x.type \notin SizeType
                                /\ Tracked(x, b) /\ Old(ctx, b)
        BY <2>1, <2>2, <3>6 DEF OwnArrays
      <4>3. b # c /\ Old(ctx', b)
        BY <3>1, <4>2
      <4>4. Tracked(x, b)'
        BY <4>2, TrackedStep
      <4>5. SharedBefore(api, p, Done')
        BY <2>2, <3>4, <3>6
      <4> QED
        BY <4>1, <4>2, <4>3, <4>4, <4>5 DEF l
    <3>7. CASE p = pos
      <4>1. l = m
        BY <3>7 DEF l, m
      <4>2. arg_vars'[p] = y /\ arg_vars'[l] = c
        BY <1>3, <2>1, <3>1, <3>2, <3>7, <4>1
      <4>3. ret_var # y
        BY <1>0, <3>1 DEF Typed
      <4>4. ctx'.new_vars = {}
        BY <2>1, <3>1 DEF Typed
      <4>5. Tracked(y, c)'
        BY <2>1, <3>1, <4>3, <4>4 DEF Tracked
      <4>6. ~SharedBefore(api, p, Done')
        BY <1>3, <2>1, <2>2, <3>7 DEF SharedBefore
      <4> QED
        BY <3>1, <3>2, <4>2, <4>5, <4>6 DEF l
    <3> QED
      BY <1>3, <2>1, <2>2, <3>5, <3>6, <3>7
  <2> QED
    BY <2>3, <2>4
<1>7. CASE SecondRound /\ arg_vars[pos] = NoVar
  <2>1. PICK v \in Var : arg_vars' = [arg_vars EXCEPT ![pos] = v]
    BY <1>7, SecondRoundEffect
  <2>2. pc = "second" /\ pc' = "second" /\ Done = Done' /\ p < Done
    BY <1>3, <1>7 DEF SecondRound, Done
  <2>3. arg_vars[p] # NoVar /\ arg_vars[l] # NoVar
    BY <1>0, <2>2 DEF OwnArrays
  <2>4. arg_vars'[p] = arg_vars[p] /\ arg_vars'[l] = arg_vars[l]
    BY <1>3, <1>7, <2>1, <2>3
  <2> QED
    BY <1>4, <2>2, <2>4
<1>8. SecondRound /\ arg_vars[pos] # NoVar => UNCHANGED arg_vars
  BY DEF SecondRound, IsSetUp
<1>9. (\E a \in Apis : Choose(a)) \/ FirstRound \/ SecondRound \/ Append_ \/ UNCHANGED arg_vars
  BY DEF Next, EndOf, Return, Update, UpdateReturn, Flush, call
<1>10. (\E a \in Apis : Choose(a)) => pc = "choose"
  BY DEF Choose
<1>11. ~Append_
  BY DEF Append_
<1>12. FirstRound => pc = "first"
  BY DEF FirstRound
<1>13. SecondRound => pc = "second"
  BY DEF SecondRound
<1> QED
  BY <1>5, <1>6, <1>7, <1>8, <1>9, <1>10, <1>11, <1>12, <1>13

LEMMA PastArraysStep == Typed /\ PendingInv /\ SinkInHand /\ OwnArrays /\ PastArrays /\ Next => PastArrays'
<1> SUFFICES ASSUME Typed, PendingInv, SinkInHand, OwnArrays, PastArrays, Next PROVE PastArrays'
  OBVIOUS
<1>1. ASSUME NEW k \in DOMAIN drv, NEW p \in Positions(drv[k].api), Sized(drv[k].api, p)
      PROVE  \E x, b \in Var : /\ x = drv[k].args[p] /\ x.type \in Pointer /\ x.type \notin SizeType
                               /\ Tracked(x, b)'
                               /\ b = drv[k].args[drv[k].api.args[p].len] <=> ~SharedLength(drv[k].api, p)
  <2>1. PICK x, b \in Var : /\ x = drv[k].args[p] /\ x.type \in Pointer /\ x.type \notin SizeType
                            /\ Tracked(x, b)
                            /\ b = drv[k].args[drv[k].api.args[p].len] <=> ~SharedLength(drv[k].api, p)
    BY <1>1 DEF PastArrays
  <2>2. Tracked(x, b)'
    BY <2>1, TrackedStep
  <2> QED
    BY <2>1, <2>2
<1>2. CASE UNCHANGED drv
  BY <1>1, <1>2 DEF PastArrays
<1>3. CASE Append_
  <2> DEFINE m == Len(drv) + 1
  <2>1. /\ DOMAIN drv = 1..Len(drv) /\ Len(drv) \in Nat
        /\ DOMAIN drv' = 1..m
        /\ \A i \in DOMAIN drv : drv'[i] = drv[i]
        /\ drv'[m].api = api /\ drv'[m].args = arg_vars
        /\ pc = "flush" /\ api \in Apis
    BY <1>3, AppendFacts
  <2> HIDE DEF m
  <2>2. DOMAIN drv' = DOMAIN drv \cup {m}
    BY <2>1 DEF m
  <2> SUFFICES ASSUME NEW k \in DOMAIN drv', NEW p \in Positions(drv'[k].api), Sized(drv'[k].api, p)
               PROVE  \E x, b \in Var : /\ x = drv'[k].args[p] /\ x.type \in Pointer /\ x.type \notin SizeType
                                        /\ Tracked(x, b)'
                                        /\ b = drv'[k].args[drv'[k].api.args[p].len] <=> ~SharedLength(drv'[k].api, p)
    BY DEF PastArrays
  <2>3. CASE k \in DOMAIN drv
    <3>1. drv'[k] = drv[k]
      BY <2>1, <2>3
    <3> QED
      BY <1>1, <2>3, <3>1
  <2>4. CASE k = m
    <3>1. p \in Positions(api) /\ Sized(api, p) /\ drv'[k].api = api /\ drv'[k].args = arg_vars
      BY <2>1, <2>4
    <3>2. Positions(api) = 1..Len(api.args) /\ Len(api.args) \in Nat /\ Done = Len(api.args) + 1
      BY <2>1, ApiFacts DEF Done
    <3>3. p < Done /\ (SharedBefore(api, p, Done) <=> SharedLength(api, p))
      BY <3>1, <3>2 DEF SharedBefore, SharedLength
    <3>4. PICK x, b \in Var : /\ x = arg_vars[p] /\ x.type \in Pointer /\ x.type \notin SizeType
                              /\ Tracked(x, b)
                              /\ b = arg_vars[api.args[p].len] <=> ~SharedLength(api, p)
      BY <2>1, <3>1, <3>3 DEF OwnArrays
    <3>5. Tracked(x, b)'
      BY <3>4, TrackedStep
    <3> QED
      BY <3>1, <3>4, <3>5
  <2> QED
    BY <2>2, <2>3, <2>4
<1> QED
  BY <1>2, <1>3 DEF Next, Choose, EndOf, FirstRound, SecondRound, Return, Update, UpdateReturn, Flush

\* For every library: the length the context has for an array that is alive is the one its call was
\* given, except for arrays whose length a later array of the call has replaced, and for all of these not.
THEOREM LengthsAgree == Spec => []LengthOfLastArray
<1> DEFINE I == Typed /\ PendingInv /\ SinkInv /\ OwnArrays /\ PastArrays
<1>1. Init => I
  BY TypedInit DEF Init, EmptyContext, PendingInv, SinkInv, SinkInHand, LengthsAreNew, PastSinks, NoUseAfterSink,
                   OwnArrays, PastArrays
<1>2. I /\ [Next]_vars => I'
  <2>1. Typed /\ PendingInv /\ SinkInv /\ UNCHANGED vars => (PendingInv /\ SinkInv)'
    BY DEF PendingInv, WaitsFor, SinkInv, SinkInHand, LengthsAreNew, PastSinks, Gone, NoUseAfterSink, PassedTo, vars, call
  <2>2. OwnArrays /\ PastArrays /\ UNCHANGED vars => (OwnArrays /\ PastArrays)'
    BY DEF OwnArrays, PastArrays, Tracked, Done, vars, call
  <2>3. I /\ Next => (PendingInv /\ SinkInv)'
    BY PendingStep, SinkInHandStep, LengthsAreNewStep, PastSinksStep DEF SinkInv
  <2>4. I /\ Next => (OwnArrays /\ PastArrays)'
    BY OwnArraysStep, PastArraysStep DEF SinkInv
  <2> QED
    BY <2>1, <2>2, <2>3, <2>4, TypedStep, TypedStutter
<1>3. I => LengthOfLastArray
  BY DEF PastArrays, Tracked, LengthOfLastArray
<1> QED
  BY <1>1, <1>2, <1>3, PTL DEF Spec
-----------------------------------------------------------------------------
(* Structures that have a source. *)

\* An earlier call took v or returned it.
Produced(v) == \E i \in DOMAIN drv : drv[i].ret = v \/ PassedTo(i, v)

\* The arguments that must have been produced.
Needs(a, q) == HasSource(a.args[q].type) /\ ~IsInit(a, q) /\ ~IsSetby(a, q) /\ ~Sized(a, q)

\* The structures that are alive come from the calls of the driver or from the call in hand, and as
\* long as that looks for variables they are arrays with a length.
IsArgument(v) == \E p \in DOMAIN arg_vars : arg_vars[p] = v
IsArray(v) ==
  /\ ctx.var_to_cond[v].len # NoVar
  /\ \E p \in DOMAIN arg_vars : Sized(api, p) /\ arg_vars[p] = v /\ (pc = "first" => p < pos)
Explained(v) ==
  \/ Produced(v)
  \/ pc \in {"first", "second"} /\ ~IsSink(api) /\ IsArray(v)
  \/ pc \in {"ret", "update", "flush"} /\ IsArgument(v)
  \/ pc = "flush" /\ ret_var = v
AliveInv == \A v \in Alive(ctx) : v.type \in Struct => Explained(v)

\* There is something usable for what must have been produced, and it is what the call gets.
NeedsInv ==
  /\ pc \in {"first", "second"} /\ ~IsSink(api) =>
       \A p \in Positions(api) : Needs(api, p) => UsableVars(api.args[p]) # {}
  /\ pc # "choose" =>
       \A p \in Positions(api) : Needs(api, p) /\ arg_vars[p] # NoVar => Produced(arg_vars[p])

\* Structures are neither lengths nor void.
LEMMA StructFacts ==
  ASSUME NEW a \in Apis, NEW p \in Positions(a), Needs(a, p)
  PROVE  /\ a.args[p].type \in Struct /\ a.args[p].type \notin SizeType /\ a.args[p].type # VoidPointer
         /\ p \notin LengthPositions(a) /\ ~MadeVoid(a.args[p].type)
<1>1. a.args[p].type \in Struct
  BY DEF Needs, HasSource
<1>2. a.args[p].type \notin SizeType /\ a.args[p].type # VoidPointer
  BY <1>1, TypesAssumption
<1>3. p \notin LengthPositions(a)
  BY <1>2 DEF LengthPositions, Sized
<1> QED
  BY <1>1, <1>2, <1>3 DEF MadeVoid

\* Erasing a length does not change what is usable.
LEMMA UsableArgument ==
  ASSUME NEW a \in Apis, NEW p \in Positions(a)
  PROVE  UsableVars(Argument(a, p)) = UsableVars(a.args[p])
<1> DEFINE m == Argument(a, p)
<1>1. a.args[p] \in Metadata
  BY ApiFacts
<1>2. m.type = a.args[p].type /\ m.file = a.args[p].file
  BY <1>1 DEF Argument, Metadata
<1> HIDE DEF m
<1>3. \A v : Usable(v, m) <=> Usable(v, a.args[p])
  BY <1>2 DEF Usable
<1>4. UsableVars(m) = UsableVars(a.args[p])
  BY <1>3 DEF UsableVars
<1> QED
  BY <1>4 DEF m

LEMMA NeedsStep == Typed /\ AliveInv /\ NeedsInv /\ Next => NeedsInv'
<1> SUFFICES ASSUME Typed, AliveInv, NeedsInv, Next PROVE NeedsInv'
  OBVIOUS
<1>0. NoVar \notin Var
  BY NoVarIsNone
<1>1. ASSUME NEW a \in Apis, Choose(a) PROVE NeedsInv'
  <2>1. /\ api' = a /\ ctx' = ctx /\ arg_vars' = [p \in Positions(a) |-> NoVar] /\ pc' = "first"
        /\ \A p \in Positions(a) : Satisfiable(a, p)
    BY <1>1 DEF Choose, Doable
  <2>2. ASSUME ~IsSink(a), NEW p \in Positions(a), Needs(a, p) PROVE UsableVars(a.args[p]) # {}
    <3>1. ~Sized(a, p) /\ ~IsInit(a, p) /\ ~IsSetby(a, p) /\ HasSource(a.args[p].type)
      BY <2>2 DEF Needs
    <3>2. ~MayInvent(a, p)
      BY <3>1 DEF MayInvent
    <3>3. p \notin LengthPositions(a) /\ ~MadeVoid(a.args[p].type)
      BY <2>2, StructFacts
    <3>4. Satisfiable(a, p)
      BY <2>1
    <3> QED
      BY <2>2, <3>1, <3>2, <3>3, <3>4 DEF Satisfiable
  <2>3. \A p : UsableVars(a.args[p])' = UsableVars(a.args[p])
    BY <2>1 DEF UsableVars, Usable
  <2> QED
    BY <2>1, <2>2, <2>3 DEF NeedsInv, Needs
<1>2. CASE EndOf("first", "second") \/ EndOf("second", "ret")
  BY <1>2 DEF EndOf, call, NeedsInv, Needs, UsableVars, Usable, Produced, PassedTo
<1>3. CASE FirstRound
  <2>1. /\ pc = "first" /\ UNCHANGED <<drv, pc, api, ret_var>> /\ api \in Apis /\ pos \in Positions(api)
        /\ arg_vars \in [Positions(api) -> Var \cup {NoVar}]
    BY <1>3 DEF FirstRound, Typed
  <2>2. CASE ~Sized(api, pos)
    BY <1>3, <2>1, <2>2 DEF FirstRound, NeedsInv, Needs, UsableVars, Usable, Produced, PassedTo
  <2>3. CASE Sized(api, pos)
    <3> DEFINE l == api.args[pos].len
    <3>1. PICK x, b \in Var :
             /\ arg_vars' = [arg_vars EXCEPT ![pos] = x, ![l] = b]
             /\ Alive(ctx') = Alive(ctx) \cup {x, b}
             /\ \A w \in Alive(ctx) : ctx'.var_to_cond[w] = ctx.var_to_cond[w]
      BY <1>3, <2>3, FirstRoundEffect
    <3>2. ASSUME NEW p \in Positions(api), UsableVars(api.args[p]) # {} PROVE UsableVars(api.args[p])' # {}
      <4>1. PICK w \in Alive(ctx) : Usable(w, api.args[p])
        BY <3>2 DEF UsableVars
      <4>2. w \in Alive(ctx') /\ Usable(w, api.args[p])'
        BY <2>1, <3>1, <4>1 DEF Usable
      <4> QED
        BY <2>1, <4>2 DEF UsableVars
    <3>3. ASSUME NEW p \in Positions(api), Needs(api, p) PROVE arg_vars'[p] = arg_vars[p]
      <4>1. p # pos
        BY <2>3, <3>3 DEF Needs
      <4>2. l \in LengthPositions(api)
        BY <2>1, <2>3 DEF LengthPositions
      <4>3. p \notin LengthPositions(api)
        BY <2>1, <3>3, StructFacts
      <4> HIDE DEF l
      <4>4. p # l
        BY <4>2, <4>3
      <4> QED
        BY <2>1, <3>1, <4>1, <4>4
    <3> QED
      BY <2>1, <3>2, <3>3 DEF NeedsInv, Needs, Produced, PassedTo
  <2> QED
    BY <2>2, <2>3
<1>4. CASE SecondRound
  <2>1. /\ pc = "second" /\ UNCHANGED <<drv, pc, api, ret_var>> /\ api \in Apis /\ pos \in Positions(api)
        /\ arg_vars \in [Positions(api) -> Var \cup {NoVar}]
    BY <1>4 DEF SecondRound, Typed
  <2>2. CASE arg_vars[pos] # NoVar
    BY <1>4, <2>1, <2>2 DEF SecondRound, IsSetUp, NeedsInv, Needs, UsableVars, Usable, Produced, PassedTo
  <2>3. CASE arg_vars[pos] = NoVar
    <3>1. PICK v \in Var : Chosen(api, pos, v) /\ arg_vars' = [arg_vars EXCEPT ![pos] = v] /\ Landed(v)
      BY <1>4, <2>3, SecondRoundEffect
    <3>2. \A p : UsableVars(api.args[p])' = UsableVars(api.args[p])
      BY <2>1, <3>1 DEF Landed, UsableVars, Usable
    <3>3. ASSUME Needs(api, pos) PROVE Produced(v)
      <4>1. CASE v \in Alive(ctx) /\ v.type = api.args[pos].type /\ (IsSink(api) \/ ctx.var_to_cond[v].len = NoVar)
        BY <2>1, <3>3, <4>1, StructFacts DEF AliveInv, Explained, IsArray
      <4>2. CASE ~IsSink(api) /\ MakesNew(api, pos)
        <5>1. UsableVars(api.args[pos]) # {}
          BY <2>1, <3>3, <4>2 DEF NeedsInv
        <5>2. ~MadeVoid(api.args[pos].type) /\ ~IsInit(api, pos) /\ ~IsSetby(api, pos)
          BY <2>1, <3>3, StructFacts DEF Needs
        <5> QED
          BY <2>1, <4>2, <5>1, <5>2, UsableArgument DEF MakesNew
      <4> QED
        BY <3>1, <4>1, <4>2 DEF Chosen
    <3>4. ASSUME NEW p \in Positions(api), Needs(api, p), arg_vars'[p] # NoVar PROVE Produced(arg_vars'[p])
      <4>1. CASE p = pos
        BY <2>1, <3>1, <3>3, <3>4, <4>1
      <4>2. CASE p # pos
        BY <2>1, <3>1, <3>4, <4>2 DEF NeedsInv
      <4> QED
        BY <4>1, <4>2
    <3> QED
      BY <2>1, <3>2, <3>4 DEF NeedsInv, Needs, Produced, PassedTo
  <2> QED
    BY <2>2, <2>3
<1>5. CASE Return \/ Update \/ UpdateReturn \/ \E n \in ctx.new_vars : Flush(n)
  <2>1. pc # "choose" /\ pc' \in {"update", "flush"} /\ UNCHANGED <<drv, api, arg_vars>>
    BY <1>5 DEF Return, Update, UpdateReturn, Flush, call
  <2> QED
    BY <2>1 DEF NeedsInv, Needs, Produced, PassedTo
<1>6. CASE Append_
  BY <1>6 DEF Append_, NeedsInv
<1> QED
  BY <1>1, <1>2, <1>3, <1>4, <1>5, <1>6 DEF Next

\* What was produced stays produced.
LEMMA ProducedStays ==
  ASSUME Typed, Next, NEW v, Produced(v)
  PROVE  Produced(v)'
<1>1. CASE UNCHANGED drv
  BY <1>1 DEF Produced, PassedTo
<1>2. CASE Append_
  <2>1. /\ DOMAIN drv = 1..Len(drv) /\ Len(drv) \in Nat /\ DOMAIN drv' = 1..(Len(drv) + 1)
        /\ \A i \in DOMAIN drv : drv'[i] = drv[i]
    BY <1>2, AppendFacts
  <2>2. DOMAIN drv \subseteq DOMAIN drv'
    BY <2>1
  <2> QED
    BY <2>1, <2>2 DEF Produced, PassedTo
<1> QED
  BY <1>1, <1>2 DEF Next, Choose, EndOf, FirstRound, SecondRound, Return, Update, UpdateReturn, Flush

LEMMA AliveStep == Typed /\ SinkInHand /\ AliveInv /\ Next => AliveInv'
<1> SUFFICES ASSUME Typed, SinkInHand, AliveInv, Next, NEW v, v \in Alive(ctx'), v.type \in Struct
             PROVE  Explained(v)'
  BY DEF AliveInv, Alive
<1>0. NoVar \notin Var /\ SizeT \notin Struct /\ SizeType \cap Struct = {}
  BY NoVarIsNone, TypesAssumption
<1>1. Produced(v) => Produced(v)'
  BY ProducedStays
<1>2. CASE v \in Alive(ctx) /\ Produced(v)
  BY <1>1, <1>2 DEF Explained
<1>3. v \in Alive(ctx) => Explained(v)
  BY DEF AliveInv
<1>4. ASSUME NEW a \in Apis, Choose(a) PROVE Explained(v)'
  <2>1. ctx' = ctx /\ pc = "choose"
    BY <1>4 DEF Choose
  <2> QED
    BY <1>2, <1>3, <2>1 DEF Explained
<1>5. CASE EndOf("first", "second") \/ EndOf("second", "ret")
  <2>1. /\ ctx' = ctx /\ UNCHANGED <<api, arg_vars>> /\ v \in Alive(ctx)
        /\ (pc = "first" /\ pc' = "second") \/ (pc = "second" /\ pc' = "ret")
    BY <1>5 DEF EndOf, call
  <2> QED
    BY <1>2, <1>3, <2>1 DEF Explained, IsArray, IsArgument
<1>6. CASE FirstRound
  <2>1. /\ pc = "first" /\ UNCHANGED <<drv, pc, api, ret_var>> /\ api \in Apis /\ pos \in Positions(api)
        /\ arg_vars \in [Positions(api) -> Var \cup {NoVar}]
        /\ pos' = pos + 1 /\ pos \in Nat /\ Positions(api) \subseteq Nat
    <3>1. /\ pc = "first" /\ UNCHANGED <<drv, pc, api, ret_var>> /\ api \in Apis /\ pos \in Positions(api)
          /\ arg_vars \in [Positions(api) -> Var \cup {NoVar}] /\ pos' = pos + 1
      BY <1>6 DEF FirstRound, Typed
    <3>2. Len(api.args) \in Nat /\ Positions(api) = 1..Len(api.args)
      BY <3>1, ApiFacts
    <3> QED
      BY <3>1, <3>2
  <2>2. CASE ~Sized(api, pos)
    <3>1. ctx' = ctx /\ arg_vars' = arg_vars
      BY <1>6, <2>2 DEF FirstRound
    <3>2. IsArray(v) => IsArray(v)'
      BY <2>1, <3>1 DEF IsArray
    <3> QED
      BY <1>2, <1>3, <2>1, <3>1, <3>2 DEF Explained
  <2>3. CASE Sized(api, pos)
    <3> DEFINE l == api.args[pos].len
    <3>1. PICK x, b \in Var :
             /\ b.type = api.args[l].type
             /\ arg_vars' = [arg_vars EXCEPT ![pos] = x, ![l] = b]
             /\ Alive(ctx') = Alive(ctx) \cup {x, b}
             /\ \A w \in Alive(ctx) : ctx'.var_to_cond[w] = ctx.var_to_cond[w]
             /\ ctx'.var_to_cond[x].len = b
      BY <1>6, <2>3, FirstRoundEffect
    <3>2. /\ l \in Positions(api) /\ b.type \in SizeType /\ l # pos
          /\ \A p \in Positions(api) : Sized(api, p) => p # l
      BY <2>1, <2>3, <3>1, SizedFacts, LengthIsNoArray
    <3>3. ~IsSink(api)
      BY <2>1, <2>3, SinkFacts
    <3>4. v # b
      BY <1>0, <3>2
    <3> HIDE DEF l
    <3>5. CASE v = x
      <4>1. ASSUME NEW p, p = pos PROVE arg_vars'[p] = v /\ p \in DOMAIN arg_vars' /\ Sized(api, p)' /\ p < pos'
        BY <2>1, <2>3, <3>1, <3>2, <3>5, <4>1
      <4>2. IsArray(v)'
        BY <1>0, <3>1, <3>5, <4>1 DEF IsArray
      <4> QED
        BY <2>1, <3>3, <4>2 DEF Explained
    <3>6. CASE v \in Alive(ctx) /\ v # x
      <4>1. CASE Produced(v)
        BY <1>2, <3>6, <4>1
      <4>2. CASE IsArray(v)
        <5>1. PICK p \in DOMAIN arg_vars : Sized(api, p) /\ arg_vars[p] = v /\ p < pos
          BY <2>1, <4>2 DEF IsArray
        <5>2. p \in Nat /\ p # pos /\ p < pos'
          BY <2>1, <5>1
        <5>3. arg_vars'[p] = v /\ p \in DOMAIN arg_vars' /\ Sized(api, p)'
          BY <2>1, <3>1, <3>2, <5>1, <5>2
        <5>4. IsArray(v)'
          BY <3>1, <3>6, <4>2, <5>2, <5>3 DEF IsArray
        <5> QED
          BY <2>1, <3>3, <5>4 DEF Explained
      <4> QED
        BY <1>3, <2>1, <3>6, <4>1, <4>2 DEF Explained
    <3> QED
      BY <3>1, <3>4, <3>5, <3>6
  <2> QED
    BY <2>2, <2>3
<1>7. CASE SecondRound
  <2>1. /\ pc = "second" /\ UNCHANGED <<drv, pc, api, ret_var>> /\ api \in Apis /\ pos \in Positions(api)
        /\ arg_vars \in [Positions(api) -> Var \cup {NoVar}]
    BY <1>7 DEF SecondRound, Typed
  <2>2. Alive(ctx') = Alive(ctx) /\ ctx'.var_to_cond = ctx.var_to_cond
    <3>1. CASE arg_vars[pos] # NoVar
      BY <1>7, <3>1 DEF SecondRound, IsSetUp
    <3>2. CASE arg_vars[pos] = NoVar
      BY <1>7, <3>2, SecondRoundEffect DEF Landed
    <3> QED
      BY <3>1, <3>2
  <2>3. \A p \in Positions(api) : arg_vars[p] # NoVar => arg_vars'[p] = arg_vars[p]
    BY <1>7, <2>1 DEF SecondRound, IsSetUp
  <2>4. DOMAIN arg_vars' = DOMAIN arg_vars
    BY <1>7 DEF SecondRound, IsSetUp
  <2>5. v \in Var
    BY <2>2, ContextFields DEF Typed, CtxInv
  <2>6. IsArray(v) => IsArray(v)'
    BY <1>0, <2>1, <2>2, <2>3, <2>4, <2>5 DEF IsArray
  <2> QED
    BY <1>2, <1>3, <2>1, <2>2, <2>6 DEF Explained
<1>8. CASE Return
  <2>1. pc = "ret" /\ pc' = "update" /\ UNCHANGED <<drv, api, arg_vars>>
    BY <1>8 DEF Return
  <2>2. Alive(ctx') = Alive(ctx)
    <3>1. CASE api.ret.type = NoType
      BY <1>8, <3>1 DEF Return
    <3>2. CASE api.ret.type # NoType
      BY <1>8, <3>2, ReturnEffect DEF Landed
    <3> QED
      BY <3>1, <3>2
  <2> QED
    BY <1>2, <1>3, <2>1, <2>2 DEF Explained, IsArgument
<1>9. CASE Update
  <2>1. /\ pc = "update" /\ UNCHANGED <<drv, pc, api, arg_vars, ret_var>>
        /\ pos \in DOMAIN arg_vars
    BY <1>9 DEF Update, call, Typed
  <2>2. v \in Alive(ctx) \/ v = arg_vars[pos]
    BY <1>9, UpdateEffect DEF Updated
  <2>3. IsArgument(v) => IsArgument(v)'
    BY <2>1 DEF IsArgument
  <2>4. v = arg_vars[pos] => IsArgument(v)'
    BY <2>1 DEF IsArgument
  <2> QED
    BY <1>2, <1>3, <2>1, <2>2, <2>3, <2>4 DEF Explained
<1>10. CASE UpdateReturn
  <2>1. pc = "update" /\ pc' = "flush" /\ UNCHANGED <<drv, api, arg_vars, ret_var>>
    BY <1>10 DEF UpdateReturn, call
  <2>2. v \in Alive(ctx) \/ v = ret_var
    BY <1>10, UpdateReturnEffect DEF Updated
  <2>3. IsArgument(v) => IsArgument(v)'
    BY <2>1 DEF IsArgument
  <2> QED
    BY <1>2, <1>3, <2>1, <2>2, <2>3 DEF Explained
<1>11. ASSUME NEW n \in ctx.new_vars, Flush(n) PROVE Explained(v)'
  <2>1. pc = "flush" /\ UNCHANGED <<drv, pc, api, arg_vars, ret_var>>
    BY <1>11 DEF Flush, call
  <2>2. v \in Alive(ctx) \/ v = n.len
    BY <1>11, FlushEffect
  <2>3. v # n.len
    BY <1>0 DEF Typed
  <2>4. IsArgument(v) => IsArgument(v)'
    BY <2>1 DEF IsArgument
  <2> QED
    BY <1>2, <1>3, <2>1, <2>2, <2>3, <2>4 DEF Explained
<1>12. CASE Append_
  <2>1. /\ DOMAIN drv' = 1..(Len(drv) + 1) /\ Len(drv) \in Nat
        /\ drv'[Len(drv) + 1].args = arg_vars /\ drv'[Len(drv) + 1].ret = ret_var
        /\ pc = "flush" /\ ctx' = ctx
    BY <1>12, AppendFacts
  <2>2. Len(drv) + 1 \in DOMAIN drv'
    BY <2>1
  <2>3. IsArgument(v) \/ ret_var = v => Produced(v)'
    BY <2>1, <2>2 DEF IsArgument, Produced, PassedTo
  <2> QED
    BY <1>2, <1>3, <2>1, <2>3 DEF Explained
<1> QED
  BY <1>4, <1>5, <1>6, <1>7, <1>8, <1>9, <1>10, <1>11, <1>12 DEF Next

\* A call gets what it needs from an earlier one.
LEMMA SourcedStep == Typed /\ NeedsInv /\ SourcedAreProduced /\ Next => SourcedAreProduced'
<1> SUFFICES ASSUME Typed, NeedsInv, SourcedAreProduced, Next PROVE SourcedAreProduced'
  OBVIOUS
<1>1. CASE UNCHANGED drv
  BY <1>1 DEF SourcedAreProduced, PassedTo
<1>2. CASE Append_
  <2> DEFINE m == Len(drv) + 1
  <2>1. /\ DOMAIN drv = 1..Len(drv) /\ Len(drv) \in Nat
        /\ DOMAIN drv' = 1..m
        /\ \A i \in DOMAIN drv : drv'[i] = drv[i]
        /\ drv'[m].api = api /\ drv'[m].args = arg_vars
        /\ pc = "flush" /\ api \in Apis
        /\ \A p \in Positions(api) : arg_vars[p] \in Var
    BY <1>2, AppendFacts
  <2> SUFFICES ASSUME NEW j \in DOMAIN drv', NEW q \in Positions(drv'[j].api), Needs(drv'[j].api, q),
                      NEW v, v = drv'[j].args[q]
               PROVE  \E i \in 1..(j - 1) : drv'[i].ret = v \/ PassedTo(i, v)'
    BY DEF SourcedAreProduced, Needs
  <2>2. CASE j \in DOMAIN drv
    <3>1. PICK i \in 1..(j - 1) : drv[i].ret = v \/ PassedTo(i, v)
      BY <2>1, <2>2 DEF SourcedAreProduced, Needs
    <3>2. i \in DOMAIN drv
      BY <2>1, <2>2
    <3> QED
      BY <2>1, <3>1, <3>2 DEF PassedTo
  <2>3. CASE j = m
    <3>1. v = arg_vars[q] /\ q \in Positions(api) /\ Needs(api, q)
      BY <2>1, <2>3
    <3>2. Produced(v)
      BY <2>1, <3>1, NoVarIsNone DEF NeedsInv
    <3>3. PICK i \in DOMAIN drv : drv[i].ret = v \/ PassedTo(i, v)
      BY <3>2 DEF Produced
    <3>4. i \in 1..(j - 1)
      BY <2>1, <2>3
    <3> QED
      BY <2>1, <3>3, <3>4 DEF PassedTo
  <2>4. j \in DOMAIN drv \/ j = m
    BY <2>1
  <2> QED
    BY <2>2, <2>3, <2>4
<1> QED
  BY <1>1, <1>2 DEF Next, Choose, EndOf, FirstRound, SecondRound, Return, Update, UpdateReturn, Flush

\* A structure the library has a source for reaches a call that does not initialise it from an earlier one.
THEOREM SourcesAreUsed == Spec => []SourcedAreProduced
<1> DEFINE I == Typed /\ PendingInv /\ SinkInv /\ AliveInv /\ NeedsInv /\ SourcedAreProduced
<1>1. Init => I
  <2>1. Init => AliveInv
    BY DEF Init, EmptyContext, AliveInv, Alive
  <2>2. Init => PendingInv /\ SinkInv
    BY DEF Init, EmptyContext, PendingInv, SinkInv, SinkInHand, LengthsAreNew, PastSinks, NoUseAfterSink
  <2>3. Init => NeedsInv /\ SourcedAreProduced
    BY DEF Init, NeedsInv, SourcedAreProduced
  <2> QED
    BY <2>1, <2>2, <2>3, TypedInit
<1>2. I /\ [Next]_vars => I'
  <2>1. Typed /\ PendingInv /\ SinkInv /\ UNCHANGED vars => (PendingInv /\ SinkInv)'
    BY DEF PendingInv, WaitsFor, SinkInv, SinkInHand, LengthsAreNew, PastSinks, Gone, NoUseAfterSink, PassedTo, vars, call
  <2>2. AliveInv /\ UNCHANGED vars => AliveInv'
    BY DEF AliveInv, Alive, Explained, IsArray, IsArgument, Produced, PassedTo, vars, call
  <2>3. NeedsInv /\ SourcedAreProduced /\ UNCHANGED vars => (NeedsInv /\ SourcedAreProduced)'
    BY DEF NeedsInv, Needs, UsableVars, Usable, Produced, SourcedAreProduced, PassedTo, vars, call
  <2>4. I /\ Next => (PendingInv /\ SinkInv)'
    BY PendingStep, SinkInHandStep, LengthsAreNewStep, PastSinksStep DEF SinkInv
  <2>5. I /\ Next => (AliveInv /\ NeedsInv /\ SourcedAreProduced)'
    BY AliveStep, NeedsStep, SourcedStep DEF SinkInv
  <2> QED
    BY <2>1, <2>2, <2>3, <2>4, <2>5, TypedStep, TypedStutter
<1> QED
  BY <1>1, <1>2, PTL DEF Spec
-----------------------------------------------------------------------------
(* Initialisers. *)

\* The arguments that a call initialises, which are not arrays with a length.
InitialisesAt(a, p) == (IsInit(a, p) \/ IsSetby(a, p)) /\ ~Sized(a, p)

LEMMA InitialiserFacts ==
  ASSUME NEW a \in Apis, NEW p \in Positions(a), InitialisesAt(a, p)
  PROVE  /\ a.args[p].type \in Pointer /\ Made(a.args[p].type) \in Pointer
         /\ ~IsSink(a) /\ SetsInit(a, p) /\ p \notin LengthPositions(a)
<1>1. a.args[p].setby # {} /\ SetsInit(a, p)
  BY DEF InitialisesAt, IsInit, IsSetby, IsSet, Initialises, SetsInit
<1>2. a.args[p].type \in Pointer /\ a.args[p].setby \subseteq Positions(a) \ {p}
  BY <1>1, ApisAssumption DEF Positions
<1>3. Made(a.args[p].type) \in Pointer
  BY <1>2, TypesAssumption DEF Made
<1>4. ~IsSink(a)
  BY <1>1, <1>2, SinkFacts
<1>5. p \notin LengthPositions(a)
  BY <1>2, TypesAssumption DEF LengthPositions, Sized
<1> QED
  BY <1>1, <1>2, <1>3, <1>4, <1>5

\* x was initialised: as long as it is alive, the context knows.
Known(x) ==
  /\ Old(ctx, x)
  /\ x \in Alive(ctx) => ctx.var_to_cond[x].init
  /\ ret_var # x
  /\ \A p \in DOMAIN arg_vars :
       arg_vars[p] = x /\ (pc \in {"first", "second", "ret"} \/ (pc = "update" /\ pos <= p)) => x \in Alive(ctx)

PastInitialised ==
  \A i \in DOMAIN drv : \A p \in Positions(drv[i].api) : InitialisesAt(drv[i].api, p) =>
    drv[i].args[p].type \in Pointer /\ Known(drv[i].args[p])

\* What the call in hand initialises was not initialised before, and the context will know.
Fresh(x, q) ==
  /\ x.type \in Pointer /\ ret_var # x
  /\ pc = "flush" \/ (pc = "update" /\ q < pos) => x \in Alive(ctx) /\ ctx.var_to_cond[x].init
  /\ \A i \in DOMAIN drv : \A p \in Positions(drv[i].api) : InitialisesAt(drv[i].api, p) => drv[i].args[p] # x

OwnInitialised ==
  /\ pc \in {"first", "second", "ret"} => ret_var = NoVar
  /\ pc # "choose" =>
       \A q \in Positions(api) : InitialisesAt(api, q) /\ arg_vars[q] # NoVar => Fresh(arg_vars[q], q)

\* What an update makes of a variable that is initialised, or is being initialised.
LEMMA UpdateKeepsInit ==
  ASSUME Typed, Update, NEW x, x \in Alive(ctx'), ~IsSink(api),
         \/ x \in Alive(ctx) /\ ctx.var_to_cond[x].init
         \/ arg_vars[pos] = x /\ SetsInit(api, pos)
  PROVE  ctx'.var_to_cond[x].init
<1> DEFINE sink == IsSink(api)
           init == SetsInit(api, pos)
           v == arg_vars[pos]
           file == StaleCond.file
<1>1. v \in Var /\ Updated(ctx, ctx', v, file, FALSE, sink)
  BY UpdateEffect
<1>2. /\ pc = "update" /\ api \in Apis /\ pos \in Positions(api) /\ CtxInv(ctx) /\ DOMAIN arg_vars = Positions(api)
      /\ ctx' = UpdateVar(ctx, v, file, FALSE, sink, init)
  BY DEF Update, Typed
<1>3. Old(ctx, v)
  BY <1>2 DEF Typed, HasArgument
<1>4. file \in BOOLEAN
  <2>1. Len(api.args) \in Positions(api)
    BY <1>2, ApiFacts
  <2>2. StaleCond \in Metadata
    BY <1>2, <2>1, ApiFacts DEF StaleCond
  <2> QED
    BY <2>2 DEF Metadata
<1>5. sink \in BOOLEAN /\ init \in BOOLEAN
  BY DEF IsSink, SetsInit, IsInit, IsSet, Initialises
<1> HIDE DEF sink, init, v, file
<1>6. KeepsInit(ctx, ctx', v, sink, init)
  BY <1>1, <1>2, <1>3, <1>4, <1>5, UpdateVarInit, Zenon
<1>7. CASE x = v
  BY <1>6, <1>7 DEF KeepsInit, sink, init, v
<1>8. CASE x # v
  <2>1. x \in Alive(ctx) /\ ctx'.var_to_cond[x] = ctx.var_to_cond[x]
    BY <1>1, <1>8 DEF Updated
  <2> QED
    BY <1>8, <2>1 DEF v
<1> QED
  BY <1>7, <1>8

\* What was initialised stays so.
LEMMA KnownStep ==
  ASSUME NEW x \in Var, x.type \in Pointer, Typed, PendingInv, Known(x), Next
  PROVE  Known(x)'
<1>0. NoVar \notin Var
  BY NoVarIsNone
<1>1. ASSUME NEW a \in Apis, Choose(a) PROVE Known(x)'
  BY <1>0, <1>1 DEF Choose, Known, Typed
<1>2. CASE EndOf("first", "second") \/ EndOf("second", "ret")
  BY <1>2 DEF EndOf, call, Known, Typed
<1>3. CASE FirstRound
  <2>1. CASE ~Sized(api, pos)
    BY <1>3, <2>1 DEF FirstRound, Known, Typed
  <2>2. CASE Sized(api, pos)
    <3> DEFINE l == api.args[pos].len
    <3>1. PICK y, c \in Var :
             /\ ~Old(ctx, y) /\ ~Old(ctx, c)
             /\ arg_vars' = [arg_vars EXCEPT ![pos] = y, ![l] = c]
             /\ Alive(ctx') = Alive(ctx) \cup {y, c}
             /\ \A w \in Alive(ctx) : ctx'.var_to_cond[w] = ctx.var_to_cond[w]
             /\ \A w \in Var : Old(ctx, w) => Old(ctx', w)
      BY <1>3, <2>2, FirstRoundEffect
    <3> HIDE DEF l
    <3>2. x # y /\ x # c
      BY <3>1 DEF Known
    <3>3. ASSUME NEW p \in DOMAIN arg_vars' PROVE p \in DOMAIN arg_vars /\ arg_vars'[p] \in {y, c, arg_vars[p]}
      <4>1. arg_vars \in [DOMAIN arg_vars -> Var \cup {NoVar}]
        BY <1>3 DEF Typed, FirstRound
      <4> QED
        BY <3>1, <4>1
    <3>4. UNCHANGED <<drv, pc, api, ret_var>> /\ pc = "first"
      BY <1>3 DEF FirstRound
    <3> QED
      BY <3>1, <3>2, <3>3, <3>4 DEF Known
  <2> QED
    BY <2>1, <2>2
<1>4. CASE SecondRound
  <2>1. /\ pc = "second" /\ UNCHANGED <<drv, pc, api, ret_var>> /\ api \in Apis
        /\ arg_vars \in [Positions(api) -> Var \cup {NoVar}] /\ pos \in Positions(api)
    BY <1>4 DEF SecondRound, Typed
  <2>2. CASE arg_vars[pos] # NoVar
    BY <1>4, <2>1, <2>2 DEF SecondRound, IsSetUp, Known
  <2>3. CASE arg_vars[pos] = NoVar
    <3>1. PICK v \in Var : Chosen(api, pos, v) /\ arg_vars' = [arg_vars EXCEPT ![pos] = v] /\ Landed(v)
      BY <1>4, <2>3, SecondRoundEffect
    <3>2. v = x => x \in Alive(ctx)
      BY <3>1 DEF Chosen, Known
    <3>3. ASSUME NEW p \in DOMAIN arg_vars', arg_vars'[p] = x PROVE x \in Alive(ctx')
      BY <2>1, <3>1, <3>2, <3>3 DEF Known, Landed
    <3> QED
      BY <2>1, <3>1, <3>3 DEF Known, Landed
  <2> QED
    BY <2>2, <2>3
<1>5. CASE Return
  <2>1. /\ pc = "ret" /\ pc' = "update" /\ UNCHANGED <<drv, pos, api, arg_vars>>
    BY <1>5 DEF Return
  <2>2. CASE api.ret.type = NoType
    BY <1>5, <2>1, <2>2 DEF Return, Known
  <2>3. CASE api.ret.type # NoType
    <3>1. PICK v \in Var : (~Old(ctx, v) \/ v.type \notin Pointer) /\ ret_var' = v /\ Landed(v)
      BY <1>5, <2>3, ReturnEffect
    <3>2. v # x
      BY <3>1 DEF Known
    <3> QED
      BY <2>1, <3>1, <3>2 DEF Known, Landed
  <2> QED
    BY <2>2, <2>3
<1>6. CASE Update
  <2>1. Updated(ctx, ctx', arg_vars[pos], StaleCond.file, FALSE, IsSink(api))
    BY <1>6, UpdateEffect
  <2>2. /\ pc = "update" /\ UNCHANGED <<drv, pc, api, arg_vars, ret_var>> /\ pos' = pos + 1 /\ api \in Apis
        /\ pos \in Positions(api) /\ DOMAIN arg_vars = Positions(api)
    BY <1>6 DEF Update, call, Typed
  <2>3. Positions(api) \subseteq Nat /\ (IsSink(api) => Positions(api) = {1})
    BY <2>2, ApiFacts, SinkFacts
  <2>4. arg_vars[pos] = x => x \in Alive(ctx)
    BY <2>2, <2>3 DEF Known
  <2>5. ASSUME x \in Alive(ctx') PROVE ctx'.var_to_cond[x].init
    <3>1. x \in Alive(ctx) /\ ctx.var_to_cond[x].init
      BY <2>1, <2>4, <2>5 DEF Known, Updated
    <3>2. CASE IsSink(api)
      <4>1. x # arg_vars[pos]
        BY <2>1, <2>4, <2>5, <3>2 DEF Updated
      <4>2. ctx'.var_to_cond[x] = ctx.var_to_cond[x]
        BY <2>1, <3>1, <4>1 DEF Updated
      <4> QED
        BY <3>1, <4>2
    <3>3. CASE ~IsSink(api)
      BY <1>6, <2>5, <3>1, <3>3, UpdateKeepsInit
    <3> QED
      BY <3>2, <3>3
  <2>6. ASSUME NEW p \in DOMAIN arg_vars, arg_vars[p] = x, pos + 1 <= p PROVE x \in Alive(ctx')
    <3>1. x \in Alive(ctx) /\ ~IsSink(api)
      BY <2>2, <2>3, <2>6 DEF Known
    <3> QED
      BY <2>1, <3>1 DEF Updated
  <2>7. Old(ctx', x)
    BY <2>1 DEF Updated, Old, Known
  <2> QED
    BY <2>2, <2>5, <2>6, <2>7 DEF Known
<1>7. CASE UpdateReturn
  <2>1. pc = "update" /\ pc' = "flush" /\ UNCHANGED <<api, arg_vars, ret_var>>
    BY <1>7 DEF UpdateReturn, call
  <2>2. /\ ret_var # x
        /\ x \in Alive(ctx') => x \in Alive(ctx) /\ ctx'.var_to_cond[x] = ctx.var_to_cond[x]
        /\ ctx'.buffs_counter = ctx.buffs_counter
    BY <1>7, UpdateReturnEffect DEF Updated, Known
  <2> QED
    BY <2>1, <2>2 DEF Known, Old
<1>8. ASSUME NEW n \in ctx.new_vars, Flush(n) PROVE Known(x)'
  <2>1. /\ pc = "flush" /\ UNCHANGED <<drv, pc, pos, api, arg_vars, ret_var>>
    BY <1>8 DEF Flush, call
  <2>2. n.len # x
    BY TypesAssumption DEF Typed
  <2>3. /\ Alive(ctx') = Alive(ctx) \cup {n.len}
        /\ \A w \in Alive(ctx) \ {n.len} : ctx'.var_to_cond[w].init = ctx.var_to_cond[w].init
        /\ ctx'.buffs_counter = ctx.buffs_counter
    BY <1>8, FlushEffect
  <2> QED
    BY <2>1, <2>2, <2>3 DEF Known, Old
<1>9. CASE Append_
  BY <1>0, <1>9 DEF Append_, Known
<1> QED
  BY <1>1, <1>2, <1>3, <1>4, <1>5, <1>6, <1>7, <1>8, <1>9 DEF Next

LEMMA OwnInitialisedStep ==
  Typed /\ PendingInv /\ PastInitialised /\ OwnInitialised /\ Next => OwnInitialised'
<1> SUFFICES ASSUME Typed, PendingInv, PastInitialised, OwnInitialised, Next PROVE OwnInitialised'
  OBVIOUS
<1>0. NoVar \notin Var
  BY NoVarIsNone
<1>1. ASSUME NEW a \in Apis, Choose(a) PROVE OwnInitialised'
  BY <1>1 DEF Choose, OwnInitialised
<1>2. CASE EndOf("first", "second") \/ EndOf("second", "ret")
  <2>1. /\ UNCHANGED <<drv, api, arg_vars, ret_var>> /\ pc \in {"first", "second"} /\ pc' \in {"second", "ret"}
    BY <1>2 DEF EndOf, call
  <2> QED
    BY <2>1 DEF OwnInitialised, Fresh
<1>3. CASE FirstRound
  <2>1. /\ pc = "first" /\ UNCHANGED <<drv, pc, api, ret_var>> /\ api \in Apis /\ pos \in Positions(api)
        /\ arg_vars \in [Positions(api) -> Var \cup {NoVar}]
    BY <1>3 DEF FirstRound, Typed
  <2>2. ASSUME NEW q \in Positions(api), InitialisesAt(api, q) PROVE arg_vars'[q] = arg_vars[q]
    <3>1. CASE ~Sized(api, pos)
      BY <1>3, <3>1 DEF FirstRound
    <3>2. CASE Sized(api, pos)
      <4> DEFINE l == api.args[pos].len
      <4>1. PICK x, b \in Var : arg_vars' = [arg_vars EXCEPT ![pos] = x, ![l] = b]
        BY <1>3, <3>2, FirstRoundEffect
      <4>2. q # pos
        BY <2>2, <3>2 DEF InitialisesAt
      <4>3. l \in LengthPositions(api) /\ q \notin LengthPositions(api)
        BY <2>1, <2>2, <3>2, InitialiserFacts DEF LengthPositions
      <4> HIDE DEF l
      <4> QED
        BY <2>1, <4>1, <4>2, <4>3
    <3> QED
      BY <3>1, <3>2
  <2> QED
    BY <2>1, <2>2 DEF OwnInitialised, Fresh
<1>4. CASE SecondRound
  <2>1. /\ pc = "second" /\ UNCHANGED <<drv, pc, api, ret_var>> /\ api \in Apis /\ pos \in Positions(api)
        /\ arg_vars \in [Positions(api) -> Var \cup {NoVar}] /\ ret_var = NoVar
    BY <1>4 DEF SecondRound, Typed, OwnInitialised
  <2>2. CASE arg_vars[pos] # NoVar
    BY <1>4, <2>1, <2>2 DEF SecondRound, IsSetUp, OwnInitialised, Fresh
  <2>3. CASE arg_vars[pos] = NoVar
    <3>1. PICK v \in Var : Chosen(api, pos, v) /\ arg_vars' = [arg_vars EXCEPT ![pos] = v]
      BY <1>4, <2>3, SecondRoundEffect
    <3>2. ASSUME InitialisesAt(api, pos) PROVE Fresh(v, pos)
      <4>1. ~IsSink(api) /\ v.type \in Pointer
        BY <2>1, <3>1, <3>2, InitialiserFacts DEF Chosen
      <4>2. ~Old(ctx, v) \/ (v \in Alive(ctx) /\ ~ctx.var_to_cond[v].init)
        BY <3>1, <3>2, <4>1 DEF Chosen, InitialisesAt
      <4>3. ASSUME NEW i \in DOMAIN drv, NEW p \in Positions(drv[i].api), InitialisesAt(drv[i].api, p)
            PROVE  drv[i].args[p] # v
        BY <4>2, <4>3 DEF PastInitialised, Known
      <4> QED
        BY <1>0, <2>1, <4>1, <4>3 DEF Fresh
    <3>3. ASSUME NEW q \in Positions(api), InitialisesAt(api, q), arg_vars'[q] # NoVar,
                 NEW x, x = arg_vars'[q]
          PROVE  Fresh(x, q)
      <4>1. CASE q = pos
        BY <2>1, <3>1, <3>2, <3>3, <4>1
      <4>2. CASE q # pos
        BY <2>1, <3>1, <3>3, <4>2 DEF OwnInitialised
      <4> QED
        BY <4>1, <4>2
    <3> QED
      BY <2>1, <3>3 DEF OwnInitialised, Fresh
  <2> QED
    BY <2>2, <2>3
<1>5. CASE Return
  <2>1. /\ pc = "ret" /\ pc' = "update" /\ pos = 1 /\ pos' = pos /\ UNCHANGED <<drv, api, arg_vars>> /\ api \in Apis
        /\ Positions(api) \subseteq Nat \ {0} /\ DOMAIN arg_vars = Positions(api)
    <3>1. /\ pc = "ret" /\ pc' = "update" /\ pos = 1 /\ UNCHANGED <<drv, pos, api, arg_vars>> /\ api \in Apis
          /\ DOMAIN arg_vars = Positions(api)
      BY <1>5 DEF Return, PendingInv, Typed
    <3>2. Len(api.args) \in Nat /\ Positions(api) = 1..Len(api.args)
      BY <3>1, ApiFacts
    <3> QED
      BY <3>1, <3>2
  <2>2. ASSUME NEW q \in Positions(api), NEW x, x = arg_vars[q], x # NoVar, x.type \in Pointer
        PROVE  ret_var' # x
    <3>1. CASE api.ret.type = NoType
      BY <1>5, <2>1, <2>2, <3>1 DEF Return, OwnInitialised
    <3>2. CASE api.ret.type # NoType
      <4>1. PICK v \in Var : (~Old(ctx, v) \/ v.type \notin Pointer) /\ ret_var' = v
        BY <1>5, <3>2, ReturnEffect
      <4>2. Old(ctx, x)
        BY <2>1, <2>2 DEF Typed
      <4> QED
        BY <2>2, <4>1, <4>2
    <3> QED
      BY <3>1, <3>2
  <2>3. ASSUME NEW q \in Positions(api), InitialisesAt(api, q), arg_vars[q] # NoVar, NEW x, x = arg_vars[q]
        PROVE  Fresh(x, q)'
    <3>1. Fresh(x, q)
      BY <2>1, <2>3 DEF OwnInitialised
    <3>2. ret_var' # x /\ ~(q < pos)
      BY <2>1, <2>2, <2>3, <3>1 DEF Fresh
    <3> QED
      BY <2>1, <3>1, <3>2 DEF Fresh
  <2> QED
    BY <2>1, <2>3 DEF OwnInitialised, Fresh
<1>6. CASE Update
  <2>1. /\ pc = "update" /\ UNCHANGED <<drv, pc, api, arg_vars, ret_var>> /\ pos' = pos + 1 /\ api \in Apis
        /\ pos \in Positions(api)
    BY <1>6 DEF Update, call, Typed
  <2>2. Positions(api) \subseteq Nat
    BY <2>1, ApiFacts
  <2>3. ASSUME NEW q \in Positions(api), InitialisesAt(api, q), arg_vars[q] # NoVar, NEW x, x = arg_vars[q]
        PROVE  Fresh(x, q)'
    <3>1. Fresh(x, q) /\ ~IsSink(api) /\ SetsInit(api, q)
      BY <2>1, <2>3, InitialiserFacts DEF OwnInitialised
    <3>2. ASSUME q < pos + 1 PROVE x \in Alive(ctx') /\ ctx'.var_to_cond[x].init
      <4>1. q = pos \/ q < pos
        BY <2>1, <2>2, <3>2
      <4>2. q < pos => x \in Alive(ctx) /\ ctx.var_to_cond[x].init
        BY <2>1, <3>1 DEF Fresh
      <4>3. x \in Alive(ctx')
        BY <1>6, <2>3, <3>1, <4>1, <4>2, UpdateEffect DEF Updated
      <4> QED
        BY <1>6, <2>3, <3>1, <4>1, <4>2, <4>3, UpdateKeepsInit
    <3> QED
      BY <2>1, <3>1, <3>2 DEF Fresh
  <2> QED
    BY <2>1, <2>3 DEF OwnInitialised, Fresh
<1>7. CASE UpdateReturn
  <2>1. /\ pc = "update" /\ pc' = "flush" /\ UNCHANGED <<drv, api, arg_vars, ret_var>> /\ api \in Apis
        /\ pos = Len(api.args) + 1
    BY <1>7 DEF UpdateReturn, call, Typed
  <2>2. \A q \in Positions(api) : q < pos
    <3>1. Len(api.args) \in Nat /\ Positions(api) = 1..Len(api.args)
      BY <2>1, ApiFacts
    <3> QED
      BY <2>1, <3>1
  <2>3. ASSUME NEW q \in Positions(api), InitialisesAt(api, q), arg_vars[q] # NoVar, NEW x, x = arg_vars[q]
        PROVE  Fresh(x, q)'
    <3>1. Fresh(x, q)
      BY <2>1, <2>3 DEF OwnInitialised
    <3>2. x \in Alive(ctx) => x \in Alive(ctx') /\ ctx'.var_to_cond[x] = ctx.var_to_cond[x]
      BY <1>7, <3>1, UpdateReturnEffect DEF Updated, Fresh
    <3> QED
      BY <2>1, <2>2, <3>1, <3>2 DEF Fresh
  <2> QED
    BY <2>1, <2>3 DEF OwnInitialised, Fresh
<1>8. ASSUME NEW n \in ctx.new_vars, Flush(n) PROVE OwnInitialised'
  <2>1. /\ pc = "flush" /\ UNCHANGED <<drv, pc, pos, api, arg_vars, ret_var>>
    BY <1>8 DEF Flush, call
  <2>2. /\ Alive(ctx') = Alive(ctx) \cup {n.len}
        /\ \A w \in Alive(ctx) \ {n.len} : ctx'.var_to_cond[w].init = ctx.var_to_cond[w].init
    BY <1>8, FlushEffect
  <2>3. n.len.type \notin Pointer
    BY TypesAssumption DEF Typed
  <2>4. ASSUME NEW q \in Positions(api), InitialisesAt(api, q), arg_vars[q] # NoVar, NEW x, x = arg_vars[q]
        PROVE  Fresh(x, q)'
    <3>1. Fresh(x, q)
      BY <2>1, <2>4 DEF OwnInitialised
    <3> QED
      BY <2>1, <2>2, <2>3, <3>1 DEF Fresh
  <2> QED
    BY <2>1, <2>4 DEF OwnInitialised, Fresh
<1>9. CASE Append_
  BY <1>9 DEF Append_, OwnInitialised
<1> QED
  BY <1>1, <1>2, <1>3, <1>4, <1>5, <1>6, <1>7, <1>8, <1>9 DEF Next

LEMMA PastInitialisedStep ==
  Typed /\ PendingInv /\ OwnInitialised /\ PastInitialised /\ InitialisedOnce /\ Next
    => (PastInitialised /\ InitialisedOnce)'
<1> SUFFICES ASSUME Typed, PendingInv, OwnInitialised, PastInitialised, InitialisedOnce, Next
             PROVE  (PastInitialised /\ InitialisedOnce)'
  OBVIOUS
<1>1. ASSUME NEW i \in DOMAIN drv, NEW p \in Positions(drv[i].api), InitialisesAt(drv[i].api, p),
             NEW x, x = drv[i].args[p]
      PROVE  x.type \in Pointer /\ Known(x)'
  <2>1. x \in Var
    BY <1>1, CallFacts
  <2>2. x.type \in Pointer /\ Known(x)
    BY <1>1 DEF PastInitialised
  <2> QED
    BY <2>1, <2>2, KnownStep
<1>2. CASE UNCHANGED drv
  <2>1. InitialisedOnce'
    BY <1>2 DEF InitialisedOnce
  <2>2. PastInitialised'
    <3> SUFFICES ASSUME NEW i \in DOMAIN drv, NEW p \in Positions(drv[i].api), InitialisesAt(drv[i].api, p)
                 PROVE  drv[i].args[p].type \in Pointer /\ Known(drv[i].args[p])'
      BY <1>2 DEF PastInitialised
    <3>1. ASSUME NEW x, x = drv[i].args[p] PROVE x.type \in Pointer /\ Known(drv[i].args[p])'
      BY <1>1, <1>2, <3>1 DEF Known
    <3> QED
      BY <3>1
  <2> QED
    BY <2>1, <2>2
<1>3. CASE Append_
  <2> DEFINE m == Len(drv) + 1
  <2>1. /\ DOMAIN drv = 1..Len(drv) /\ Len(drv) \in Nat
        /\ DOMAIN drv' = 1..m
        /\ \A i \in DOMAIN drv : drv'[i] = drv[i]
        /\ drv'[m].api = api /\ drv'[m].args = arg_vars
        /\ pc = "flush" /\ api \in Apis
        /\ DOMAIN arg_vars = Positions(api)
        /\ \A p \in Positions(api) : arg_vars[p] \in Var
    BY <1>3, AppendFacts
  <2>2. DOMAIN drv' = DOMAIN drv \cup {m} /\ m \notin DOMAIN drv
    BY <2>1
  <2>3. \A i, j \in DOMAIN drv' : i < j => i \in DOMAIN drv
    BY <2>1
  <2> HIDE DEF m
  <2>4. ASSUME NEW p \in Positions(api), InitialisesAt(api, p), NEW x, x = arg_vars[p]
        PROVE  /\ x.type \in Pointer /\ Known(x)'
               /\ \A i \in DOMAIN drv : \A r \in Positions(drv[i].api) :
                    InitialisesAt(drv[i].api, r) => drv[i].args[r] # x
    <3>1. x \in Var /\ x # NoVar /\ Old(ctx, x)
      BY <2>1, <2>4, NoVarIsNone DEF Typed
    <3>2. Fresh(x, p)
      BY <2>1, <2>4, <3>1 DEF OwnInitialised
    <3>3. Known(x)
      BY <2>1, <3>1, <3>2 DEF Fresh, Known
    <3> QED
      BY <3>1, <3>2, <3>3, KnownStep DEF Fresh
  <2>5. PastInitialised'
    <3> SUFFICES ASSUME NEW i \in DOMAIN drv', NEW p \in Positions(drv'[i].api), InitialisesAt(drv'[i].api, p)
                 PROVE  drv'[i].args[p].type \in Pointer /\ Known(drv[i].args[p])'
      BY DEF PastInitialised, InitialisesAt
    <3>1. ASSUME NEW x, x = drv'[i].args[p] PROVE x.type \in Pointer /\ Known(x)'
      <4>1. CASE i \in DOMAIN drv
        BY <1>1, <2>1, <3>1, <4>1
      <4>2. CASE i = m
        BY <2>1, <2>4, <3>1, <4>2
      <4> QED
        BY <2>2, <4>1, <4>2
    <3>2. ASSUME NEW x, x = drv'[i].args[p] PROVE Known(drv[i].args[p])'
      BY <3>1, <3>2 DEF Known
    <3> QED
      BY <3>1, <3>2
  <2>6. ASSUME NEW i \in DOMAIN drv', NEW j \in DOMAIN drv', i < j,
               NEW p \in Positions(drv'[i].api), NEW q \in Positions(drv'[j].api),
               InitialisesAt(drv'[i].api, p), InitialisesAt(drv'[j].api, q)
        PROVE  drv'[i].args[p] # drv'[j].args[q]
    <3>1. i \in DOMAIN drv
      BY <2>3, <2>6
    <3>2. CASE j \in DOMAIN drv
      BY <2>1, <2>6, <3>1, <3>2 DEF InitialisedOnce, InitialisesAt
    <3>3. CASE j = m
      BY <2>1, <2>4, <2>6, <3>1, <3>3
    <3> QED
      BY <2>2, <3>2, <3>3
  <2>7. InitialisedOnce'
    BY <2>6 DEF InitialisedOnce, InitialisesAt
  <2> QED
    BY <2>5, <2>7
<1> QED
  BY <1>2, <1>3 DEF Next, Choose, EndOf, FirstRound, SecondRound, Return, Update, UpdateReturn, Flush

\* No initialiser is given what an earlier call of the driver initialised.
THEOREM InitialisersRunOnce == Spec => []InitialisedOnce
<1> DEFINE I == Typed /\ PendingInv /\ PastInitialised /\ OwnInitialised /\ InitialisedOnce
<1>1. Init => I
  BY TypedInit DEF Init, EmptyContext, PendingInv, PastInitialised, OwnInitialised, InitialisedOnce
<1>2. I /\ [Next]_vars => I'
  <2>1. PendingInv /\ InitialisedOnce /\ UNCHANGED vars => (PendingInv /\ InitialisedOnce)'
    BY DEF PendingInv, WaitsFor, InitialisedOnce, vars, call
  <2>2. PastInitialised /\ OwnInitialised /\ UNCHANGED vars => (PastInitialised /\ OwnInitialised)'
    BY DEF PastInitialised, OwnInitialised, Known, Fresh, vars, call
  <2> QED
    BY <2>1, <2>2, PendingStep, PastInitialisedStep, OwnInitialisedStep, TypedStep, TypedStutter
<1> QED
  BY <1>1, <1>2, PTL DEF Spec
=============================================================================
