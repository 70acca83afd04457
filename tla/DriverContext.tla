--------------------------- MODULE DriverContext ----------------------------
(***************************************************************************)
(* The constraint-based factory: create_random_driver of CBFactory builds  *)
(* a driver call by call, and for each call takes variables from the       *)
(* RunningContext or creates them, as the ConditionManager's sources,      *)
(* sinks and initialisers demand (framework/driver/factory/                *)
(* constraint_based/CBFactory.py, framework/constraints).                  *)
(*                                                                         *)
(* The conditions of the static analysis are reduced to what these classes *)
(* test.  The context is copied for every attempt and an attempt that      *)
(* fails is dropped; whether a call can be instantiated does not depend on *)
(* random choices, so the failing attempts are left out.  Not modelled:    *)
(* structures passed by value, pointers to pointers, function pointers and *)
(* variadic arguments.                                                     *)
(***************************************************************************)
EXTENDS Integers, Sequences, SequencesExt, FiniteSets

CONSTANTS Types,     \* of arguments and return values, as pointers where they are pointers
          Pointer, Struct, Incomplete, Friendly, SizeType, StringType, ConstType, IntLike,  \* sets of types
          VoidPointer,  \* the type void*
          CharArray,    \* stub_char_array
          SizeT,        \* the type of created length variables
          Apis,         \* the library: [args, ret], see ApisAssumption
          DriverSize

NoType == "void"
NoVar == [type |-> NoType, n |-> 0, heap |-> FALSE]

\* What is known of an argument or a return value: its type, whether it is a file path, the argument
\* that holds its length (0: none), the arguments it is set by, whether its root is created or deleted.
Metadata == [type : Types \cup {NoType}, file : BOOLEAN, len : Nat, setby : SUBSET Nat, create : BOOLEAN, delete : BOOLEAN]

ASSUME TypesAssumption ==
  /\ NoType \notin Types /\ {CharArray, SizeT} \subseteq Types
  /\ Struct \subseteq Pointer /\ Incomplete \subseteq Struct /\ Friendly \subseteq Struct \ Incomplete
  /\ SizeT \in SizeType /\ SizeType \cap Pointer = {}
  /\ CharArray \in Pointer \ Struct /\ VoidPointer \notin Struct
\* An argument is set by others, through a pointer (my_extract_dependency_among_parameters follows stores).
ASSUME ApisAssumption ==
  \A a \in Apis : /\ a.args \in Seq(Metadata) /\ a.ret \in Metadata
                  /\ \A p \in DOMAIN a.args : /\ a.args[p].type \in Types
                                              /\ a.args[p].setby \subseteq DOMAIN a.args \ {p}
                                              /\ a.args[p].setby # {} => a.args[p].type \in Pointer
                                              /\ a.args[p].len # 0 => /\ a.args[p].len \in DOMAIN a.args
                                                                      /\ a.args[p].type \in Pointer \ Incomplete
ASSUME DriverSizeAssumption == DriverSize \in Nat

VARIABLES drv,                       \* the calls so far, with their variables
          ctx,                       \* the RunningContext of the last one
          pc, pos,                   \* where try_to_instantiate_api_call is
          api, arg_vars, ret_var     \* the call in hand

call == <<api, arg_vars, ret_var>>
vars == <<drv, ctx, pc, pos, call>>

NoApi == [args |-> <<>>, ret |-> [type |-> NoType, file |-> FALSE, len |-> 0, setby |-> {}, create |-> FALSE, delete |-> FALSE]]
EmptyContext == [variables_alive |-> <<>>, var_to_cond |-> [v \in {} |-> {}], new_vars |-> {},
                 buffs_counter |-> [t \in Types |-> 0]]

Init ==
  /\ drv = <<>> /\ ctx = EmptyContext
  /\ pc = "choose" /\ pos = 0
  /\ api = NoApi /\ arg_vars = <<>> /\ ret_var = NoVar
-----------------------------------------------------------------------------
(* ConditionManager: the classes of APIs. *)

\* init_sinks: one argument, which is deleted, and no interesting result.
IsSink(a) == /\ Len(a.args) = 1 /\ a.ret.type \in IntLike \cup {NoType}
             /\ a.args[1].delete /\ ~a.args[1].create

\* init_source_per_type: types that some API returns.
HasSource(t) == \E a \in Apis : ~IsSink(a) /\ a.ret.type = t /\ t \in Struct

\* init_source: every argument is a primitive value, a string, or a structure fuzzed as bytes.
StartsFromNothing(a) == ~IsSink(a) /\ \A p \in DOMAIN a.args : a.args[p].type \notin Struct \ Friendly

CreatesVoid == \E a \in Apis : StartsFromNothing(a) /\ a.ret.create /\ a.ret.type = VoidPointer

\* init_init: an argument is initialised when all it is set by can be made up but one opaque handle, and set otherwise.
MadeUp(a, p) == {d \in a.args[p].setby : a.args[d].type \notin Struct \ Friendly}
Opaque(a, p) == {d \in a.args[p].setby : a.args[d].type \in Incomplete}
Initialises(a, p) == /\ a.args[p].setby # {}
                     /\ Cardinality(MadeUp(a, p)) = Cardinality(a.args[p].setby) - 1
                     /\ Cardinality(Opaque(a, p)) = 1
Positions(a) == DOMAIN a.args
SetPerType(t) == {ap \in UNION {{a} \X Positions(a) : a \in Apis} :
                    /\ ap[1].args[ap[2]].type = t /\ ap[1].args[ap[2]].setby # {}
                    /\ ~Initialises(ap[1], ap[2])}
IsSet(a, p) == a.args[p].setby # {} /\ ~Initialises(a, p)

\* is_init and is_setby; the test that should leave out types with a source is always false.
IsInit(a, p) == Initialises(a, p)
IsSetby(a, p) == IsSet(a, p) /\ Cardinality(SetPerType(a.args[p].type)) = 1

SourceApis ==
  {a \in Apis : /\ StartsFromNothing(a)
                /\ CreatesVoid => \A p \in Positions(a) : a.args[p].type # VoidPointer
                /\ \A p \in Positions(a) : IsSet(a, p) => Cardinality(SetPerType(a.args[p].type)) = 1}

NeedsInit(t) == \E a \in Apis : \E p \in Positions(a) : a.args[p].type = t /\ Initialises(a, p)

\* TypeDependencyGraphGenerator, inverted by CBFactory: b takes what a returns or fills in.
Follows(a, b) == \E p \in Positions(b) :
                   \/ b.args[p].type = a.ret.type
                   \/ \E q \in Positions(a) : a.args[q].type = b.args[p].type /\ a.args[q].type \in Pointer
-----------------------------------------------------------------------------
(* RunningContext. *)

Alive(c) == {c.variables_alive[k] : k \in DOMAIN c.variables_alive}

\* list.remove: a variable is in the list once.
Removed(s, v) == RemoveAt(s, CHOOSE k \in DOMAIN s : s[k] = v)

\* Mutant of Forget: the pending length stays.
ForgetOnlyVar(c, v) ==
  [c EXCEPT !.variables_alive = Removed(@, v),
            !.var_to_cond = [w \in DOMAIN @ \ {v} |-> @[w]]]

\* A variable that is alive leaves both structures, and remove_from_new_vars its pending length.
Forget(c, v) ==
  [c EXCEPT !.variables_alive = Removed(@, v),
            !.var_to_cond = [w \in DOMAIN @ \ {v} |-> @[w]],
            !.new_vars = {n \in @ : n.var # v}]

\* add_variable
AddVariable(c, v, file) ==
  IF v \in Alive(c)
  THEN [c EXCEPT !.var_to_cond[v].file = file]
  ELSE [c EXCEPT !.variables_alive = Append(@, v),
                 !.var_to_cond = [w \in DOMAIN @ \cup {v} |->
                                    IF w = v THEN [file |-> file, init |-> FALSE, len |-> NoVar] ELSE @[w]]]

\* Mutant of IsReleased: a sink does not release what it was given.
IsReleasedNever(present, sink) == FALSE

IsReleased(present, sink) == present /\ sink

\* update_var
UpdateVar(c, v, file, isRet, sink, init) ==
  LET fresh == IF isRet /\ v \in Alive(c) THEN Forget(c, v) ELSE c
      added == AddVariable(fresh, v, file)
  IN IF IsReleased(v \in DOMAIN fresh.var_to_cond, sink) THEN Forget(added, v)
     ELSE [added EXCEPT !.var_to_cond[v].init = (@ \/ init) /\ ~sink]

\* create_new_buffer: what an API creates is on the heap, and so are arrays with a length.  create_new_var
\* makes an array of char for void*.
OnHeap(m, force) ==
  m.type \in Pointer /\ IF force THEN m.create ELSE m.len # 0 \/ (m.create /\ m.type \in Incomplete)
Made(t) == IF t = VoidPointer THEN CharArray ELSE t
NewVar(c, t, heap) == [type |-> t, n |-> c.buffs_counter[t], heap |-> heap]
Created(c, t) == [c EXCEPT !.buffs_counter[t] = @ + 1]

\* var_is_equal_to_type_cond
Usable(v, m) == /\ v.type = m.type /\ v.type \notin ConstType /\ ctx.var_to_cond[v].file = m.file
                /\ ctx.var_to_cond[v].len = NoVar
UsableVars(m) == {v \in Alive(ctx) : Usable(v, m)}

\* get_value_that_strictly_satisfy
StrictlySatisfying(m) == {v \in Alive(ctx) : v.type = m.type /\ ctx.var_to_cond[v].file = m.file}

\* The first variable of the list that is not initialised.
Uninitialised(m) ==
  {v \in UsableVars(m) : /\ ~ctx.var_to_cond[v].init
                         /\ \E k \in DOMAIN ctx.variables_alive :
                              /\ ctx.variables_alive[k] = v
                              /\ \A j \in 1..(k - 1) : LET w == ctx.variables_alive[j]
                                                       IN Usable(w, m) => ctx.var_to_cond[w].init}

\* Mutant of MayInvent: types with a source can be made up.
MayInventAny(a, p) ==
  LET t == a.args[p].type
  IN /\ t \notin Incomplete
     /\ ~(a.args[p].setby = {} /\ t \in Friendly /\ NeedsInit(t))

\* When nothing in the context fits: the last branch of try_to_get_var.
MayInvent(a, p) ==
  LET t == a.args[p].type
  IN /\ t \notin Incomplete
     /\ ~(a.args[p].setby = {} /\ t \in Friendly /\ NeedsInit(t))
     /\ ~HasSource(t)

\* An array whose length is another argument, of a type for sizes, is set up in the first round.
Sized(a, p) == a.args[p].len # 0 /\ a.args[a.args[p].len].type \in SizeType
LengthPositions(a) == {a.args[p].len : p \in {q \in Positions(a) : Sized(a, q)}}

\* Other lengths are erased from the conditions.
Argument(a, p) == [a.args[p] EXCEPT !.len = IF Sized(a, p) THEN @ ELSE 0]

MadeVoid(t) == t = VoidPointer /\ ~CreatesVoid

\* ConditionUnsat is not raised for the argument.
Satisfiable(a, p) ==
  LET m == a.args[p]
  IN CASE Sized(a, p) \/ p \in LengthPositions(a) -> TRUE
       [] IsSink(a) -> StrictlySatisfying(m) # {}
       [] OTHER -> MadeVoid(m.type) \/ IsInit(a, p) \/ IsSetby(a, p) \/ UsableVars(m) # {} \/ MayInvent(a, p)
Doable(a) == \A p \in Positions(a) : Satisfiable(a, p)
-----------------------------------------------------------------------------
(* CBFactory. *)

\* Candidates to continue the chain; a call that could only be repeated ends it.
Candidates ==
  LET last == drv[Len(drv)].api
      doable == {b \in Apis \ SourceApis : Follows(last, b) /\ Doable(b)}
  IN IF drv = <<>> \/ doable = {last} THEN {} ELSE doable

Choose(a) ==
  /\ pc = "choose" /\ Len(drv) < DriverSize
  /\ a \in (IF Candidates # {} THEN Candidates ELSE SourceApis) /\ Doable(a)
  /\ api' = a /\ arg_vars' = [p \in Positions(a) |-> NoVar] /\ ret_var' = NoVar
  /\ pc' = "first" /\ pos' = 1
  /\ UNCHANGED <<drv, ctx>>

\* The end of a loop over the arguments.
EndOf(round, next) ==
  /\ pc = round /\ pos = Len(api.args) + 1
  /\ pc' = next /\ pos' = 1
  /\ UNCHANGED <<drv, ctx, call>>

\* An array and its length are created and recorded; a length that another array shares is replaced.
FirstRound ==
  /\ pc = "first" /\ pos \in Positions(api)
  /\ IF Sized(api, pos)
     THEN LET m == api.args[pos]
              idx == api.args[m.len]
              t == Made(m.type)
              x == NewVar(ctx, t, TRUE)
              b_len == NewVar(ctx, idx.type, FALSE)
              c1 == UpdateVar(Created(Created(ctx, t), idx.type), x, m.file, FALSE, IsSink(api),
                              IsInit(api, pos) \/ IsSet(api, pos))
              c2 == UpdateVar(c1, b_len, idx.file, FALSE, IsSink(api), FALSE)
          IN /\ arg_vars' = [arg_vars EXCEPT ![pos] = x, ![m.len] = b_len]
             /\ ctx' = [c2 EXCEPT !.var_to_cond[x].len = b_len]
     ELSE UNCHANGED <<arg_vars, ctx>>
  /\ pos' = pos + 1
  /\ UNCHANGED <<drv, pc, api, ret_var>>

\* A value that lands in v: a file path and a heap array without a length get a length variable.
GetsLength(v, m) == \/ m.file /\ v.type \in StringType
                    \/ ~m.file /\ m.len = 0 /\ v.heap /\ v.type \notin Struct \cup {VoidPointer}
Pending(c, v, m) ==
  IF GetsLength(v, m)
  THEN [Created(c, SizeT) EXCEPT !.new_vars = @ \cup {[var |-> v, len |-> NewVar(c, SizeT, FALSE)]}]
  ELSE c

\* try_to_get_var for an argument, with the context it leaves: the branches in their order.
ArgumentChoices(a, p) ==
  LET m == Argument(a, p)
      old(S) == {[var |-> v, ctx |-> ctx] : v \in S}
      new(t) == {[var |-> NewVar(ctx, t, OnHeap(m, FALSE)), ctx |-> Created(ctx, t)]}
  IN CASE IsSink(a) -> old(StrictlySatisfying(m))
       [] ~IsSink(a) /\ MadeVoid(m.type) -> new(CharArray)
       [] ~IsSink(a) /\ ~MadeVoid(m.type) /\ (IsInit(a, p) \/ IsSetby(a, p)) ->
            IF Uninitialised(m) # {} THEN old(Uninitialised(m)) ELSE new(Made(m.type))
       [] OTHER -> IF UsableVars(m) # {} THEN old(UsableVars(m)) ELSE new(Made(m.type))

\* Mutant of IsSetUp: lengths of arrays are chosen like any argument.
IsSetUpArray(p) == Sized(api, p)

IsSetUp(p) == arg_vars[p] # NoVar

SecondRound ==
  /\ pc = "second" /\ pos \in Positions(api)
  /\ IF IsSetUp(pos) THEN UNCHANGED <<arg_vars, ctx>>
     ELSE \E c \in ArgumentChoices(api, pos) :
            /\ arg_vars' = [arg_vars EXCEPT ![pos] = c.var]
            /\ ctx' = Pending(c.ctx, c.var, Argument(api, pos))
  /\ pos' = pos + 1
  /\ UNCHANGED <<drv, pc, api, ret_var>>

\* try_to_get_var for the result: pointers are always new, other values may overwrite one that is alive.
Return ==
  /\ pc = "ret" /\ pc' = "update"
  /\ LET m == api.ret
     IN IF m.type = NoType THEN UNCHANGED <<ret_var, ctx>>
        ELSE \E v \in {NewVar(ctx, m.type, OnHeap(m, TRUE))}
                      \cup (IF m.type \in Pointer \/ m.create THEN {} ELSE UsableVars(m)) :
               /\ ret_var' = v
               /\ ctx' = Pending(IF v \in Alive(ctx) THEN ctx ELSE Created(ctx, m.type), v, m)
  /\ UNCHANGED <<drv, pos, api, arg_vars>>

\* Mutant of SetsInit: is_set is not looked at.
SetsInitOnly(a, p) == IsInit(a, p)

SetsInit(a, p) == IsInit(a, p) \/ IsSet(a, p)

\* The conditions an argument's variable is updated with are those of the last argument: the loop uses
\* the arg_cond that the loop before it left.
StaleCond == api.args[Len(api.args)]

Update ==
  /\ pc = "update" /\ pos \in Positions(api)
  /\ ctx' = UpdateVar(ctx, arg_vars[pos], StaleCond.file, FALSE, IsSink(api), SetsInit(api, pos))
  /\ pos' = pos + 1
  /\ UNCHANGED <<drv, pc, call>>

UpdateReturn ==
  /\ pc = "update" /\ pos = Len(api.args) + 1
  /\ ctx' = IF ret_var = NoVar THEN ctx ELSE UpdateVar(ctx, ret_var, api.ret.file, TRUE, IsSink(api), FALSE)
  /\ pc' = "flush"
  /\ UNCHANGED <<drv, pos, call>>

\* The pending length variables; looking up the array they belong to fails if it is gone.
Flush(n) ==
  /\ pc = "flush" /\ n \in ctx.new_vars
  /\ n.var \in DOMAIN ctx.var_to_cond
  /\ ctx' = [UpdateVar(ctx, n.len, FALSE, FALSE, FALSE, FALSE) EXCEPT !.var_to_cond[n.var].len = n.len, !.new_vars = @ \ {n}]
  /\ UNCHANGED <<drv, pc, pos, call>>

Append_ ==
  /\ pc = "flush" /\ ctx.new_vars = {}
  /\ drv' = Append(drv, [api |-> api, args |-> arg_vars, ret |-> ret_var])
  /\ pc' = "choose" /\ pos' = 0
  /\ api' = NoApi /\ arg_vars' = <<>> /\ ret_var' = NoVar
  /\ UNCHANGED ctx

Next ==
  \/ \E a \in Apis : Choose(a)
  \/ EndOf("first", "second") \/ EndOf("second", "ret")
  \/ FirstRound \/ SecondRound \/ Return \/ Update \/ UpdateReturn
  \/ \E n \in ctx.new_vars : Flush(n)
  \/ Append_

Spec == Init /\ [][Next]_vars
-----------------------------------------------------------------------------
(* Properties. *)

PassedTo(k, v) == \E p \in DOMAIN drv[k].args : drv[k].args[p] = v

\* What a sink was given is not passed to a later call (SetNull writes NULL into it), unless a call
\* in between returned into it.
NoUseAfterSink ==
  \A i, j \in DOMAIN drv : (i < j /\ IsSink(drv[i].api) /\ PassedTo(j, drv[i].args[1])) =>
    \E k \in i..(j - 1) : drv[k].ret = drv[i].args[1]

\* A later array of the call has the same length argument.
SharedLength(a, p) == \E q \in Positions(a) : q > p /\ Sized(a, q) /\ a.args[q].len = a.args[p].len

\* arg + len, "one arg is an array and another arg controls its length" (README.md:152): the length
\* that the context keeps for an array, and that the array is allocated with, is the one its call is
\* given, for as long as the array lives.  Of arrays that share a length argument this is true of the
\* last one, and of no other: FirstRound replaces the argument, and the arrays before keep a length
\* that the call is not told.
LengthOfLastArray ==
  \A k \in DOMAIN drv : \A p \in Positions(drv[k].api) :
    LET a == drv[k].api
        v == drv[k].args[p]
    IN Sized(a, p) /\ v \in Alive(ctx) =>
         (ctx.var_to_cond[v].len = drv[k].args[a.args[p].len] <=> ~SharedLength(a, p))

\* A variable is initialised once: an initialiser is not given what an earlier call initialised.
InitialisedOnce ==
  \A i, j \in DOMAIN drv : \A p \in Positions(drv[i].api), q \in Positions(drv[j].api) :
    LET Initialising(k, r) == (IsInit(drv[k].api, r) \/ IsSetby(drv[k].api, r)) /\ ~Sized(drv[k].api, r)
    IN i < j /\ Initialising(i, p) /\ Initialising(j, q) => drv[i].args[p] # drv[j].args[q]

\* A structure for which the library has a source is never made up by a call that does not
\* initialise it: an earlier call returned or initialised it.
SourcedAreProduced ==
  \A j \in DOMAIN drv : \A q \in Positions(drv[j].api) :
    LET a == drv[j].api
        v == drv[j].args[q]
    IN HasSource(a.args[q].type) /\ ~IsInit(a, q) /\ ~IsSetby(a, q) /\ ~Sized(a, q) =>
         \E i \in 1..(j - 1) : drv[i].ret = v \/ PassedTo(i, v)

\* The flush finds the array of every pending length variable (else it fails with a KeyError).
FlushFindsArrays == pc = "flush" => \A n \in ctx.new_vars : n.var \in DOMAIN ctx.var_to_cond

\* A variable is marked as a file path only if a call took it or returned it as one ("function +
\* arguments match the contraints of a context", README.md:138): a handle with the mark fits no
\* argument any more.
PathsAreMarked ==
  pc = "choose" => \A v \in Alive(ctx) : ctx.var_to_cond[v].file =>
    \E k \in DOMAIN drv : \/ drv[k].ret = v /\ drv[k].api.ret.file
                          \/ \E p \in Positions(drv[k].api) : drv[k].args[p] = v /\ drv[k].api.args[p].file

=============================================================================
