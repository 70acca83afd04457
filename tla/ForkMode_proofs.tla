--------------------------- MODULE ForkMode_proofs ---------------------------
(***************************************************************************)
(* Proofs about ForkMode, for every command line: any number of jobs, any  *)
(* plateau and time limit, any failures of the children.                   *)
(***************************************************************************)
EXTENDS ForkMode, FiniteSetTheorems, SequenceTheorems, TLAPS

Codes == {"ok", "fail", "interrupt"}
Causes == {"", "C", "O", "T", "P", "I"}
Children == [pc : {"none", "run", "signalled", "store", "gone"}, cause : Causes, code : Codes \cup {""}, since : Nat]

Merging == {"merge", "insert", "decide"}
Stopping == {"stop", "join", "clean"}
Inserting == main \in {"insertSeeds", "insert"}

Typed ==
  /\ flags \in CommandLines
  /\ main \in {"seeds", "insertSeeds", "spawn", "spawned", "pop", "asleep"} \cup Merging \cup Stopping
  /\ pushes \in 0..NumJobs
  /\ main \in {"seeds", "insertSeeds"} => pushes = 0
  /\ main \in {"spawn", "spawned"} => pushes < NumJobs
  /\ FuzzQ \in Seq({"job", Null}) /\ MergeQ \in Seq(Codes \cup {Null})
  /\ worker \in [Workers -> {"none", "pop", "asleep", "wait", "end"}]
  /\ child \in [Workers -> Children]
  /\ Cov \in Nat /\ now \in Nat
  /\ periodic \in [pc : {"off", "sleep", "store"}, first : BOOLEAN, cov : Nat, last : Nat, next : Nat]
  /\ \A w \in Workers : child[w].pc \in {"store", "gone"} => child[w].code \in Codes
-----------------------------------------------------------------------------
(* Types. *)

LEMMA FlagsTyped ==
  ASSUME flags \in CommandLines
  PROVE  /\ NumJobs \in Nat \ {0} /\ Plateau \in Nat \ {0} /\ Timeout \in Nat \ {0} /\ MaxCov \in Nat
         /\ Measure \in BOOLEAN /\ Ignore \in BOOLEAN /\ Budget \in BOOLEAN
         /\ Failures \subseteq {"C", "O", "T"}
BY CommandLinesAssumption DEF NumJobs, Plateau, Timeout, MaxCov, Measure, Ignore, Budget, Failures

LEMMA FlagsKept ==
  ASSUME [Next]_vars
  PROVE  flags' = flags
BY DEF Next, vars, clockVars, FuzzWithFork, MergeEnds, Inserted, SpawnWorker, PushFirstJob, PopMerge, PushNewJob,
       StopOnFailure, StopOnBudget, StopJobs, JoinThreads, ExitMain, MergeCrashes, MergeStores, WorkerThread, Child,
       PopFuzz, PushResult, ChildEnds, ChildFails, ChildPlateau, ChildInterrupted, ChildStores, ChildStops,
       startPeriodicHandler, RaceFaults, CollectCoverage, CoverageChanged, CoverageSame, PlateauExit,
       Environment, Tick, Terminate, InterruptOpens, InterruptExit, Kill, ContainerEnds, Ended

\* The constants of the run do not change.
LEMMA ParametersKept ==
  ASSUME flags' = flags
  PROVE  /\ NumJobs' = NumJobs /\ Plateau' = Plateau /\ Timeout' = Timeout /\ MaxCov' = MaxCov
         /\ Measure' = Measure /\ Ignore' = Ignore /\ Budget' = Budget /\ Failures' = Failures
         /\ Workers' = Workers
BY DEF NumJobs, Plateau, Timeout, MaxCov, Measure, Ignore, Budget, Failures, Workers

LEMMA PushTyped ==
  ASSUME Typed, NEW x \in {"job", Null}, PushFuzz(x)
  PROVE  FuzzQ' \in Seq({"job", Null}) /\ worker' \in [Workers -> {"none", "pop", "asleep", "wait", "end"}]
BY DEF PushFuzz, Typed

\* The steps of the main thread keep the types.
LEMMA MainTyped ==
  ASSUME Typed, FuzzWithFork
  PROVE  Typed'
<1>0. /\ flags' = flags /\ NumJobs' = NumJobs /\ Workers' = Workers /\ NumJobs \in Nat \ {0}
      /\ UNCHANGED <<child, Cov, now, periodic>> \/ Inserted
  <2>1. flags' = flags
    BY FlagsKept DEF Next
  <2>2. UNCHANGED <<child, Cov, now, periodic>> \/ Inserted
    BY DEF FuzzWithFork, MergeEnds, Inserted, SpawnWorker, PushFirstJob, PopMerge, PushNewJob, StopOnFailure,
           StopOnBudget, StopJobs, JoinThreads, ExitMain, threadVars, clockVars
  <2> QED BY <2>1, <2>2, ParametersKept, FlagsTyped DEF Typed
<1> USE DEF mainVars, queueVars, threadVars, clockVars, Merging, Stopping, Typed
<1>1. CASE MergeEnds
  BY <1>0, <1>1 DEF MergeEnds
<1>2. CASE Inserted
  BY <1>0, <1>2 DEF Inserted
<1>3. CASE SpawnWorker
  <2>1. worker' \in [Workers -> {"none", "pop", "asleep", "wait", "end"}]
    BY <1>3 DEF SpawnWorker
  <2> QED BY <1>0, <1>3, <2>1 DEF SpawnWorker
<1>4. CASE PopMerge
  <2>1. MergeQ' \in Seq(Codes \cup {Null})
    <3>1. MergeQ # <<>> => Tail(MergeQ) \in Seq(Codes \cup {Null})
      BY HeadTailProperties
    <3> QED BY <1>4, <3>1 DEF PopMerge
  <2>2. main' \in {"asleep", "stop", "merge"} /\ pushes' \in 0..NumJobs
    BY <1>0, <1>4 DEF PopMerge
  <2>3. UNCHANGED <<FuzzQ, worker, child, Cov, periodic, now>>
    BY <1>4 DEF PopMerge
  <2> QED BY <1>0, <2>1, <2>2, <2>3
<1>5. CASE StopOnFailure \/ StopOnBudget \/ JoinThreads \/ ExitMain
  BY <1>0, <1>5 DEF StopOnFailure, StopOnBudget, JoinThreads, ExitMain
<1>6. CASE PushFirstJob
  <2>1. FuzzQ' \in Seq({"job", Null}) /\ worker' \in [Workers -> {"none", "pop", "asleep", "wait", "end"}]
    BY <1>6, PushTyped DEF PushFirstJob
  <2>2. main' \in {"pop", "spawn"} /\ UNCHANGED <<MergeQ, child, Cov, periodic, now>>
    BY <1>6 DEF PushFirstJob
  <2>3. pushes' \in 0..NumJobs /\ (main' = "spawn" => pushes' < NumJobs)
    BY <1>0, <1>6 DEF PushFirstJob
  <2> QED BY <1>0, <2>1, <2>2, <2>3
<1>7. CASE PushNewJob
  <2>1. FuzzQ' \in Seq({"job", Null}) /\ worker' \in [Workers -> {"none", "pop", "asleep", "wait", "end"}]
    BY <1>7, PushTyped DEF PushNewJob
  <2> QED BY <1>0, <1>7, <2>1 DEF PushNewJob
<1>8. CASE StopJobs
  <2>1. CASE pushes < NumJobs
    <3>1. FuzzQ' \in Seq({"job", Null}) /\ worker' \in [Workers -> {"none", "pop", "asleep", "wait", "end"}]
      BY <1>8, <2>1, PushTyped DEF StopJobs
    <3> QED BY <1>0, <1>8, <2>1, <3>1 DEF StopJobs
  <2>2. CASE ~(pushes < NumJobs)
    <3>1. MergeQ' \in Seq(Codes \cup {Null})
      <4>1. Append(MergeQ, Null) \in Seq(Codes \cup {Null})
        BY AppendProperties
      <4> QED BY <1>8, <2>2, <4>1 DEF StopJobs
    <3> QED BY <1>0, <1>8, <2>2, <3>1 DEF StopJobs
  <2> QED BY <2>1, <2>2
<1> QED BY <1>1, <1>2, <1>3, <1>4, <1>5, <1>6, <1>7, <1>8 DEF FuzzWithFork

\* So do the workers.
LEMMA WorkerTyped ==
  ASSUME Typed, NEW w \in Workers, WorkerThread(w)
  PROVE  Typed'
<1>0. flags' = flags /\ NumJobs' = NumJobs /\ Workers' = Workers
  BY FlagsKept, ParametersKept DEF Next
<1>1. CASE PopFuzz(w)
  <2>1. UNCHANGED <<main, pushes, MergeQ, Cov, now, periodic>>
    BY <1>1 DEF PopFuzz, mainVars, clockVars
  <2>2. FuzzQ' \in Seq({"job", Null})
    <3>1. FuzzQ # <<>> => Tail(FuzzQ) \in Seq({"job", Null})
      BY HeadTailProperties DEF Typed
    <3> QED BY <1>1, <3>1 DEF PopFuzz, Typed
  <2>3. worker' \in [Workers -> {"none", "pop", "asleep", "wait", "end"}]
    BY <1>1 DEF PopFuzz, Typed
  <2>4. [NoChild EXCEPT !.pc = "run", !.since = now] \in Children
    BY DEF NoChild, Children, Causes, Codes, Typed
  <2>5. child' \in [Workers -> Children]
        /\ \A v \in Workers : child'[v].pc \in {"store", "gone"} => child'[v].code \in Codes
    BY <1>1, <2>4 DEF PopFuzz, Typed, NoChild
  <2> QED BY <1>0, <2>1, <2>2, <2>3, <2>5 DEF Typed
<1>2. CASE PushResult(w)
  <2>1. UNCHANGED <<pushes, FuzzQ, Cov, now, periodic>> /\ child[w].pc = "gone"
    BY <1>2 DEF PushResult, clockVars
  <2>2. MergeQ' \in Seq(Codes \cup {Null})
    <3>1. child[w].code \in Codes
      BY <2>1 DEF Typed
    <3> QED BY <1>2, <3>1, AppendProperties DEF PushResult, PushMerge, Typed
  <2>3. main' = IF main = "asleep" THEN "pop" ELSE main
    BY <1>2 DEF PushResult, PushMerge
  <2>4. worker' \in [Workers -> {"none", "pop", "asleep", "wait", "end"}]
    BY <1>2 DEF PushResult, Typed
  <2>5. child' \in [Workers -> Children]
        /\ \A v \in Workers : child'[v].pc \in {"store", "gone"} => child'[v].code \in Codes
    <3>1. NoChild \in Children /\ NoChild.pc = "none"
      BY DEF NoChild, Children, Causes
    <3> QED BY <1>2, <3>1 DEF PushResult, Typed
  <2> QED BY <1>0, <2>1, <2>2, <2>3, <2>4, <2>5 DEF Typed
<1> QED BY <1>1, <1>2 DEF WorkerThread

\* What one step of a child does to its record.
LEMMA ChildTyped ==
  ASSUME Typed, NEW w \in Workers, Child(w)
  PROVE  /\ Typed'
         /\ child[w].pc # "none" /\ child'[w].pc # "none" /\ \A v \in Workers \ {w} : child'[v] = child[v]
         /\ UNCHANGED <<mainVars, queueVars, worker, clockVars, Cov, periodic, merging, handler, box>>
<1>0. flags' = flags /\ NumJobs' = NumJobs /\ Workers' = Workers /\ Failures \subseteq {"C", "O", "T"}
  BY FlagsKept, ParametersKept, FlagsTyped DEF Next, Typed
<1>1. child[w] \in Children /\ child \in [Workers -> Children]
  BY DEF Typed
<1>2. UNCHANGED <<mainVars, queueVars, worker, clockVars, Cov, periodic, merging, handler, box>>
  BY DEF Child, ChildEnds, ChildFails, ChildPlateau, ChildInterrupted, ChildStores, ChildStops
<1>3. \E pc \in {"store", "gone"}, cause \in Causes, code \in Codes :
        child' = [child EXCEPT ![w] = [@ EXCEPT !.pc = pc, !.cause = cause, !.code = code]]
  <2>1. CASE ChildEnds(w)
    <3>1. PICK code \in {"ok", "fail"} : child' = [child EXCEPT ![w].pc = "gone", ![w].code = code]
      BY <2>1 DEF ChildEnds
    <3>2. child[w] = [child[w] EXCEPT !.cause = child[w].cause] /\ child[w].cause \in Causes
      BY <1>1 DEF Children
    <3>3. child' = [child EXCEPT ![w] = [@ EXCEPT !.pc = "gone", !.cause = child[w].cause, !.code = code]]
      BY <1>1, <3>1, <3>2 DEF Children
    <3> QED BY <3>2, <3>3 DEF Codes
  <2>2. ASSUME NEW cause \in Causes, NEW code \in Codes, ChildStops(w, cause, code)
        PROVE  \E pc \in {"store", "gone"} :
                 child' = [child EXCEPT ![w] = [@ EXCEPT !.pc = pc, !.cause = cause, !.code = code]]
    BY <1>1, <2>2 DEF ChildStops, Children
  <2>3. CASE ChildFails(w)
    <3>1. PICK c \in Failures : ChildStops(w, c, "fail")
      BY <2>3 DEF ChildFails
    <3>2. c \in Causes /\ "fail" \in Codes
      BY <1>0 DEF Causes, Codes
    <3>3. \E pc \in {"store", "gone"} : child' = [child EXCEPT ![w] = [@ EXCEPT !.pc = pc, !.cause = c, !.code = "fail"]]
      BY <2>2, <3>1, <3>2
    <3> QED BY <3>2, <3>3
  <2>4. CASE ChildPlateau(w) \/ ChildInterrupted(w)
    <3>1. PICK c \in {"P", "I"} : ChildStops(w, c, "interrupt")
      BY <2>4 DEF ChildPlateau, ChildInterrupted
    <3>2. c \in Causes /\ "interrupt" \in Codes
      BY DEF Causes, Codes
    <3>3. \E pc \in {"store", "gone"} :
            child' = [child EXCEPT ![w] = [@ EXCEPT !.pc = pc, !.cause = c, !.code = "interrupt"]]
      BY <2>2, <3>1, <3>2
    <3> QED BY <3>2, <3>3
  <2>5. CASE ChildStores(w)
    <3>1. child' = [child EXCEPT ![w].pc = "gone"] /\ child[w].pc = "store"
      BY <2>5 DEF ChildStores
    <3>2. child[w].cause \in Causes /\ child[w].code \in Codes
      BY <1>1, <3>1 DEF Children, Typed
    <3>3. child' = [child EXCEPT ![w] = [@ EXCEPT !.pc = "gone", !.cause = child[w].cause, !.code = child[w].code]]
      BY <1>1, <3>1 DEF Children
    <3> QED BY <3>2, <3>3
  <2> QED BY <2>1, <2>3, <2>4, <2>5 DEF Child
<1>4. PICK pc \in {"store", "gone"}, cause \in Causes, code \in Codes :
        child' = [child EXCEPT ![w] = [@ EXCEPT !.pc = pc, !.cause = cause, !.code = code]]
  BY <1>3
<1>5. child'[w] \in Children /\ child'[w].pc = pc /\ child'[w].code = code
  BY <1>1, <1>4 DEF Children
<1>6. child' \in [Workers -> Children] /\ \A v \in Workers \ {w} : child'[v] = child[v]
  BY <1>1, <1>4, <1>5
<1>7. Typed'
  BY <1>0, <1>2, <1>5, <1>6 DEF Typed, mainVars, queueVars, clockVars
<1>8. child[w].pc # "none"
  BY DEF Child, ChildEnds, ChildFails, ChildPlateau, ChildInterrupted, ChildStores, ChildStops, Runs
<1> QED BY <1>2, <1>5, <1>6, <1>7, <1>8

\* What the detached thread does to the rest of the state: nothing.
LEMMA PeriodicTyped ==
  ASSUME Typed, startPeriodicHandler
  PROVE  Typed' /\ UNCHANGED <<mainVars, queueVars, threadVars, Cov, clockVars, handler>>
<1>0. flags' = flags /\ NumJobs' = NumJobs /\ Workers' = Workers
  BY FlagsKept, ParametersKept DEF Next
<1>1. UNCHANGED <<mainVars, queueVars, threadVars, Cov, clockVars, handler>>
  BY DEF startPeriodicHandler, RaceFaults, CollectCoverage, CoverageChanged, CoverageSame, PlateauExit
<1>2. periodic' \in [pc : {"off", "sleep", "store"}, first : BOOLEAN, cov : Nat, last : Nat, next : Nat]
  <2>1. CovSeen \subseteq Nat /\ now + 1 \in Nat
    BY DEF CovSeen, Typed
  <2> QED BY <2>1 DEF startPeriodicHandler, RaceFaults, CollectCoverage, CoverageChanged, CoverageSame, PlateauExit, Typed
<1> QED BY <1>0, <1>1, <1>2 DEF Typed, mainVars, queueVars, threadVars, clockVars

\* The clock, the signals and the container leave the threads of the parent alone.
LEMMA EnvironmentTyped ==
  ASSUME Typed, Environment
  PROVE  /\ Typed'
         /\ UNCHANGED <<mainVars, queueVars, worker, merging, flags, Cov, periodic>>
         /\ \A w \in Workers : child'[w].pc = "none" <=> child[w].pc = "none"
<1>0. flags' = flags /\ NumJobs' = NumJobs /\ Workers' = Workers
  BY FlagsKept, ParametersKept DEF Next
<1>1. UNCHANGED <<mainVars, queueVars, worker, merging, flags, Cov, periodic>> /\ now' \in Nat
  <2>1. UNCHANGED <<mainVars, queueVars, worker, merging, flags, Cov, periodic>> /\ now' \in {now, now + 1}
    BY DEF Environment, Tick, Terminate, InterruptOpens, InterruptExit, Kill, ContainerEnds, threadVars, clockVars
  <2> QED BY <2>1 DEF Typed
<1>2. /\ child' \in [Workers -> Children]
      /\ \A w \in Workers : child'[w].pc \in {"store", "gone"} => child'[w].code \in Codes
      /\ \A w \in Workers : child'[w].pc = "none" <=> child[w].pc = "none"
  <2>1. CASE Terminate
    <3>1. PICK caught \in SUBSET {w \in Workers : child[w].pc = "store"} :
            child' = [w \in Workers |->
                        IF child[w].pc = "run" THEN [child[w] EXCEPT !.pc = "signalled"]
                        ELSE IF w \in caught THEN [child[w] EXCEPT !.cause = "I", !.code = "interrupt"]
                        ELSE child[w]]
      BY <2>1 DEF Terminate
    <3>2. ASSUME NEW w \in Workers
          PROVE  /\ child'[w] \in Children
                 /\ child'[w].pc \in {"store", "gone"} => child'[w].code \in Codes
                 /\ child'[w].pc = "none" <=> child[w].pc = "none"
      <4>1. /\ child[w] \in Children
            /\ child[w].pc \in {"store", "gone"} => child[w].code \in Codes
        BY DEF Typed
      <4>2. child'[w] \in {[child[w] EXCEPT !.pc = "signalled"], [child[w] EXCEPT !.cause = "I", !.code = "interrupt"],
                           child[w]}
            /\ (child'[w] = [child[w] EXCEPT !.pc = "signalled"] => child[w].pc # "none" \/ child'[w] = child[w])
        BY <3>1, <4>1 DEF Children
      <4> QED BY <4>1, <4>2, <3>1 DEF Children, Causes, Codes
    <3> QED BY <3>1, <3>2
  <2>2. CASE ~Terminate
    <3>1. child' = child
      BY <2>2 DEF Environment, Tick, InterruptOpens, InterruptExit, Kill, ContainerEnds, threadVars
    <3> QED BY <3>1 DEF Typed
  <2> QED BY <2>1, <2>2
<1> QED BY <1>0, <1>1, <1>2 DEF Typed, mainVars, queueVars

\* A failing merge leaves everything but the file alone.
LEMMA MergeProcessTyped ==
  ASSUME Typed, MergeCrashes \/ MergeStores
  PROVE  Typed' /\ UNCHANGED <<mainVars, queueVars, worker, child, Cov, periodic, handler, clockVars, box>>
<1>0. flags' = flags /\ NumJobs' = NumJobs /\ Workers' = Workers
  BY FlagsKept, ParametersKept DEF Next
<1>1. UNCHANGED <<mainVars, queueVars, worker, child, Cov, periodic, handler, clockVars, box>>
  BY DEF MergeCrashes, MergeStores
<1> QED BY <1>0, <1>1 DEF Typed, mainVars, queueVars, clockVars

LEMMA StutterTyped ==
  ASSUME Typed, UNCHANGED vars
  PROVE  Typed'
BY ParametersKept DEF Typed, vars, mainVars, queueVars, threadVars, clockVars

LEMMA TypedInit ==
  ASSUME Init
  PROVE  Typed
<1>1. NumJobs \in Nat \ {0} /\ flags \in CommandLines
  BY FlagsTyped DEF Init
<1>2. NoChild \in Children /\ NoChild.pc = "none"
  BY DEF NoChild, Children, Causes
<1>3. periodic \in [pc : {"off", "sleep", "store"}, first : BOOLEAN, cov : Nat, last : Nat, next : Nat]
  BY DEF Init
<1>4. FuzzQ \in Seq({"job", Null}) /\ MergeQ \in Seq(Codes \cup {Null})
  BY EmptySeq DEF Init
<1>5. child \in [Workers -> Children] /\ \A w \in Workers : child[w].pc = "none"
  BY <1>2 DEF Init
<1>6. worker \in [Workers -> {"none", "pop", "asleep", "wait", "end"}]
  BY DEF Init
<1>7. main = "seeds" /\ pushes = 0 /\ Cov = 0 /\ now = 0
  BY DEF Init
<1> QED BY <1>1, <1>3, <1>4, <1>5, <1>6, <1>7 DEF Typed

LEMMA TypedStep ==
  ASSUME Typed, [Next]_vars
  PROVE  Typed'
BY MainTyped, WorkerTyped, ChildTyped, PeriodicTyped, EnvironmentTyped, MergeProcessTyped, StutterTyped DEF Next, Ended

\* Every variable stays in its range: the counters of the loops, the tokens in the
\* queues, the threads and the records of the children, whatever the command line
\* is (FuzzWithFork, WorkerThread, startPeriodicHandler).
THEOREM TypeCorrect == Spec => []Typed
BY TypedInit, TypedStep, PTL DEF Spec
-----------------------------------------------------------------------------
(* Counting the tokens of a queue and the threads in a state. *)

CountOf(q, tokens) == Cardinality({i \in DOMAIN q : q[i] \in tokens})

Many(f, D, v) == Cardinality({w \in D : f[w] = v})

LEMMA CountFinite ==
  ASSUME NEW T, NEW q \in Seq(T), NEW S
  PROVE  IsFiniteSet({i \in DOMAIN q : q[i] \in S}) /\ CountOf(q, S) \in Nat
<1>1. IsFiniteSet(1..Len(q)) /\ DOMAIN q = 1..Len(q)
  BY FS_Interval, LenProperties
<1>2. IsFiniteSet({i \in DOMAIN q : q[i] \in S})
  BY <1>1, FS_Subset
<1> QED BY <1>2, FS_CardinalityType DEF CountOf

LEMMA CountEmpty ==
  ASSUME NEW T, NEW q \in Seq(T), NEW S
  PROVE  /\ CountOf(q, S) = 0 <=> \A i \in DOMAIN q : q[i] \notin S
         /\ q = <<>> => CountOf(q, S) = 0
<1>1. CountOf(q, S) = 0 <=> {i \in DOMAIN q : q[i] \in S} = {}
  BY CountFinite, FS_EmptySet DEF CountOf
<1>2. q = <<>> => DOMAIN q = {}
  BY EmptySeq
<1> QED BY <1>1, <1>2

LEMMA CountAppend ==
  ASSUME NEW T, NEW q \in Seq(T), NEW x \in T, NEW S
  PROVE  CountOf(Append(q, x), S) = CountOf(q, S) + IF x \in S THEN 1 ELSE 0
<1> DEFINE r == Append(q, x)
           old == {i \in DOMAIN q : q[i] \in S}
           new == {i \in DOMAIN r : r[i] \in S}
           n == Len(q) + 1
<1>1. /\ Len(q) \in Nat /\ DOMAIN q = 1..Len(q) /\ DOMAIN r = 1..n
      /\ \A i \in 1..Len(q) : r[i] = q[i]
      /\ r[n] = x
  BY AppendProperties, LenProperties
<1>2. n \notin old /\ (x \in S => new = old \cup {n}) /\ (x \notin S => new = old)
  BY <1>1
<1>3. IsFiniteSet(old) /\ CountOf(q, S) \in Nat
  BY CountFinite
<1>4. CountOf(q, S) = Cardinality(old) /\ CountOf(r, S) = Cardinality(new)
  BY DEF CountOf
<1> HIDE DEF old, new, n
<1>5. x \in S => Cardinality(new) = Cardinality(old) + 1
  BY <1>2, <1>3, FS_AddElement
<1> QED BY <1>2, <1>3, <1>4, <1>5

LEMMA CountTail ==
  ASSUME NEW T, NEW q \in Seq(T), q # <<>>, NEW S
  PROVE  CountOf(q, S) = CountOf(Tail(q), S) + IF Head(q) \in S THEN 1 ELSE 0
<1> DEFINE t == Tail(q)
           rest == {i \in DOMAIN t : t[i] \in S}
           all == {i \in DOMAIN q : q[i] \in S}
           n == Len(q) - 1
<1>1. /\ t \in Seq(T) /\ n \in Nat /\ Len(t) = n /\ DOMAIN q = 1..(n + 1) /\ DOMAIN t = 1..n
      /\ \A i \in 1..n : t[i] = q[i + 1]
      /\ Head(q) = q[1]
  BY HeadTailProperties, LenProperties, EmptySeq
<1>2. IsFiniteSet(rest) /\ IsFiniteSet(all) /\ IsFiniteSet(all \ {1})
  <2>1. IsFiniteSet(rest)
    BY <1>1, CountFinite
  <2>2. IsFiniteSet(all)
    BY CountFinite
  <2> QED BY <2>1, <2>2, FS_Subset
<1>3. CountOf(q, S) = Cardinality(all) /\ CountOf(t, S) = Cardinality(rest)
  BY DEF CountOf
<1>4. ExistsBijection(rest, all \ {1})
  <2> DEFINE up == [i \in rest |-> i + 1]
  <2>1. up \in [rest -> all \ {1}]
    BY <1>1
  <2>2. \A i, j \in rest : up[i] = up[j] => i = j
    BY <1>1
  <2>3. \A j \in all \ {1} : \E i \in rest : up[i] = j
    <3> TAKE j \in all \ {1}
    <3>1. j - 1 \in rest /\ up[j - 1] = j
      BY <1>1
    <3> QED BY <3>1
  <2> HIDE DEF up, rest, all
  <2>4. up \in Bijection(rest, all \ {1})
    BY <2>1, <2>2, <2>3 DEF Bijection, Injection, Surjection, IsInjective
  <2> QED BY <2>4 DEF ExistsBijection
<1>5. (Head(q) \in S => 1 \in all) /\ (Head(q) \notin S => all \ {1} = all)
  BY <1>1
<1> HIDE DEF rest, all
<1>6. Cardinality(rest) = Cardinality(all \ {1}) /\ Cardinality(rest) \in Nat /\ Cardinality(all) \in Nat
  BY <1>2, <1>4, FS_Bijection, FS_CardinalityType
<1>7. Head(q) \in S => Cardinality(all \ {1}) = Cardinality(all) - 1
  BY <1>2, <1>5, FS_RemoveElement
<1>8. Head(q) \notin S => Cardinality(all) = Cardinality(rest)
  BY <1>5, <1>6
<1>9. Head(q) \in S => Cardinality(all) = Cardinality(rest) + 1
  BY <1>6, <1>7
<1> QED BY <1>3, <1>6, <1>8, <1>9

LEMMA ManyFinite ==
  ASSUME NEW D, IsFiniteSet(D), NEW f, NEW v
  PROVE  /\ IsFiniteSet({w \in D : f[w] = v}) /\ Many(f, D, v) \in Nat
         /\ Many(f, D, v) = 0 <=> \A w \in D : f[w] # v
<1>1. IsFiniteSet({w \in D : f[w] = v})
  BY FS_Subset
<1>2. Many(f, D, v) \in Nat /\ (Many(f, D, v) = 0 <=> {w \in D : f[w] = v} = {})
  BY <1>1, FS_CardinalityType, FS_EmptySet DEF Many
<1> QED BY <1>1, <1>2
-----------------------------------------------------------------------------
(* The jobs.  Flow counts those outside the hand of the main thread.  Workers  *)
(* only move jobs on: from FuzzQ to a child, and from there to MergeQ.  The    *)
(* main thread adds one per worker at first and then one for each it took.     *)

Flow == CountOf(FuzzQ, {"job"}) + Many(worker, Workers, "wait") + CountOf(MergeQ, Codes)

NotStarted == \A w \in Workers : w > pushes + (IF main = "spawned" THEN 1 ELSE 0) => worker[w] = "none"

FlowInv ==
  /\ main \in {"seeds", "insertSeeds", "spawn", "spawned"} => Flow = pushes /\ NotStarted
  /\ main \in {"pop", "asleep"} => Flow = NumJobs
  /\ main \in Merging \cup Stopping => Flow + 1 = NumJobs
  /\ main \notin {"join", "clean"} => MergeQ \in Seq(Codes)

LEMMA FlowTyped ==
  ASSUME Typed
  PROVE  /\ IsFiniteSet(Workers) /\ NumJobs \in Nat \ {0} /\ Cardinality(Workers) = NumJobs
         /\ CountOf(FuzzQ, {"job"}) \in Nat /\ CountOf(FuzzQ, {Null}) \in Nat /\ CountOf(MergeQ, Codes) \in Nat
         /\ Many(worker, Workers, "wait") \in Nat /\ Many(worker, Workers, "end") \in Nat
<1>1. NumJobs \in Nat \ {0}
  BY FlagsTyped DEF Typed
<1>2. IsFiniteSet(Workers) /\ Cardinality(Workers) = NumJobs
  BY <1>1, FS_Interval DEF Workers
<1>3. CountOf(FuzzQ, {"job"}) \in Nat /\ CountOf(FuzzQ, {Null}) \in Nat /\ CountOf(MergeQ, Codes) \in Nat
  BY CountFinite DEF Typed
<1> QED BY <1>1, <1>2, <1>3, ManyFinite

\* One thread moves from one state to another.
LEMMA ManyExcept ==
  ASSUME Typed, NEW w \in Workers, NEW v, \A u \in Workers \ {w} : worker'[u] = worker[u]
  PROVE  /\ worker[w] # v /\ worker'[w] # v => Many(worker', Workers, v) = Many(worker, Workers, v)
         /\ worker[w] # v /\ worker'[w] = v => Many(worker', Workers, v) = Many(worker, Workers, v) + 1
         /\ worker[w] = v /\ worker'[w] # v => Many(worker, Workers, v) = Many(worker', Workers, v) + 1
<1> DEFINE old == {u \in Workers : worker[u] = v}
           new == {u \in Workers : worker'[u] = v}
<1>1. IsFiniteSet(old) /\ IsFiniteSet(new)
  BY FlowTyped, FS_Subset
<1>2. /\ worker[w] # v /\ worker'[w] # v => new = old
      /\ worker[w] # v /\ worker'[w] = v => new = old \cup {w} /\ w \notin old
      /\ worker[w] = v /\ worker'[w] # v => old = new \cup {w} /\ w \notin new
  OBVIOUS
<1>3. Many(worker, Workers, v) = Cardinality(old) /\ Many(worker', Workers, v) = Cardinality(new)
  BY DEF Many
<1> HIDE DEF old, new
<1>4. worker[w] # v /\ worker'[w] = v => Cardinality(new) = Cardinality(old) + 1
  BY <1>1, <1>2, FS_AddElement
<1>5. worker[w] = v /\ worker'[w] # v => Cardinality(old) = Cardinality(new) + 1
  BY <1>1, <1>2, FS_AddElement
<1> QED BY <1>2, <1>3, <1>4, <1>5

\* A push adds its token; the thread it wakes had no job and had not ended.
LEMMA PushFlow ==
  ASSUME Typed, NEW x \in {"job", Null}, PushFuzz(x), Workers' = Workers
  PROVE  /\ CountOf(FuzzQ, {"job"})' = CountOf(FuzzQ, {"job"}) + (IF x = "job" THEN 1 ELSE 0)
         /\ CountOf(FuzzQ, {Null})' = CountOf(FuzzQ, {Null}) + (IF x = Null THEN 1 ELSE 0)
         /\ Many(worker, Workers, "wait")' = Many(worker, Workers, "wait")
         /\ Many(worker, Workers, "end")' = Many(worker, Workers, "end")
         /\ \A w \in Workers : /\ worker[w] = "none" <=> worker'[w] = "none"
                               /\ worker[w] = "wait" <=> worker'[w] = "wait"
                               /\ worker[w] = "end" <=> worker'[w] = "end"
<1>1. FuzzQ' = Append(FuzzQ, x) /\ FuzzQ \in Seq({"job", Null}) /\ Null # "job"
  BY DEF PushFuzz, Typed, Null
<1>2. CountOf(Append(FuzzQ, x), {"job"}) = CountOf(FuzzQ, {"job"}) + (IF x \in {"job"} THEN 1 ELSE 0)
      /\ CountOf(Append(FuzzQ, x), {Null}) = CountOf(FuzzQ, {Null}) + (IF x \in {Null} THEN 1 ELSE 0)
  BY <1>1, CountAppend
<1>3. CountOf(FuzzQ, {"job"})' = CountOf(Append(FuzzQ, x), {"job"})
      /\ CountOf(FuzzQ, {Null})' = CountOf(Append(FuzzQ, x), {Null})
  BY <1>1 DEF Null
<1>4. \A v \in {"wait", "end"} : Many(worker', Workers, v) = Many(worker, Workers, v)
  <2>1. CASE worker' = worker
    BY <2>1
  <2>2. ASSUME NEW w \in Workers, worker[w] = "asleep", worker' = [worker EXCEPT ![w] = "pop"]
        PROVE  \A v \in {"wait", "end"} : Many(worker', Workers, v) = Many(worker, Workers, v)
    <3>1. worker'[w] = "pop" /\ \A u \in Workers \ {w} : worker'[u] = worker[u]
      BY <2>2 DEF Typed
    <3> QED BY <2>2, <3>1, ManyExcept
  <2> QED BY <2>1, <2>2 DEF PushFuzz
<1>5. \A w \in Workers : /\ worker[w] = "none" <=> worker'[w] = "none"
                         /\ worker[w] = "wait" <=> worker'[w] = "wait"
                         /\ worker[w] = "end" <=> worker'[w] = "end"
  BY DEF PushFuzz, Typed
<1> QED BY <1>2, <1>3, <1>4, <1>5

\* A pop takes the first token of FuzzQ.
LEMMA PopFlow ==
  ASSUME Typed, NEW w \in Workers, PopFuzz(w), FuzzQ # <<>>, Workers' = Workers
  PROVE  IF Head(FuzzQ) = Null
           THEN /\ CountOf(FuzzQ, {"job"}) = CountOf(FuzzQ, {"job"})'
                /\ CountOf(FuzzQ, {Null}) = CountOf(FuzzQ, {Null})' + 1
                /\ Many(worker, Workers, "wait")' = Many(worker, Workers, "wait")
                /\ Many(worker, Workers, "end")' = Many(worker, Workers, "end") + 1
           ELSE /\ CountOf(FuzzQ, {"job"}) = CountOf(FuzzQ, {"job"})' + 1
                /\ CountOf(FuzzQ, {Null}) = CountOf(FuzzQ, {Null})'
                /\ Many(worker, Workers, "wait")' = Many(worker, Workers, "wait") + 1
                /\ Many(worker, Workers, "end")' = Many(worker, Workers, "end")
<1>1. /\ FuzzQ' = Tail(FuzzQ) /\ FuzzQ \in Seq({"job", Null}) /\ Null # "job" /\ Head(FuzzQ) \in {"job", Null}
      /\ worker[w] = "pop" /\ worker \in [Workers -> {"none", "pop", "asleep", "wait", "end"}]
      /\ worker' = [worker EXCEPT ![w] = IF Head(FuzzQ) = Null THEN "end" ELSE "wait"]
  BY HeadTailProperties DEF PopFuzz, Typed, Null
<1>2. /\ CountOf(FuzzQ, {"job"}) = CountOf(Tail(FuzzQ), {"job"}) + (IF Head(FuzzQ) \in {"job"} THEN 1 ELSE 0)
      /\ CountOf(FuzzQ, {Null}) = CountOf(Tail(FuzzQ), {Null}) + (IF Head(FuzzQ) \in {Null} THEN 1 ELSE 0)
      /\ CountOf(Tail(FuzzQ), {"job"}) \in Nat /\ CountOf(Tail(FuzzQ), {Null}) \in Nat
  <2>1. Tail(FuzzQ) \in Seq({"job", Null})
    BY <1>1, HeadTailProperties
  <2> QED BY <1>1, <2>1, CountTail, CountFinite
<1>3. /\ CountOf(FuzzQ, {"job"})' = CountOf(Tail(FuzzQ), {"job"})
      /\ CountOf(FuzzQ, {Null})' = CountOf(Tail(FuzzQ), {Null})
  BY <1>1 DEF Null
<1>4. CASE Head(FuzzQ) = Null
  <2>1. worker'[w] = "end" /\ \A u \in Workers \ {w} : worker'[u] = worker[u]
    BY <1>1, <1>4
  <2>2. Many(worker', Workers, "end") = Many(worker, Workers, "end") + 1
        /\ Many(worker', Workers, "wait") = Many(worker, Workers, "wait")
    BY <1>1, <2>1, ManyExcept
  <2> QED BY <1>1, <1>2, <1>3, <1>4, <2>2
<1>5. CASE Head(FuzzQ) # Null
  <2>1. worker'[w] = "wait" /\ \A u \in Workers \ {w} : worker'[u] = worker[u]
    BY <1>1, <1>5
  <2>2. Many(worker', Workers, "end") = Many(worker, Workers, "end")
        /\ Many(worker', Workers, "wait") = Many(worker, Workers, "wait") + 1
    BY <1>1, <2>1, ManyExcept
  <2> QED BY <1>1, <1>2, <1>3, <1>5, <2>2
<1> QED BY <1>4, <1>5

\* The result of a child goes to MergeQ and its worker is free.
LEMMA ReturnFlow ==
  ASSUME Typed, NEW w \in Workers, PushResult(w), Workers' = Workers
  PROVE  /\ CountOf(MergeQ, Codes)' = CountOf(MergeQ, Codes) + 1
         /\ MergeQ \in Seq(Codes) => MergeQ' \in Seq(Codes)
         /\ Many(worker, Workers, "wait") = Many(worker, Workers, "wait")' + 1
         /\ Many(worker, Workers, "end")' = Many(worker, Workers, "end")
         /\ main' = (IF main = "asleep" THEN "pop" ELSE main)
         /\ worker[w] = "wait" /\ worker'[w] = "pop" /\ \A u \in Workers \ {w} : worker'[u] = worker[u]
         /\ UNCHANGED <<job, pushes, FuzzQ>>
<1>1. /\ child[w].code \in Codes /\ MergeQ' = Append(MergeQ, child[w].code) /\ MergeQ \in Seq(Codes \cup {Null})
      /\ worker[w] = "wait" /\ worker'[w] = "pop" /\ \A u \in Workers \ {w} : worker'[u] = worker[u]
      /\ main' = (IF main = "asleep" THEN "pop" ELSE main) /\ UNCHANGED <<job, pushes, FuzzQ>>
  BY DEF PushResult, PushMerge, Typed
<1>2. CountOf(Append(MergeQ, child[w].code), Codes) = CountOf(MergeQ, Codes) + 1
  BY <1>1, CountAppend
<1>3. CountOf(MergeQ, Codes)' = CountOf(MergeQ, Codes) + 1
  BY <1>1, <1>2 DEF Codes
<1>4. MergeQ \in Seq(Codes) => MergeQ' \in Seq(Codes)
  BY <1>1, AppendProperties
<1>5. Many(worker', Workers, "wait") + 1 = Many(worker, Workers, "wait")
      /\ Many(worker', Workers, "end") = Many(worker, Workers, "end")
  BY <1>1, ManyExcept
<1> QED BY <1>1, <1>3, <1>4, <1>5

\* Nothing is counted anew when the queues and the workers stay as they are.
LEMMA FlowSame ==
  ASSUME UNCHANGED <<FuzzQ, worker, Workers>>
  PROVE  /\ CountOf(FuzzQ, {"job"})' = CountOf(FuzzQ, {"job"}) /\ CountOf(FuzzQ, {Null})' = CountOf(FuzzQ, {Null})
         /\ Many(worker, Workers, "wait")' = Many(worker, Workers, "wait")
         /\ Many(worker, Workers, "end")' = Many(worker, Workers, "end")
         /\ MergeQ' = MergeQ => CountOf(MergeQ, Codes)' = CountOf(MergeQ, Codes)
BY DEF Null, Codes

LEMMA MainFlow ==
  ASSUME Typed, FlowInv, FuzzWithFork
  PROVE  FlowInv'
<1>0. NumJobs' = NumJobs /\ Workers' = Workers /\ NumJobs \in Nat \ {0} /\ pushes \in 0..NumJobs /\ Codes' = Codes
      /\ Workers = 1..NumJobs
  BY FlagsKept, ParametersKept, FlowTyped DEF Next, Codes, Typed, Workers
<1>1. CASE MergeEnds \/ Inserted \/ StopOnFailure \/ StopOnBudget \/ JoinThreads \/ ExitMain
  <2>1. UNCHANGED <<FuzzQ, worker, MergeQ, pushes>>
        /\ \/ main = "seeds" /\ main' \in {"spawn", "insertSeeds"}
           \/ main = "insertSeeds" /\ main' = "spawn"
           \/ main \in Merging /\ main' \in {"insert", "decide", "stop"}
           \/ main \in {"join", "clean"} /\ main' = "clean"
    BY <1>1 DEF MergeEnds, Inserted, StopOnFailure, StopOnBudget, JoinThreads, ExitMain, mainVars, queueVars, threadVars,
                Merging
  <2>2. Flow' = Flow
    BY <1>0, <2>1, FlowSame DEF Flow
  <2> QED BY <1>0, <2>1, <2>2 DEF FlowInv, NotStarted, Merging, Stopping
<1>2. CASE SpawnWorker
  <2>1. /\ main = "spawn" /\ main' = "spawned" /\ UNCHANGED <<FuzzQ, MergeQ, pushes>> /\ pushes + 1 \in Workers
        /\ worker[pushes + 1] = "none" /\ worker'[pushes + 1] = "pop"
        /\ \A u \in Workers \ {pushes + 1} : worker'[u] = worker[u]
    BY <1>0, <1>2 DEF SpawnWorker, queueVars, Typed, FlowInv, NotStarted
  <2>2. Many(worker', Workers, "wait") = Many(worker, Workers, "wait")
    BY <2>1, ManyExcept
  <2>3. Flow' = Flow
    BY <1>0, <2>1, <2>2 DEF Flow, Codes
  <2> QED BY <1>0, <2>1, <2>3 DEF FlowInv, NotStarted, Merging, Stopping
<1>3. CASE PushFirstJob
  <2>1. /\ PushFuzz("job") /\ main = "spawned" /\ pushes' = pushes + 1 /\ MergeQ' = MergeQ
        /\ main' = IF pushes + 1 = NumJobs THEN "pop" ELSE "spawn"
    BY <1>3 DEF PushFirstJob
  <2>2. Flow' = Flow + 1 /\ \A w \in Workers : worker[w] = "none" => worker'[w] = "none"
    BY <1>0, <2>1, PushFlow, FlowTyped DEF Flow, Codes
  <2> QED BY <1>0, <2>1, <2>2 DEF FlowInv, NotStarted, Merging, Stopping
<1>4. CASE PopMerge
  <2>1. main = "pop" /\ UNCHANGED <<FuzzQ, worker>> /\ MergeQ \in Seq(Codes)
    BY <1>4 DEF PopMerge, threadVars, FlowInv
  <2>2. CASE MergeQ = <<>>
    <3>1. main' = "asleep" /\ MergeQ' = MergeQ
      BY <1>4, <2>2 DEF PopMerge
    <3>2. Flow' = Flow
      BY <1>0, <2>1, <3>1, FlowSame DEF Flow
    <3> QED BY <1>0, <2>1, <3>1, <3>2 DEF FlowInv, Merging, Stopping
  <2>3. CASE MergeQ # <<>>
    <3>1. main' \in {"stop", "merge"} /\ MergeQ' = Tail(MergeQ)
      BY <1>4, <2>3 DEF PopMerge
    <3>2. MergeQ' \in Seq(Codes) /\ CountOf(MergeQ, Codes) = CountOf(Tail(MergeQ), Codes) + 1
      BY <2>1, <2>3, <3>1, HeadTailProperties, CountTail
    <3>3. CountOf(Tail(MergeQ), Codes) \in Nat
      BY <3>1, <3>2, CountFinite
    <3>4. Flow' + 1 = Flow
      BY <1>0, <2>1, <3>1, <3>2, <3>3, FlowSame, FlowTyped DEF Flow
    <3> QED BY <1>0, <2>1, <3>1, <3>2, <3>4 DEF FlowInv, Merging, Stopping
  <2> QED BY <2>2, <2>3
<1>5. CASE PushNewJob
  <2>1. PushFuzz("job") /\ main = "decide" /\ main' = "pop" /\ UNCHANGED <<MergeQ, pushes>>
    BY <1>5 DEF PushNewJob
  <2>2. Flow' = Flow + 1
    BY <1>0, <2>1, PushFlow, FlowTyped DEF Flow, Codes
  <2> QED BY <1>0, <2>1, <2>2 DEF FlowInv, Merging, Stopping
<1>6. CASE StopJobs
  <2>1. main = "stop" /\ ((main' = "stop" /\ MergeQ' = MergeQ) \/ main' = "join")
    BY <1>6 DEF StopJobs
  <2>2. Flow' = Flow
    <3>1. CASE pushes < NumJobs
      <4>1. PushFuzz(Null) /\ MergeQ' = MergeQ
        BY <1>6, <3>1 DEF StopJobs
      <4> QED BY <1>0, <4>1, PushFlow, FlowTyped DEF Flow, Codes, Null
    <3>2. CASE ~(pushes < NumJobs)
      <4>1. UNCHANGED <<FuzzQ, worker>> /\ MergeQ' = Append(MergeQ, Null) /\ Null \notin Codes
        BY <1>6, <3>2 DEF StopJobs, Null, Codes
      <4>2. CountOf(Append(MergeQ, Null), Codes) = CountOf(MergeQ, Codes) + 0
        BY <4>1, CountAppend DEF Typed
      <4>3. CountOf(MergeQ, Codes)' = CountOf(MergeQ, Codes)
        BY <4>1, <4>2, FlowTyped DEF Codes
      <4> QED BY <1>0, <4>1, <4>3, FlowSame DEF Flow
    <3> QED BY <3>1, <3>2
  <2> QED BY <1>0, <2>1, <2>2 DEF FlowInv, Merging, Stopping
<1> QED BY <1>1, <1>2, <1>3, <1>4, <1>5, <1>6 DEF FuzzWithFork

LEMMA WorkerFlow ==
  ASSUME Typed, FlowInv, NEW w \in Workers, WorkerThread(w)
  PROVE  FlowInv'
<1>0. NumJobs' = NumJobs /\ Workers' = Workers /\ NumJobs \in Nat \ {0} /\ Codes' = Codes
  BY FlagsKept, ParametersKept, FlowTyped DEF Next, Codes
<1>1. CASE PopFuzz(w)
  <2>1. /\ UNCHANGED <<main, pushes, MergeQ>> /\ worker[w] = "pop"
        /\ \A u \in Workers : worker[u] = "none" => worker'[u] = "none"
    BY <1>1 DEF PopFuzz, mainVars, Typed
  <2>2. Flow' = Flow
    <3>1. CASE FuzzQ = <<>>
      <4>1. FuzzQ' = FuzzQ /\ worker'[w] = "asleep" /\ \A u \in Workers \ {w} : worker'[u] = worker[u]
        BY <1>1, <3>1 DEF PopFuzz, Typed
      <4>2. Many(worker', Workers, "wait") = Many(worker, Workers, "wait")
        BY <2>1, <4>1, ManyExcept
      <4> QED BY <1>0, <2>1, <4>1, <4>2 DEF Flow
    <3>2. CASE FuzzQ # <<>>
      <4>1. CountOf(FuzzQ, {"job"}) + Many(worker, Workers, "wait")
              = CountOf(FuzzQ, {"job"})' + Many(worker, Workers, "wait")'
        <5>1. CountOf(FuzzQ', {"job"}) \in Nat /\ Many(worker', Workers, "wait") \in Nat
          <6>1. FuzzQ' \in Seq({"job", Null})
            BY WorkerTyped DEF Typed, Null
          <6> QED BY <6>1, CountFinite, ManyFinite, FlowTyped
        <5> QED BY <1>0, <1>1, <3>2, <5>1, PopFlow, FlowTyped
      <4> QED BY <1>0, <2>1, <4>1, FlowTyped DEF Flow
    <3> QED BY <3>1, <3>2
  <2> QED BY <1>0, <2>1, <2>2 DEF FlowInv, NotStarted, Merging, Stopping
<1>2. CASE PushResult(w)
  <2>1. /\ main' = (IF main = "asleep" THEN "pop" ELSE main)
        /\ pushes' = pushes
        /\ MergeQ \in Seq(Codes) => MergeQ' \in Seq(Codes)
        /\ \A u \in Workers : worker[u] = "none" => worker'[u] = "none"
    BY <1>0, <1>2, ReturnFlow
  <2>2. Flow' = Flow
    <3>1. Many(worker', Workers, "wait") \in Nat
      BY ManyFinite, FlowTyped
    <3> QED BY <1>0, <1>2, <3>1, ReturnFlow, FlowTyped DEF Flow
  <2> QED BY <1>0, <2>1, <2>2 DEF FlowInv, NotStarted, Merging, Stopping
<1> QED BY <1>1, <1>2 DEF WorkerThread

\* The steps of the other processes do not touch the jobs.
LEMMA OthersKeep ==
  ASSUME Typed, \/ MergeCrashes \/ MergeStores \/ startPeriodicHandler \/ Environment \/ Ended \/ UNCHANGED vars
                \/ \E w \in Workers : Child(w)
  PROVE  /\ UNCHANGED <<mainVars, queueVars, worker, NumJobs, Workers>>
         /\ \A w \in Workers : child'[w].pc = "none" <=> child[w].pc = "none"
<1>1. NumJobs' = NumJobs /\ Workers' = Workers
  BY FlagsKept, ParametersKept DEF Next
<1>2. CASE MergeCrashes \/ MergeStores
  BY <1>1, <1>2, MergeProcessTyped
<1>3. CASE startPeriodicHandler
  BY <1>1, <1>3, PeriodicTyped DEF threadVars
<1>4. CASE Environment
  BY <1>1, <1>4, EnvironmentTyped
<1>5. CASE Ended \/ UNCHANGED vars
  BY <1>1, <1>5 DEF Ended, vars, threadVars
<1>6. CASE \E w \in Workers : Child(w)
  BY <1>1, <1>6, ChildTyped
<1> QED BY <1>2, <1>3, <1>4, <1>5, <1>6

LEMMA FlowInit ==
  ASSUME Init, Typed
  PROVE  FlowInv
<1>1. main = "seeds" /\ pushes = 0 /\ FuzzQ = <<>> /\ MergeQ = <<>> /\ MergeQ \in Seq(Codes)
      /\ \A w \in Workers : worker[w] = "none"
  BY EmptySeq DEF Init
<1>2. CountOf(FuzzQ, {"job"}) = 0 /\ CountOf(MergeQ, Codes) = 0
  BY <1>1, CountEmpty DEF Typed
<1>3. Many(worker, Workers, "wait") = 0
  BY <1>1, ManyFinite, FlowTyped
<1> QED BY <1>1, <1>2, <1>3 DEF FlowInv, Flow, NotStarted, Merging, Stopping

LEMMA FlowStep ==
  ASSUME Typed, FlowInv, [Next]_vars
  PROVE  FlowInv'
<1>1. CASE \/ MergeCrashes \/ MergeStores \/ startPeriodicHandler \/ Environment \/ Ended \/ UNCHANGED vars
           \/ \E w \in Workers : Child(w)
  <2>1. UNCHANGED <<main, pushes, FuzzQ, MergeQ, worker, NumJobs, Workers>>
    BY <1>1, OthersKeep DEF mainVars, queueVars
  <2>2. Flow' = Flow
    BY <2>1, FlowSame DEF Flow
  <2> QED BY <2>1, <2>2 DEF FlowInv, NotStarted, Merging, Stopping, Codes
<1> QED BY <1>1, MainFlow, WorkerFlow DEF Next
-----------------------------------------------------------------------------
(* The end of the run.  StopJobs puts one Null per worker behind the jobs that *)
(* are left; each of them ends one worker.                                     *)

NullsLast == \A i, j \in DOMAIN FuzzQ : i < j /\ FuzzQ[i] = Null => FuzzQ[j] = Null

StopInv ==
  /\ \A w \in Workers : worker[w] = "wait" <=> child[w].pc # "none"
  /\ main \in Merging => pushes = 0
  /\ CountOf(FuzzQ, {Null}) + Many(worker, Workers, "end")
       = IF main = "stop" THEN pushes ELSE IF main \in {"join", "clean"} THEN NumJobs ELSE 0
  /\ NullsLast
  /\ (\E w \in Workers : worker[w] = "end") => \A i \in DOMAIN FuzzQ : FuzzQ[i] = Null
  /\ main = "clean" => \A w \in Workers : worker[w] = "end"

LEMMA StopInit ==
  ASSUME Init, Typed
  PROVE  StopInv
<1>1. main = "seeds" /\ FuzzQ = <<>> /\ \A w \in Workers : worker[w] = "none" /\ child[w].pc = "none"
  BY DEF Init, NoChild
<1>2. DOMAIN FuzzQ = {}
  <2>1. Len(FuzzQ) = 0 /\ DOMAIN FuzzQ = 1..Len(FuzzQ)
    BY <1>1, LenProperties DEF Typed
  <2> QED BY <2>1
<1>3. CountOf(FuzzQ, {Null}) = 0
  BY <1>2, CountEmpty DEF Typed
<1>4. Many(worker, Workers, "end") = 0
  BY <1>1, ManyFinite, FlowTyped
<1> QED BY <1>1, <1>2, <1>3, <1>4 DEF StopInv, NullsLast, Merging

\* Before StopJobs there is no Null, and no worker has ended.
LEMMA NoNullYet ==
  ASSUME Typed, StopInv, main \notin Stopping
  PROVE  (\A i \in DOMAIN FuzzQ : FuzzQ[i] # Null) /\ \A w \in Workers : worker[w] # "end"
<1>1. CountOf(FuzzQ, {Null}) = 0 /\ Many(worker, Workers, "end") = 0
  BY FlowTyped DEF StopInv, Stopping
<1>2. \A i \in DOMAIN FuzzQ : FuzzQ[i] \notin {Null}
  BY <1>1, CountEmpty DEF Typed
<1> QED BY <1>1, <1>2, ManyFinite, FlowTyped

\* A push behind the Nulls is a Null, unless there are none.
LEMMA PushKeepsOrder ==
  ASSUME Typed, StopInv, NEW x \in {"job", Null}, PushFuzz(x), Workers' = Workers, UNCHANGED child,
         x = "job" => main \notin Stopping
  PROVE  /\ NullsLast'
         /\ (\E w \in Workers : worker'[w] = "end") => \A i \in DOMAIN FuzzQ' : FuzzQ'[i] = Null
         /\ \A w \in Workers : worker'[w] = "wait" <=> child'[w].pc # "none"
<1> DEFINE n == Len(FuzzQ) + 1
<1>1. /\ Len(FuzzQ) \in Nat /\ DOMAIN FuzzQ = 1..Len(FuzzQ) /\ DOMAIN FuzzQ' = 1..n
      /\ \A i \in 1..Len(FuzzQ) : FuzzQ'[i] = FuzzQ[i]
      /\ FuzzQ'[n] = x
  BY AppendProperties, LenProperties DEF PushFuzz, Typed
<1>2. x = "job" => (\A i \in DOMAIN FuzzQ : FuzzQ[i] # Null) /\ \A w \in Workers : worker[w] # "end"
  BY NoNullYet
<1>3. \A w \in Workers : /\ worker[w] = "wait" <=> worker'[w] = "wait"
                         /\ worker[w] = "end" <=> worker'[w] = "end"
  BY PushFlow
<1>4. NullsLast'
  <2> SUFFICES ASSUME NEW i \in 1..n, NEW j \in 1..n, i < j, FuzzQ'[i] = Null
               PROVE  FuzzQ'[j] = Null
    BY <1>1 DEF NullsLast, Null
  <2>1. i \in 1..Len(FuzzQ) /\ FuzzQ[i] = Null /\ x = Null
    BY <1>1, <1>2
  <2>2. CASE j = n
    BY <1>1, <2>1, <2>2
  <2>3. CASE j # n
    BY <1>1, <2>1, <2>3 DEF StopInv, NullsLast
  <2> QED BY <2>2, <2>3
<1>5. (\E w \in Workers : worker'[w] = "end") => \A i \in DOMAIN FuzzQ' : FuzzQ'[i] = Null
  <2> HAVE \E w \in Workers : worker'[w] = "end"
  <2>1. x = Null /\ \A i \in DOMAIN FuzzQ : FuzzQ[i] = Null
    BY <1>2, <1>3 DEF StopInv
  <2> QED BY <1>1, <2>1
<1> QED BY <1>3, <1>4, <1>5 DEF StopInv

LEMMA MainStop ==
  ASSUME Typed, FlowInv, StopInv, FuzzWithFork
  PROVE  StopInv'
<1>0. NumJobs' = NumJobs /\ Workers' = Workers /\ NumJobs \in Nat \ {0} /\ pushes \in 0..NumJobs /\ child' = child
  <2>1. child' = child
    BY DEF FuzzWithFork, MergeEnds, Inserted, SpawnWorker, PushFirstJob, PopMerge, PushNewJob, StopOnFailure,
           StopOnBudget, StopJobs, JoinThreads, ExitMain, threadVars
  <2> QED BY <2>1, FlagsKept, ParametersKept, FlowTyped DEF Next, Typed
<1>1. CASE MergeEnds \/ Inserted \/ StopOnFailure \/ StopOnBudget \/ PopMerge
  <2>1. /\ UNCHANGED <<FuzzQ, worker>>
        /\ \/ main \in {"seeds", "insertSeeds"} /\ main' \in {"spawn", "insertSeeds"}
           \/ main \in Merging /\ main' \in Merging \cup {"stop"} /\ pushes' = pushes
           \/ main = "pop" /\ main' \in {"asleep"} \cup Merging \cup {"stop"} /\ (main' # "asleep" => pushes' = 0)
    BY <1>1 DEF MergeEnds, Inserted, StopOnFailure, StopOnBudget, PopMerge, mainVars, queueVars, threadVars, Merging
  <2>2. CountOf(FuzzQ, {Null})' = CountOf(FuzzQ, {Null}) /\ Many(worker, Workers, "end")' = Many(worker, Workers, "end")
        /\ NullsLast' = NullsLast
    BY <1>0, <2>1, FlowSame DEF NullsLast, Null
  <2>3. main' \notin {"join", "clean"} /\ main \notin Stopping
    BY <2>1 DEF Merging, Stopping
  <2>4. (main' = "stop" => pushes' = 0) /\ (main' \in Merging => pushes' = 0)
    BY <2>1 DEF StopInv, Merging
  <2> QED BY <1>0, <2>1, <2>2, <2>3, <2>4 DEF StopInv, Stopping, Null
<1>2. CASE SpawnWorker
  <2>1. /\ main = "spawn" /\ main' = "spawned" /\ FuzzQ' = FuzzQ /\ pushes + 1 \in Workers
        /\ worker[pushes + 1] = "none" /\ worker'[pushes + 1] = "pop"
        /\ \A u \in Workers \ {pushes + 1} : worker'[u] = worker[u]
    BY <1>0, <1>2 DEF SpawnWorker, queueVars, Typed, FlowInv, NotStarted, Workers
  <2>2. Many(worker', Workers, "end") = Many(worker, Workers, "end")
    BY <2>1, ManyExcept
  <2>3. CountOf(FuzzQ, {Null})' = CountOf(FuzzQ, {Null}) /\ NullsLast' = NullsLast
    BY <2>1 DEF NullsLast, Null
  <2> QED BY <1>0, <2>1, <2>2, <2>3 DEF StopInv, Merging, Null
<1>3. CASE PushFirstJob \/ PushNewJob
  <2>1. PushFuzz("job") /\ main \in {"spawned", "decide"} /\ main' \in {"pop", "spawn"}
    BY <1>3 DEF PushFirstJob, PushNewJob
  <2>2. CountOf(FuzzQ, {Null})' = CountOf(FuzzQ, {Null}) /\ Many(worker, Workers, "end")' = Many(worker, Workers, "end")
    BY <1>0, <2>1, PushFlow, FlowTyped DEF Null
  <2>3. /\ NullsLast'
        /\ (\E w \in Workers : worker'[w] = "end") => \A i \in DOMAIN FuzzQ' : FuzzQ'[i] = Null
        /\ \A w \in Workers : worker'[w] = "wait" <=> child'[w].pc # "none"
    BY <1>0, <2>1, PushKeepsOrder DEF Stopping
  <2> QED BY <1>0, <2>1, <2>2, <2>3 DEF StopInv, Merging, Null
<1>4. CASE StopJobs
  <2>1. CASE pushes < NumJobs
    <3>1. PushFuzz(Null) /\ main = "stop" /\ main' = "stop" /\ pushes' = pushes + 1
      BY <1>4, <2>1 DEF StopJobs
    <3>2. CountOf(FuzzQ, {Null})' = CountOf(FuzzQ, {Null}) + 1 /\ Many(worker, Workers, "end")' = Many(worker, Workers, "end")
      BY <1>0, <3>1, PushFlow
    <3>3. /\ NullsLast'
          /\ (\E w \in Workers : worker'[w] = "end") => \A i \in DOMAIN FuzzQ' : FuzzQ'[i] = Null
          /\ \A w \in Workers : worker'[w] = "wait" <=> child'[w].pc # "none"
      BY <1>0, <3>1, PushKeepsOrder DEF Null
    <3> QED BY <1>0, <3>1, <3>2, <3>3, FlowTyped DEF StopInv, Merging, Null
  <2>2. CASE ~(pushes < NumJobs)
    <3>1. main = "stop" /\ main' = "join" /\ UNCHANGED <<FuzzQ, worker>> /\ pushes = NumJobs
      BY <1>0, <1>4, <2>2 DEF StopJobs
    <3>2. CountOf(FuzzQ, {Null})' = CountOf(FuzzQ, {Null}) /\ Many(worker, Workers, "end")' = Many(worker, Workers, "end")
          /\ NullsLast' = NullsLast
      BY <1>0, <3>1, FlowSame DEF NullsLast, Null
    <3> QED BY <1>0, <3>1, <3>2 DEF StopInv, Merging, Null
  <2> QED BY <2>1, <2>2
<1>5. CASE JoinThreads \/ ExitMain
  <2>1. UNCHANGED <<FuzzQ, worker>> /\ main \in {"join", "clean"} /\ main' = "clean"
        /\ (main = "clean" \/ \A w \in Workers : worker[w] = "end")
    BY <1>5 DEF JoinThreads, ExitMain, mainVars, queueVars, threadVars
  <2>2. CountOf(FuzzQ, {Null})' = CountOf(FuzzQ, {Null}) /\ Many(worker, Workers, "end")' = Many(worker, Workers, "end")
        /\ NullsLast' = NullsLast
    BY <1>0, <2>1, FlowSame DEF NullsLast, Null
  <2> QED BY <1>0, <2>1, <2>2 DEF StopInv, Merging, Null
<1> QED BY <1>1, <1>2, <1>3, <1>4, <1>5 DEF FuzzWithFork

LEMMA WorkerStop ==
  ASSUME Typed, FlowInv, StopInv, NEW w \in Workers, WorkerThread(w)
  PROVE  StopInv'
<1>0. NumJobs' = NumJobs /\ Workers' = Workers /\ NumJobs \in Nat \ {0} /\ Null' = Null
  BY FlagsKept, ParametersKept, FlowTyped DEF Next, Null
<1>1. CASE PopFuzz(w)
  <2>1. UNCHANGED <<main, pushes>> /\ worker[w] = "pop" /\ child[w].pc = "none"
        /\ \A u \in Workers \ {w} : worker'[u] = worker[u] /\ child'[u] = child[u]
    BY <1>1 DEF PopFuzz, mainVars, Typed, StopInv
  <2>2. main # "clean"
    BY <2>1 DEF StopInv
  <2>3. CASE FuzzQ = <<>>
    <3>1. FuzzQ' = FuzzQ /\ worker'[w] = "asleep" /\ child' = child
      BY <1>1, <2>3 DEF PopFuzz, Typed
    <3>2. Many(worker', Workers, "end") = Many(worker, Workers, "end")
      BY <2>1, <3>1, ManyExcept
    <3> QED BY <1>0, <2>1, <2>2, <3>1, <3>2 DEF StopInv, NullsLast, Merging
  <2>4. CASE FuzzQ # <<>>
    <3>1. /\ DOMAIN FuzzQ = 1..Len(FuzzQ) /\ DOMAIN FuzzQ' = 1..(Len(FuzzQ) - 1) /\ Len(FuzzQ) \in Nat \ {0}
          /\ \A i \in 1..(Len(FuzzQ) - 1) : FuzzQ'[i] = FuzzQ[i + 1]
          /\ Head(FuzzQ) = FuzzQ[1]
      BY <1>1, <2>4, HeadTailProperties, LenProperties, EmptySeq DEF PopFuzz, Typed
    <3>2. CountOf(FuzzQ', {Null}) \in Nat /\ Many(worker', Workers, "end") \in Nat
      <4>1. FuzzQ' \in Seq({"job", Null})
        BY WorkerTyped DEF Typed, Null
      <4> QED BY <4>1, CountFinite, ManyFinite, FlowTyped
    <3>3. CountOf(FuzzQ, {Null}) + Many(worker, Workers, "end") = CountOf(FuzzQ, {Null})' + Many(worker, Workers, "end")'
      BY <1>0, <1>1, <2>4, <3>2, PopFlow, FlowTyped DEF Null
    <3>4. NullsLast'
      <4> SUFFICES ASSUME NEW i \in 1..(Len(FuzzQ) - 1), NEW j \in 1..(Len(FuzzQ) - 1), i < j, FuzzQ'[i] = Null
                   PROVE  FuzzQ'[j] = Null
        BY <1>0, <3>1 DEF NullsLast
      <4>1. FuzzQ[i + 1] = Null /\ i + 1 \in DOMAIN FuzzQ /\ j + 1 \in DOMAIN FuzzQ /\ i + 1 < j + 1
        BY <3>1
      <4> QED BY <3>1, <4>1 DEF StopInv, NullsLast
    <3>5. CASE Head(FuzzQ) = Null
      <4>1. worker'[w] = "end" /\ child' = child
        BY <1>1, <2>4, <3>5 DEF PopFuzz, Typed
      <4>2. \A i \in DOMAIN FuzzQ : FuzzQ[i] = Null
        BY <3>1, <3>5 DEF StopInv, NullsLast
      <4>3. \A i \in DOMAIN FuzzQ' : FuzzQ'[i] = Null
        BY <3>1, <4>2
      <4> QED BY <1>0, <2>1, <2>2, <3>3, <3>4, <4>1, <4>3 DEF StopInv, Merging
    <3>6. CASE Head(FuzzQ) # Null
      <4>1. worker'[w] = "wait" /\ child'[w].pc = "run"
        BY <1>1, <2>4, <3>6 DEF PopFuzz, Typed, NoChild
      <4>2. \A u \in Workers : worker'[u] # "end"
        BY <2>1, <3>1, <3>6, <4>1 DEF StopInv
      <4> QED BY <1>0, <2>1, <2>2, <3>3, <3>4, <4>1, <4>2 DEF StopInv, Merging
    <3> QED BY <3>5, <3>6
  <2> QED BY <2>3, <2>4
<1>2. CASE PushResult(w)
  <2>1. /\ main' = (IF main = "asleep" THEN "pop" ELSE main) /\ UNCHANGED <<pushes, FuzzQ>>
        /\ worker[w] = "wait" /\ worker'[w] = "pop" /\ \A u \in Workers \ {w} : worker'[u] = worker[u]
        /\ Many(worker, Workers, "end")' = Many(worker, Workers, "end")
    BY <1>0, <1>2, ReturnFlow
  <2>2. child'[w].pc = "none" /\ \A u \in Workers \ {w} : child'[u] = child[u]
    BY <1>2 DEF PushResult, Typed, NoChild
  <2>3. main # "clean"
    BY <2>1 DEF StopInv
  <2> QED BY <1>0, <2>1, <2>2, <2>3 DEF StopInv, NullsLast, Merging
<1> QED BY <1>1, <1>2 DEF WorkerThread

LEMMA StopStep ==
  ASSUME Typed, FlowInv, StopInv, [Next]_vars
  PROVE  StopInv'
<1>1. CASE \/ MergeCrashes \/ MergeStores \/ startPeriodicHandler \/ Environment \/ Ended \/ UNCHANGED vars
           \/ \E w \in Workers : Child(w)
  <2>1. UNCHANGED <<main, pushes, FuzzQ, worker, NumJobs, Workers>>
        /\ \A w \in Workers : child'[w].pc = "none" <=> child[w].pc = "none"
    BY <1>1, OthersKeep DEF mainVars, queueVars
  <2>2. CountOf(FuzzQ, {Null})' = CountOf(FuzzQ, {Null}) /\ Many(worker, Workers, "end")' = Many(worker, Workers, "end")
        /\ NullsLast' = NullsLast
    BY <2>1, FlowSame DEF NullsLast, Null
  <2> QED BY <2>1, <2>2 DEF StopInv, Merging, Null
<1> QED BY <1>1, MainStop, WorkerStop DEF Next

LEMMA FlowGivesJobs ==
  ASSUME Typed, FlowInv
  PROVE  JobsConserved
<1>1. Cardinality({i \in DOMAIN FuzzQ : FuzzQ[i] = "job"}) = CountOf(FuzzQ, {"job"})
  <2>1. {i \in DOMAIN FuzzQ : FuzzQ[i] = "job"} = {i \in DOMAIN FuzzQ : FuzzQ[i] \in {"job"}}
    OBVIOUS
  <2> QED BY <2>1 DEF CountOf
<1>2. MergeQ \in Seq(Codes) => Cardinality({i \in DOMAIN MergeQ : MergeQ[i] # Null}) = CountOf(MergeQ, Codes)
  <2> HAVE MergeQ \in Seq(Codes)
  <2>1. {i \in DOMAIN MergeQ : MergeQ[i] # Null} = {i \in DOMAIN MergeQ : MergeQ[i] \in Codes}
    BY DEF Codes, Null
  <2> QED BY <2>1 DEF CountOf
<1>3. Cardinality({w \in Workers : worker[w] = "wait"}) = Many(worker, Workers, "wait")
  BY DEF Many
<1> QED BY <1>1, <1>2, <1>3, FlowTyped DEF JobsConserved, Jobs, FlowInv, Flow, Merging

LEMMA StopGivesQuiet ==
  ASSUME Typed, StopInv
  PROVE  QuietCleanup
<1> SUFFICES ASSUME main = "clean"
             PROVE  FuzzQ = <<>> /\ \A w \in Workers : worker[w] = "end" /\ child[w].pc = "none"
  BY DEF QuietCleanup
<1>1. \A w \in Workers : worker[w] = "end" /\ child[w].pc = "none"
  BY DEF StopInv
<1>2. Many(worker, Workers, "end") = NumJobs
  <2>1. {w \in Workers : worker[w] = "end"} = Workers
    BY <1>1
  <2> QED BY <2>1, FlowTyped DEF Many
<1>3. CountOf(FuzzQ, {Null}) = 0
  BY <1>2, FlowTyped DEF StopInv
<1>4. \A i \in DOMAIN FuzzQ : FuzzQ[i] = Null
  <2>1. 1 \in Workers
    BY FlowTyped DEF Workers
  <2> QED BY <1>1, <2>1 DEF StopInv
<1>5. \A i \in DOMAIN FuzzQ : FuzzQ[i] \notin {Null}
  BY <1>3, CountEmpty DEF Typed
<1>6. DOMAIN FuzzQ = {} /\ DOMAIN FuzzQ = 1..Len(FuzzQ) /\ Len(FuzzQ) \in Nat
  BY <1>4, <1>5, LenProperties DEF Typed
<1>7. FuzzQ = <<>>
  BY <1>6, EmptySeq DEF Typed
<1> QED BY <1>1, <1>7

\* No job is lost or doubled on its way through the queues, the workers and the main
\* thread, for any number of jobs (FuzzWithFork, WorkerThread).
THEOREM JobsKept == Spec => []JobsConserved
<1>1. Init => Typed /\ FlowInv
  BY TypedInit, FlowInit
<1>2. Typed /\ FlowInv /\ [Next]_vars => Typed' /\ FlowInv'
  BY TypedStep, FlowStep
<1>3. Typed /\ FlowInv => JobsConserved
  BY FlowGivesJobs
<1> QED BY <1>1, <1>2, <1>3, PTL DEF Spec

\* Whenever the temporary directory is removed, for any number of jobs, every worker
\* has ended and no child is left (StopJobs, FuzzWithFork).
THEOREM CleanIsQuiet == Spec => []QuietCleanup
<1>1. Init => Typed /\ FlowInv /\ StopInv
  BY TypedInit, FlowInit, StopInit
<1>2. Typed /\ FlowInv /\ StopInv /\ [Next]_vars => Typed' /\ FlowInv' /\ StopInv'
  BY TypedStep, FlowStep, StopStep
<1>3. Typed /\ StopInv => QuietCleanup
  BY StopGivesQuiet
<1> QED BY <1>1, <1>2, <1>3, PTL DEF Spec
-----------------------------------------------------------------------------
(* The detached thread.  Each gain of coverage moves the time of the last seed *)
(* by at most a plateau and a period: either last is within the limit of the   *)
(* coverage the thread has copied, or the set has changed since it did, which  *)
(* the next check, one period later, sees.                                     *)

Limit(coverage, plateau) == coverage * (plateau + 1)

Unread ==
  /\ periodic.next = periodic.last + 1
  /\ Cov > periodic.cov \/ (Inserting /\ Cov = periodic.cov /\ now = periodic.last)

PeriodicInv ==
  /\ now <= periodic.next /\ periodic.next <= now + 1
  /\ periodic.first => /\ periodic.pc = "sleep" /\ now = 0 /\ periodic.next = 0
                       /\ periodic.cov = 0 /\ periodic.last = 0
  /\ ~periodic.first => periodic.last <= now /\ periodic.next <= periodic.last + Plateau
  /\ periodic.pc = "store" => now = periodic.last + Plateau /\ periodic.next = now
  /\ periodic.last > 0 => Cov > 0 \/ (Inserting /\ now = periodic.last)
  /\ periodic.cov <= Cov \/ (periodic.cov = Cov + 1 /\ Inserting /\ periodic.next = now + 1)
  /\ \/ periodic.last <= Limit(periodic.cov, Plateau)
     \/ periodic.pc = "sleep" /\ periodic.last <= Limit(periodic.cov, Plateau) + Plateau /\ Unread

ClockInv ==
  box = "up" => /\ periodic.pc = "off" <=> ~Measure
                /\ Cov <= MaxCov /\ (Inserting => Cov < MaxCov)
                /\ Measure => PeriodicInv

LEMMA LimitGrows ==
  ASSUME NEW c \in Nat, NEW d \in Nat, NEW p \in Nat
  PROVE  /\ Limit(c, p) \in Nat /\ Limit(0, p) = 0
         /\ Limit(c + 1, p) = Limit(c, p) + p + 1
         /\ c < d => Limit(c, p) + p + 1 <= Limit(d, p)
<1>1. /\ c * (p + 1) \in Nat /\ 0 * (p + 1) = 0
      /\ (c + 1) * (p + 1) = c * (p + 1) + p + 1
  OBVIOUS
<1>2. ASSUME c < d
      PROVE  c * (p + 1) + p + 1 <= d * (p + 1)
  <2>1. PICK k \in Nat : d = c + 1 + k
    <3>1. d - c - 1 \in Nat /\ d = c + 1 + (d - c - 1)
      BY <1>2
    <3> QED BY <3>1
  <2>2. d * (p + 1) = c * (p + 1) + p + 1 + k * (p + 1) /\ k * (p + 1) \in Nat
    BY <2>1
  <2> QED BY <1>1, <2>2
<1> QED BY <1>1, <1>2 DEF Limit

LEMMA ClockTyped ==
  ASSUME Typed
  PROVE  /\ Cov \in Nat /\ now \in Nat /\ MaxCov \in Nat /\ Plateau \in Nat \ {0} /\ Measure \in BOOLEAN
         /\ periodic \in [pc : {"off", "sleep", "store"}, first : BOOLEAN, cov : Nat, last : Nat, next : Nat]
BY FlagsTyped DEF Typed

LEMMA ClockInit ==
  ASSUME Init, Typed
  PROVE  ClockInv
<1>1. /\ main = "seeds" /\ Cov = 0 /\ now = 0
      /\ periodic = [pc |-> IF Measure THEN "sleep" ELSE "off", first |-> TRUE, cov |-> 0, last |-> 0, next |-> 0]
  BY DEF Init
<1>2. Limit(0, Plateau) = 0
  BY LimitGrows, ClockTyped
<1> QED BY <1>1, <1>2, ClockTyped DEF ClockInv, PeriodicInv, Inserting

LEMMA ClockKept ==
  ASSUME Typed, ClockInv, flags' = flags, UNCHANGED <<Cov, periodic, now>>, Inserting' = Inserting,
         box' = "up" => box = "up"
  PROVE  ClockInv'
<1>1. Measure' = Measure /\ Plateau' = Plateau /\ MaxCov' = MaxCov
  BY ParametersKept
<1>2. PeriodicInv' = PeriodicInv
  BY <1>1 DEF PeriodicInv, Unread
<1> QED BY <1>1, <1>2 DEF ClockInv

LEMMA TickClock ==
  ASSUME Typed, ClockInv, Tick
  PROVE  ClockInv'
<1>1. flags' = flags /\ UNCHANGED <<main, Cov, periodic, box>> /\ now' = now + 1 /\ box = "up" /\ ~Inserting
      /\ periodic.pc # "store" /\ ~(periodic.pc = "sleep" /\ periodic.next <= now)
  BY DEF Tick, Inserting, Due, mainVars
<1>2. Measure' = Measure /\ Plateau' = Plateau /\ MaxCov' = MaxCov /\ ~Inserting'
  BY <1>1, ParametersKept DEF Inserting
<1>3. Measure => PeriodicInv'
  BY <1>1, <1>2, ClockTyped DEF ClockInv, PeriodicInv, Unread
<1> QED BY <1>1, <1>2, <1>3 DEF ClockInv

\* The insertion begins only below the bound, and adds one.
LEMMA InsertClock ==
  ASSUME Typed, ClockInv, MergeEnds \/ Inserted
  PROVE  ClockInv'
<1>1. flags' = flags /\ UNCHANGED <<now, periodic, box>> /\ box = "up"
  BY DEF MergeEnds, Inserted, clockVars
<1>2. Measure' = Measure /\ Plateau' = Plateau /\ MaxCov' = MaxCov
  BY <1>1, ParametersKept
<1>3. CASE MergeEnds
  <2>1. Cov' = Cov /\ ~Inserting /\ (Inserting' => Cov < MaxCov)
    BY <1>3 DEF MergeEnds, Inserting
  <2>2. Measure => PeriodicInv'
    BY <1>1, <1>2, <2>1, ClockTyped DEF ClockInv, PeriodicInv, Unread
  <2> QED BY <1>1, <1>2, <2>1, <2>2 DEF ClockInv
<1>4. CASE Inserted
  <2>1. Cov' = Cov + 1 /\ Inserting /\ ~Inserting'
    BY <1>4 DEF Inserted, Inserting
  <2>2. Measure => PeriodicInv'
    BY <1>1, <1>2, <2>1, ClockTyped DEF ClockInv, PeriodicInv, Unread
  <2> QED BY <1>1, <1>2, <2>1, <2>2, ClockTyped DEF ClockInv
<1> QED BY <1>3, <1>4

LEMMA CheckClock ==
  ASSUME Typed, ClockInv, CollectCoverage \/ CoverageChanged \/ CoverageSame
  PROVE  ClockInv'
<1>0. /\ flags' = flags /\ UNCHANGED <<main, Cov, now, box>> /\ box = "up" /\ periodic.pc = "sleep" /\ periodic.next <= now
      /\ CovSeen = IF Inserting THEN {Cov, Cov + 1} ELSE {Cov}
  BY DEF CollectCoverage, CoverageChanged, CoverageSame, Due, mainVars, clockVars, CovSeen, Inserting
<1>1. \A c \in CovSeen : c \in Nat /\ Cov <= c /\ (c # Cov => Inserting)
  BY <1>0, ClockTyped
<1>2. Measure' = Measure /\ Plateau' = Plateau /\ MaxCov' = MaxCov /\ Inserting' = Inserting
  BY <1>0, ParametersKept DEF Inserting
<1>3. Measure /\ PeriodicInv /\ periodic.next = now /\ (~periodic.first => periodic.cov <= Cov)
  BY <1>0, ClockTyped DEF ClockInv, PeriodicInv
<1>4. periodic'.pc # "off" /\ PeriodicInv'
  <2>1. CASE CollectCoverage
    <3>1. PICK c \in CovSeen :
            periodic' = [periodic EXCEPT !.first = FALSE, !.cov = c, !.last = now, !.next = now + 1]
      BY <2>1 DEF CollectCoverage
    <3>2. now = 0
      BY <1>3, <2>1 DEF CollectCoverage, PeriodicInv
    <3>3. c \in Nat /\ Limit(c, Plateau) \in Nat
      BY <1>1, LimitGrows, ClockTyped
    <3> QED BY <1>0, <1>2, <1>1, <3>1, <3>2, <3>3, ClockTyped DEF PeriodicInv, Unread
  <2>2. CASE CoverageChanged
    <3>1. PICK c \in CovSeen \ {periodic.cov}, copied \in CovSeen :
            periodic' = [periodic EXCEPT !.cov = copied, !.last = now, !.next = now + 1]
      BY <2>2 DEF CoverageChanged
    <3>2. ~periodic.first
      BY <2>2 DEF CoverageChanged
    <3>3. periodic.cov <= Cov /\ Cov <= copied /\ periodic.cov <= copied /\ copied \in Nat
      BY <1>1, <1>3, <3>2, ClockTyped
    <3>4. /\ Limit(copied, Plateau) \in Nat /\ Limit(periodic.cov, Plateau) \in Nat
          /\ periodic.cov < copied => Limit(periodic.cov, Plateau) + Plateau + 1 <= Limit(copied, Plateau)
      BY <3>3, LimitGrows, ClockTyped
    <3>5. periodic.cov = copied => Inserting /\ copied = Cov
      BY <1>1, <3>3, ClockTyped
    <3>6. \/ now <= Limit(copied, Plateau)
          \/ now <= Limit(copied, Plateau) + Plateau /\ Inserting /\ copied = Cov
      <4>1. CASE periodic.last <= Limit(periodic.cov, Plateau)
        <5>1. now <= Limit(periodic.cov, Plateau) + Plateau
          BY <1>3, <3>3, <3>4, <4>1, ClockTyped DEF PeriodicInv
        <5> QED BY <3>3, <3>4, <3>5, <5>1, ClockTyped
      <4>2. CASE periodic.last <= Limit(periodic.cov, Plateau) + Plateau /\ Unread
        <5>1. now = periodic.last + 1 /\ Cov > periodic.cov /\ Cov <= copied
          BY <1>0, <1>3, <3>1, <4>2, ClockTyped DEF Unread
        <5> QED BY <3>3, <3>4, <4>2, <5>1, ClockTyped
      <4> QED BY <1>3, <4>1, <4>2 DEF PeriodicInv
    <3>7. Cov > 0 \/ Inserting
      BY <1>1, <3>3, ClockTyped
    <3>8. periodic'.pc = "sleep" /\ ~periodic'.first /\ periodic'.cov = copied /\ periodic'.last = now
          /\ periodic'.next = now + 1
      BY <1>0, <3>1, <3>2, ClockTyped
    <3>9. copied = Cov \/ (copied = Cov + 1 /\ Inserting)
      BY <1>0, <3>1
    <3> QED BY <1>0, <1>2, <3>3, <3>4, <3>6, <3>7, <3>8, <3>9, ClockTyped DEF PeriodicInv, Unread
  <2>3. CASE CoverageSame
    <3>1. ~periodic.first /\ periodic.cov \in CovSeen
          /\ IF now - periodic.last >= Plateau THEN periodic' = [periodic EXCEPT !.pc = "store"]
             ELSE periodic' = [periodic EXCEPT !.next = now + 1]
      BY <2>3 DEF CoverageSame
    <3>2. periodic.last <= Limit(periodic.cov, Plateau)
      BY <1>0, <1>3, <3>1, ClockTyped DEF PeriodicInv, Unread
    <3> QED BY <1>0, <1>2, <1>3, <3>1, <3>2, ClockTyped DEF PeriodicInv, Unread
  <2> QED BY <2>1, <2>2, <2>3
<1> QED BY <1>0, <1>2, <1>3, <1>4 DEF ClockInv

LEMMA ClockStep ==
  ASSUME Typed, ClockInv, [Next]_vars
  PROVE  ClockInv'
<1>1. CASE MergeEnds \/ Inserted
  BY <1>1, InsertClock
<1>2. CASE Tick
  BY <1>2, TickClock
<1>3. CASE CollectCoverage \/ CoverageChanged \/ CoverageSame
  BY <1>3, CheckClock
<1>4. CASE ExitMain \/ RaceFaults \/ PlateauExit \/ InterruptExit \/ Kill \/ ContainerEnds
  BY <1>4 DEF ExitMain, RaceFaults, PlateauExit, InterruptExit, Kill, ContainerEnds, ClockInv
<1>5. CASE SpawnWorker \/ PushFirstJob \/ PopMerge \/ PushNewJob \/ StopOnFailure \/ StopOnBudget \/ StopJobs \/ JoinThreads
  <2>1. flags' = flags /\ UNCHANGED <<Cov, periodic, now, box>> /\ ~Inserting /\ ~Inserting'
    BY <1>5 DEF SpawnWorker, PushFirstJob, PopMerge, PushNewJob, StopOnFailure, StopOnBudget, StopJobs, JoinThreads,
                clockVars, Inserting
  <2>2. Inserting' = Inserting
    BY <2>1 DEF Inserting
  <2> QED BY <2>1, <2>2, ClockKept
<1>6. CASE \E w \in Workers : WorkerThread(w)
  <2>1. flags' = flags /\ UNCHANGED <<Cov, periodic, now, box>> /\ Inserting' = Inserting
    BY <1>6 DEF WorkerThread, PopFuzz, PushResult, PushMerge, clockVars, mainVars, Inserting
  <2> QED BY <2>1, ClockKept
<1>7. CASE \/ MergeCrashes \/ MergeStores \/ Terminate \/ InterruptOpens \/ Ended \/ UNCHANGED vars
           \/ \E w \in Workers : Child(w)
  <2>1. flags' = flags /\ UNCHANGED <<Cov, periodic, now, box, main>>
    BY <1>7 DEF MergeCrashes, MergeStores, Terminate, InterruptOpens, Ended, vars, Child, ChildEnds, ChildFails,
                ChildPlateau, ChildInterrupted, ChildStores, ChildStops, clockVars, mainVars
  <2>2. Inserting' = Inserting
    BY <2>1 DEF Inserting
  <2> QED BY <2>1, <2>2, ClockKept
<1> QED BY <1>1, <1>2, <1>3, <1>4, <1>5, <1>6, <1>7 DEF Next, FuzzWithFork, startPeriodicHandler, Environment

LEMMA ClockGivesEnd ==
  ASSUME Typed, ClockInv
  PROVE  PlateauEndsRun
<1> SUFFICES ASSUME Measure, box = "up"
             PROVE  now < (MaxCov + 1) * (Plateau + 1)
  BY DEF PlateauEndsRun
<1>1. PeriodicInv /\ Cov <= MaxCov /\ (Inserting => Cov < MaxCov) /\ periodic.pc \in {"sleep", "store"}
  BY ClockTyped DEF ClockInv
<1>2. periodic.cov <= MaxCov /\ periodic.cov \in Nat
  BY <1>1, ClockTyped DEF PeriodicInv
<1>3. /\ Limit(periodic.cov, Plateau) \in Nat /\ Limit(MaxCov, Plateau) \in Nat
      /\ Limit(MaxCov + 1, Plateau) = Limit(MaxCov, Plateau) + Plateau + 1
      /\ periodic.cov < MaxCov => Limit(periodic.cov, Plateau) + Plateau + 1 <= Limit(MaxCov, Plateau)
  BY <1>2, LimitGrows, ClockTyped
<1>4. Limit(periodic.cov, Plateau) <= Limit(MaxCov, Plateau)
  <2>1. CASE periodic.cov = MaxCov
    BY <1>3, <2>1
  <2>2. CASE periodic.cov < MaxCov
    BY <1>3, <2>2, ClockTyped
  <2> QED BY <1>2, <2>1, <2>2, ClockTyped
<1>5. now < Limit(MaxCov + 1, Plateau)
  <2>1. CASE periodic.last <= Limit(periodic.cov, Plateau)
    <3>1. now <= periodic.last + Plateau
      BY <1>1, ClockTyped DEF PeriodicInv
    <3> QED BY <1>3, <1>4, <2>1, <3>1, ClockTyped
  <2>2. CASE periodic.last <= Limit(periodic.cov, Plateau) + Plateau /\ Unread
    <3>1. CASE Cov > periodic.cov
      <4>1. periodic.cov < MaxCov /\ now <= periodic.last + 1
        BY <1>1, <1>2, <2>2, <3>1, ClockTyped DEF PeriodicInv, Unread
      <4> QED BY <1>3, <2>2, <4>1, ClockTyped
    <3>2. CASE now = periodic.last
      BY <1>3, <1>4, <2>2, <3>2, ClockTyped
    <3> QED BY <2>2, <3>1, <3>2 DEF Unread
  <2> QED BY <1>1, <2>1, <2>2 DEF PeriodicInv
<1> QED BY <1>5 DEF Limit

\* Who wrote the file, and what.
LEMMA TornFields ==
  ASSUME NEW writer
  PROVE  Torn(writer).by = writer /\ Torn(writer).cause = ""
BY DEF Torn

LEMMA StoredFields ==
  ASSUME NEW writer, NEW cause, NEW since
  PROVE  Stored(writer, cause, since).by = writer /\ Stored(writer, cause, since).cause = cause
BY Zenon DEF Stored

LEMMA StoredLate ==
  ASSUME NEW writer, NEW cause, NEW since
  PROVE  Stored(writer, cause, since).late <=> now - since > Plateau
BY Zenon DEF Stored

LEMMA WrittenFields ==
  ASSUME NEW writer, NEW cause, NEW since, feedback' = Torn(writer) \/ feedback' = Stored(writer, cause, since)
  PROVE  feedback'.by = writer /\ (feedback'.cause = "" \/ feedback'.cause = cause)
<1>1. CASE feedback' = Torn(writer)
  BY <1>1, TornFields
<1>2. CASE feedback' = Stored(writer, cause, since)
  <2> DEFINE file == Stored(writer, cause, since)
  <2>1. file.by = writer /\ file.cause = cause
    BY StoredFields
  <2> HIDE DEF file
  <2>2. feedback' = file
    BY <1>2 DEF file
  <2> QED BY <2>1, <2>2
<1> QED BY <1>1, <1>2

LEMMA MergeFields ==
  ASSUME MergeCrashes \/ MergeStores
  PROVE  feedback'.by = "merge"
<1>1. CASE MergeCrashes
  BY <1>1, TornFields DEF MergeCrashes
<1>2. CASE MergeStores
  <2>1. PICK c \in Failures \union (IF handler = "none" THEN {} ELSE {"I"}), l \in BOOLEAN :
          feedback' = [by |-> "merge", cause |-> c, late |-> l]
    BY <1>2 DEF MergeStores
  <2> QED BY <2>1
<1> QED BY <1>1, <1>2

LEMMA LateInit ==
  ASSUME Init
  PROVE  LatePlateauHasCoverage
BY DEF Init, NoFile, LatePlateauHasCoverage

LEMMA LateStep ==
  ASSUME Typed, ClockInv, LatePlateauHasCoverage, [Next]_vars
  PROVE  LatePlateauHasCoverage'
<1>1. CASE PlateauExit
  <2>1. /\ box = "up" /\ periodic.pc = "store" /\ Cov' = Cov /\ now' = now
        /\ feedback' = Stored("parent", "P", 0)
    BY <1>1 DEF PlateauExit, clockVars
  <2>2. PeriodicInv
    BY <2>1, ClockTyped DEF ClockInv
  <2>3. now > Plateau => Cov > 0
    BY <2>1, <2>2, ClockTyped DEF PeriodicInv
  <2>4. feedback'.late => now > Plateau
    <3>1. feedback'.late => now - 0 > Plateau
      BY <2>1, StoredLate, Zenon
    <3> QED BY <3>1, ClockTyped
  <2> QED BY <2>1, <2>3, <2>4 DEF LatePlateauHasCoverage
<1>2. CASE UNCHANGED <<feedback, Cov>>
  BY <1>2 DEF LatePlateauHasCoverage
<1>3. CASE feedback'.by # "parent" \/ feedback'.cause # "P"
  BY <1>3 DEF LatePlateauHasCoverage
<1>4. CASE Inserted
  BY <1>4, ClockTyped DEF Inserted, LatePlateauHasCoverage
<1>5. \/ UNCHANGED <<feedback, Cov>> \/ feedback'.by # "parent" \/ feedback'.cause # "P" \/ PlateauExit \/ Inserted
  <2>1. CASE FuzzWithFork
    BY <2>1 DEF FuzzWithFork, MergeEnds, SpawnWorker, PushFirstJob, PopMerge, PushNewJob, StopOnFailure, StopOnBudget,
                StopJobs, JoinThreads, ExitMain
  <2>2. CASE MergeCrashes \/ MergeStores
    <3>1. feedback'.by = "merge"
      BY <2>2, MergeFields
    <3> QED BY <3>1
  <2>3. CASE \E w \in Workers : WorkerThread(w) \/ Child(w)
    <3>1. UNCHANGED <<feedback, Cov>> \/ feedback' = Torn("child")
          \/ \E w \in Workers : feedback' = Stored("child", child[w].cause, child[w].since)
      BY <2>3 DEF WorkerThread, PopFuzz, PushResult, Child, ChildEnds, ChildFails, ChildPlateau, ChildInterrupted,
                  ChildStores, ChildStops
    <3>2. UNCHANGED <<feedback, Cov>> \/ feedback'.by = "child"
      BY <3>1, WrittenFields
    <3> QED BY <3>2
  <2>4. CASE startPeriodicHandler
    <3>1. UNCHANGED <<feedback, Cov>> \/ PlateauExit \/ feedback' = Torn("parent") \/ feedback' = Stored("parent", "C", 0)
      BY <2>4 DEF startPeriodicHandler, RaceFaults, CollectCoverage, CoverageChanged, CoverageSame
    <3>2. UNCHANGED <<feedback, Cov>> \/ PlateauExit \/ feedback'.cause = "" \/ feedback'.cause = "C"
      BY <3>1, WrittenFields
    <3> QED BY <3>2
  <2>5. CASE Environment
    <3>1. UNCHANGED <<feedback, Cov>> \/ feedback' = Torn("parent") \/ feedback' = Stored("parent", "I", 0)
      BY <2>5 DEF Environment, Tick, Terminate, InterruptOpens, InterruptExit, Kill, ContainerEnds
    <3>2. UNCHANGED <<feedback, Cov>> \/ feedback'.cause = "" \/ feedback'.cause = "I"
      BY <3>1, WrittenFields
    <3> QED BY <3>2
  <2>6. CASE Ended \/ UNCHANGED vars
    BY <2>6 DEF Ended, vars
  <2> QED BY <2>1, <2>2, <2>3, <2>4, <2>5, <2>6 DEF Next
<1> QED BY <1>1, <1>2, <1>3, <1>4, <1>5

\* The detached thread ends the run, for any plateau and any number of gains, within
\* a plateau and a period for each gain and once more (startPeriodicHandler).
THEOREM RunEnds == Spec => []PlateauEndsRun
<1>1. Init => Typed /\ ClockInv
  BY TypedInit, ClockInit
<1>2. Typed /\ ClockInv /\ [Next]_vars => Typed' /\ ClockInv'
  BY TypedStep, ClockStep
<1>3. Typed /\ ClockInv => PlateauEndsRun
  BY ClockGivesEnd
<1> QED BY <1>1, <1>2, <1>3, PTL DEF Spec

\* A plateau that the parent stores with a time above CovPlateauTimeout comes from a
\* run that gained coverage, for any plateau (startPeriodicHandler,
\* StoreFeedbackAndExit).
THEOREM LatePlateau == Spec => []LatePlateauHasCoverage
<1>1. Init => Typed /\ ClockInv /\ LatePlateauHasCoverage
  BY TypedInit, ClockInit, LateInit
<1>2. Typed /\ ClockInv /\ LatePlateauHasCoverage /\ [Next]_vars => Typed' /\ ClockInv' /\ LatePlateauHasCoverage'
  BY TypedStep, ClockStep, LateStep
<1> QED BY <1>1, <1>2, PTL DEF Spec
-----------------------------------------------------------------------------
(* The cause on file, with the ignore flags and one job at a time.  A child    *)
(* that is interrupted, or sees its plateau, stores that last; from then on it *)
(* is the only job, so no merge and no other child can write, until main has   *)
(* its exit code and stops.                                                    *)

Single == Ignore /\ NumJobs = 1 /\ Measure /\ ~Budget

\* The parent writes nothing itself.
Silent == box = "up" /\ periodic.pc # "store" /\ handler \notin {"store", "done"}

OnFile == feedback.cause \in {"P", "I"}

CauseInv ==
  /\ merging = "store" => main \in {"seeds", "merge"}
  /\ \A w \in Workers : child[w].pc \in {"store", "gone"} /\ child[w].code = "interrupt" => child[w].cause \in {"P", "I"}
  /\ Single /\ Silent => /\ \A w \in Workers : child[w].pc = "gone" /\ child[w].code = "interrupt" => OnFile
                         /\ (\E i \in DOMAIN MergeQ : MergeQ[i] = "interrupt") => OnFile
                         /\ main \in Stopping => OnFile

LEMMA CauseInit ==
  ASSUME Init, Typed
  PROVE  CauseInv
<1>1. main = "seeds" /\ merging = "none" /\ MergeQ = <<>> /\ \A w \in Workers : child[w].pc = "none"
  BY DEF Init, NoChild
<1>2. DOMAIN MergeQ = {}
  <2>1. Len(MergeQ) = 0 /\ DOMAIN MergeQ = 1..Len(MergeQ)
    BY <1>1, LenProperties DEF Typed
  <2> QED BY <2>1
<1> QED BY <1>1, <1>2 DEF CauseInv, Stopping

LEMMA WaitCounted ==
  ASSUME Typed
  PROVE  Many(worker, Workers, "wait") = 0 <=> \A w \in Workers : worker[w] # "wait"
<1>1. IsFiniteSet(Workers)
  BY FlowTyped
<1> QED BY <1>1, ManyFinite

\* A merge and a child are never there at once, and no result waits for either.
LEMMA OneAtATime ==
  ASSUME Typed, FlowInv, StopInv, NumJobs = 1,
         main \in {"seeds", "merge"} \/ \E w \in Workers : child[w].pc # "none"
  PROVE  /\ \A i \in DOMAIN MergeQ : MergeQ[i] # "interrupt"
         /\ main \notin Stopping
         /\ main \in {"seeds", "merge"} => \A w \in Workers : child[w].pc = "none"
<1>1. CASE main \in {"seeds", "merge"}
  <2>1. CountOf(MergeQ, Codes) = 0 /\ Many(worker, Workers, "wait") = 0
    BY <1>1, FlowTyped DEF FlowInv, Flow, Merging, Typed
  <2>2. \A w \in Workers : worker[w] # "wait"
    BY <2>1, WaitCounted
  <2>3. \A i \in DOMAIN MergeQ : MergeQ[i] \notin Codes
    BY <2>1, CountEmpty DEF Typed
  <2> QED BY <1>1, <2>2, <2>3 DEF StopInv, Codes, Stopping
<1>2. CASE \E w \in Workers : child[w].pc # "none"
  <2>1. Many(worker, Workers, "wait") # 0
    BY <1>2, WaitCounted DEF StopInv
  <2>2. main \in {"pop", "asleep"} /\ CountOf(MergeQ, Codes) = 0
    BY <2>1, FlowTyped DEF FlowInv, Flow, Merging, Stopping, Typed
  <2>3. \A i \in DOMAIN MergeQ : MergeQ[i] \notin Codes
    BY <2>2, CountEmpty DEF Typed
  <2> QED BY <2>2, <2>3 DEF Codes, Stopping
<1> QED BY <1>1, <1>2

LEMMA MergeCause ==
  ASSUME Typed, FlowInv, StopInv, CauseInv, MergeCrashes \/ MergeStores
  PROVE  CauseInv'
<1>1. /\ flags' = flags /\ UNCHANGED <<main, MergeQ, child, periodic, handler, box>>
      /\ main \in {"seeds", "merge"} /\ (merging' = "store" => main \in {"seeds", "merge"})
  BY DEF MergeCrashes, MergeStores, CauseInv, clockVars, mainVars, queueVars
<1>2. UNCHANGED <<Ignore, NumJobs, Measure, Budget, Workers>>
  BY <1>1, ParametersKept
<1>3. Single => /\ \A i \in DOMAIN MergeQ : MergeQ[i] # "interrupt"
                /\ main \notin Stopping /\ \A w \in Workers : child[w].pc = "none"
  BY <1>1, OneAtATime DEF Single
<1> QED BY <1>1, <1>2, <1>3 DEF CauseInv, Single, Silent, Stopping

LEMMA ChildCause ==
  ASSUME Typed, FlowInv, StopInv, CauseInv, NEW w \in Workers, Child(w)
  PROVE  CauseInv'
<1>1. /\ flags' = flags /\ UNCHANGED <<main, merging, MergeQ, periodic, handler, box>>
      /\ child[w].pc # "none" /\ \A v \in Workers \ {w} : child'[v] = child[v]
  BY ChildTyped DEF clockVars, mainVars, queueVars
<1>2. UNCHANGED <<Ignore, NumJobs, Measure, Budget, Workers>>
  BY <1>1, ParametersKept
<1>3. Single => /\ \A i \in DOMAIN MergeQ : MergeQ[i] # "interrupt"
                /\ main \notin Stopping /\ \A v \in Workers : v = w
  <2> HAVE Single
  <2>1. Workers = 1..1
    BY DEF Single, Workers
  <2> QED BY <1>1, <2>1, OneAtATime DEF Single
<1>4. /\ child'[w].pc \in {"store", "gone"} /\ child'[w].code = "interrupt" => child'[w].cause \in {"P", "I"}
      /\ Measure /\ child'[w].pc = "gone" /\ child'[w].code = "interrupt" => OnFile'
  <2>1. child[w] \in Children /\ child \in [Workers -> Children]
    BY DEF Typed
  <2>2. CASE ChildEnds(w)
    BY <2>1, <2>2 DEF ChildEnds, Children
  <2>3. CASE ChildStores(w)
    <3>1. /\ child'[w].cause = child[w].cause /\ child'[w].code = child[w].code /\ child[w].pc = "store"
          /\ feedback' = Stored("child", child[w].cause, child[w].since)
      BY <2>1, <2>3 DEF ChildStores, Children
    <3>2. feedback'.cause = child[w].cause
      <4> DEFINE file == Stored("child", child[w].cause, child[w].since)
      <4>1. file.cause = child[w].cause
        BY StoredFields
      <4> HIDE DEF file
      <4>2. feedback' = file
        BY <3>1 DEF file
      <4> QED BY <4>1, <4>2
    <3> QED BY <3>1, <3>2 DEF CauseInv, OnFile
  <2>4. ASSUME NEW cause, NEW code, ChildStops(w, cause, code)
        PROVE  /\ child'[w].cause = cause /\ child'[w].code = code
               /\ Measure => child'[w].pc = "store"
    BY <2>1, <2>4 DEF ChildStops, Children
  <2>5. CASE ChildFails(w)
    <3>1. PICK c \in Failures : ChildStops(w, c, "fail")
      BY <2>5 DEF ChildFails
    <3> QED BY <2>4, <3>1
  <2>6. CASE ChildPlateau(w)
    BY <2>4, <2>6 DEF ChildPlateau
  <2>7. CASE ChildInterrupted(w)
    BY <2>4, <2>7 DEF ChildInterrupted
  <2> QED BY <2>2, <2>3, <2>5, <2>6, <2>7 DEF Child
<1> QED BY <1>1, <1>2, <1>3, <1>4 DEF CauseInv, Single, Silent, Stopping

LEMMA WorkerCause ==
  ASSUME Typed, CauseInv, NEW w \in Workers, WorkerThread(w)
  PROVE  CauseInv'
<1>0. UNCHANGED <<Ignore, NumJobs, Measure, Budget, Workers>>
  BY FlagsKept, ParametersKept DEF Next
<1>1. CASE PopFuzz(w)
  <2>1. UNCHANGED <<main, merging, MergeQ, periodic, handler, box, feedback>>
        /\ \A v \in Workers : child'[v] = child[v] \/ child'[v].pc = "run"
    BY <1>1 DEF PopFuzz, mainVars, Typed, NoChild
  <2> QED BY <1>0, <2>1 DEF CauseInv, Single, Silent, OnFile, Stopping
<1>2. CASE PushResult(w)
  <2>1. /\ UNCHANGED <<merging, periodic, handler, box, feedback>> /\ main' = (IF main = "asleep" THEN "pop" ELSE main)
        /\ \A v \in Workers : child'[v] = child[v] \/ child'[v].pc = "none"
        /\ MergeQ' = Append(MergeQ, child[w].code) /\ child[w].pc = "gone" /\ child[w].code \in Codes
    BY <1>2 DEF PushResult, PushMerge, Typed, NoChild
  <2>2. (\E i \in DOMAIN MergeQ' : MergeQ'[i] = "interrupt")
          => child[w].code = "interrupt" \/ \E i \in DOMAIN MergeQ : MergeQ[i] = "interrupt"
    <3>1. /\ DOMAIN MergeQ' = 1..(Len(MergeQ) + 1) /\ DOMAIN MergeQ = 1..Len(MergeQ) /\ Len(MergeQ) \in Nat
          /\ \A i \in 1..Len(MergeQ) : MergeQ'[i] = MergeQ[i]
          /\ MergeQ'[Len(MergeQ) + 1] = child[w].code
      BY <2>1, AppendProperties, LenProperties DEF Typed
    <3> QED BY <3>1
  <2> QED BY <1>0, <2>1, <2>2 DEF CauseInv, Single, Silent, OnFile, Stopping
<1> QED BY <1>1, <1>2 DEF WorkerThread

LEMMA MainCause ==
  ASSUME Typed, CauseInv, FuzzWithFork
  PROVE  CauseInv'
<1>0. /\ UNCHANGED <<Ignore, NumJobs, Measure, Budget, Workers>>
      /\ UNCHANGED <<child, merging, periodic, handler, feedback>> /\ (box' = "up" => box = "up")
      /\ main \in {"seeds", "merge"} => merging = "none"
  <2>1. UNCHANGED <<child, merging, periodic, handler, feedback>> /\ (box' = "up" => box = "up")
    BY DEF FuzzWithFork, MergeEnds, Inserted, SpawnWorker, PushFirstJob, PopMerge, PushNewJob, StopOnFailure,
           StopOnBudget, StopJobs, JoinThreads, ExitMain, threadVars
  <2>2. main \in {"seeds", "merge"} => merging = "none"
    BY DEF FuzzWithFork, MergeEnds, Inserted, SpawnWorker, PushFirstJob, PopMerge, PushNewJob, StopOnFailure,
           StopOnBudget, StopJobs, JoinThreads, ExitMain
  <2> QED BY <2>1, <2>2, FlagsKept, ParametersKept DEF Next
<1>1. (\E i \in DOMAIN MergeQ' : MergeQ'[i] = "interrupt") => \E i \in DOMAIN MergeQ : MergeQ[i] = "interrupt"
  <2>1. CASE PopMerge /\ MergeQ # <<>>
    <3>1. /\ DOMAIN MergeQ' = 1..(Len(MergeQ) - 1) /\ DOMAIN MergeQ = 1..Len(MergeQ) /\ Len(MergeQ) \in Nat
          /\ \A i \in 1..(Len(MergeQ) - 1) : MergeQ'[i] = MergeQ[i + 1]
      <4>1. MergeQ' = Tail(MergeQ) /\ MergeQ # <<>>
        BY <2>1 DEF PopMerge
      <4> QED BY <4>1, HeadTailProperties, LenProperties DEF Typed
    <3> QED BY <3>1
  <2>2. CASE StopJobs /\ ~(pushes < NumJobs)
    <3>1. /\ DOMAIN MergeQ' = 1..(Len(MergeQ) + 1) /\ DOMAIN MergeQ = 1..Len(MergeQ) /\ Len(MergeQ) \in Nat
          /\ \A i \in 1..Len(MergeQ) : MergeQ'[i] = MergeQ[i]
          /\ MergeQ'[Len(MergeQ) + 1] = Null
      <4>1. MergeQ' = Append(MergeQ, Null)
        BY <2>2 DEF StopJobs
      <4> QED BY <4>1, AppendProperties, LenProperties DEF Typed
    <3> QED BY <3>1 DEF Null
  <2>3. CASE ~(PopMerge /\ MergeQ # <<>>) /\ ~(StopJobs /\ ~(pushes < NumJobs))
    <3>1. MergeQ' = MergeQ
      BY <2>3 DEF FuzzWithFork, MergeEnds, Inserted, SpawnWorker, PushFirstJob, PopMerge, PushNewJob, StopOnFailure,
                  StopOnBudget, StopJobs, JoinThreads, ExitMain, queueVars
    <3> QED BY <3>1
  <2> QED BY <2>1, <2>2, <2>3
<1>2. Single /\ main' \in Stopping => main \in Stopping \/ \E i \in DOMAIN MergeQ : MergeQ[i] = "interrupt"
  <2> HAVE Single /\ main' \in Stopping
  <2>1. CASE PopMerge
    <3>1. MergeQ # <<>> /\ Head(MergeQ) = "interrupt"
      BY <2>1 DEF PopMerge, Stopping
    <3>2. Head(MergeQ) = MergeQ[1] /\ 1 \in DOMAIN MergeQ
      BY <3>1, HeadTailProperties, LenProperties, EmptySeq DEF Typed
    <3> QED BY <3>1, <3>2
  <2>2. CASE ~PopMerge
    <3>1. main \in Stopping
      BY <2>2 DEF FuzzWithFork, MergeEnds, Inserted, SpawnWorker, PushFirstJob, PushNewJob, StopOnFailure,
                  StopOnBudget, StopJobs, JoinThreads, ExitMain, mainVars, Stopping, Single
    <3> QED BY <3>1
  <2> QED BY <2>1, <2>2
<1> QED BY <1>0, <1>1, <1>2 DEF CauseInv, Single, Silent, OnFile, Stopping

LEMMA OtherCause ==
  ASSUME Typed, CauseInv, startPeriodicHandler \/ Environment \/ Ended \/ UNCHANGED vars
  PROVE  CauseInv'
<1>0. UNCHANGED <<Ignore, NumJobs, Measure, Budget, Workers>>
  BY FlagsKept, ParametersKept DEF Next
<1>1. UNCHANGED <<main, merging, MergeQ>>
  <2>1. CASE startPeriodicHandler
    BY <2>1, PeriodicTyped DEF mainVars, queueVars, threadVars
  <2>2. CASE Environment
    BY <2>2, EnvironmentTyped DEF mainVars, queueVars
  <2>3. CASE Ended \/ UNCHANGED vars
    BY <2>3 DEF Ended, vars, mainVars, queueVars, threadVars
  <2> QED BY <2>1, <2>2, <2>3
<1>2. Silent' => Silent /\ feedback' = feedback
  <2>1. CASE startPeriodicHandler
    BY <2>1, PeriodicTyped DEF startPeriodicHandler, RaceFaults, CollectCoverage, CoverageChanged, CoverageSame,
                               PlateauExit, Silent, Due, Typed
  <2>2. CASE Environment
    BY <2>2 DEF Environment, Tick, Terminate, InterruptOpens, InterruptExit, Kill, ContainerEnds, Silent
  <2>3. CASE Ended \/ UNCHANGED vars
    BY <2>3 DEF Ended, vars, Silent
  <2> QED BY <2>1, <2>2, <2>3
<1>3. ASSUME NEW w \in Workers
      PROVE  /\ child'[w] = child[w] \/ child'[w].pc \in {"signalled", "store"}
             /\ child'[w] = child[w] \/ child'[w].pc = "signalled" \/ child'[w].cause = "I"
  <2>1. CASE Terminate
    <3>1. PICK caught \in SUBSET {v \in Workers : child[v].pc = "store"} :
            child' = [v \in Workers |->
                        IF child[v].pc = "run" THEN [child[v] EXCEPT !.pc = "signalled"]
                        ELSE IF v \in caught THEN [child[v] EXCEPT !.cause = "I", !.code = "interrupt"]
                        ELSE child[v]]
      BY <2>1 DEF Terminate
    <3>2. child[w] \in Children
      BY DEF Typed
    <3> QED BY <3>1, <3>2 DEF Children
  <2>2. CASE ~Terminate
    <3>1. child' = child
      BY <2>2 DEF startPeriodicHandler, RaceFaults, CollectCoverage, CoverageChanged, CoverageSame, PlateauExit, Environment,
                  Tick, InterruptOpens, InterruptExit, Kill, ContainerEnds, Ended, vars, threadVars
    <3> QED BY <3>1
  <2> QED BY <2>1, <2>2
<1> QED BY <1>0, <1>1, <1>2, <1>3 DEF CauseInv, Single, OnFile, Stopping

LEMMA CauseStep ==
  ASSUME Typed, FlowInv, StopInv, CauseInv, [Next]_vars
  PROVE  CauseInv'
BY MergeCause, ChildCause, WorkerCause, MainCause, OtherCause DEF Next

\* With the ignore flags a run of one job at a time that ends through its join leaves
\* the plateau or the interruption of its last child on file, whatever crashes came
\* before, for any limits and failures (StoreFeedbackAndExit, FuzzWithFork).
THEOREM FailureIsNotTheCause == Spec => []IgnoredFailureIsNotTheCause
<1>1. Init => Typed /\ FlowInv /\ StopInv /\ CauseInv
  BY TypedInit, FlowInit, StopInit, CauseInit
<1>2. Typed /\ FlowInv /\ StopInv /\ CauseInv /\ [Next]_vars => Typed' /\ FlowInv' /\ StopInv' /\ CauseInv'
  BY TypedStep, FlowStep, StopStep, CauseStep
<1>3. CauseInv => IgnoredFailureIsNotTheCause
  BY DEF CauseInv, IgnoredFailureIsNotTheCause, Single, Silent, OnFile, Stopping
<1> QED BY <1>1, <1>2, <1>3, PTL DEF Spec
=============================================================================
