----------------------------- MODULE CrashMerge -----------------------------
(***************************************************************************)
(* The crash-resistant merge of the customised libFuzzer                   *)
(* (custom-libfuzzer/fuzzer/FuzzerMerge.cpp, and Merge of FuzzerDriver.cpp *)
(* that calls it for -merge=1 and -set_cover_merge=1).                     *)
(*                                                                         *)
(* The outer process lists the inputs in a control file and starts inner   *)
(* processes that run them one after the other and append what they found  *)
(* to the same file.  An inner process may die at any input; the outer one *)
(* may be killed and started again, with the same control file and with    *)
(* other corpora.  The control file is all that outlives a process, so it  *)
(* is modelled line by line, with the piece of a line that is left when    *)
(* its writer dies; Parse reads it.                                        *)
(*                                                                         *)
(* An input is a member of Contents; a file is a directory and an input.   *)
(* The features of an input also stand for its coverage (COV).             *)
(***************************************************************************)
EXTENDS Integers, Sequences, FiniteSets, SequencesExt, FiniteSetsExt

CONSTANTS Contents,        \* inputs
          Size,            \* their sizes, after the cut to MaxInputLen
          Features,        \* features an input may have
          FeatureSets,     \* the sets of features tried for an input
          FeatureSetSize,  \* kFeatureSetSize
          Initial,         \* InitialFeatures and InitialCov
          Rank,            \* the order in which a directory lists its files
          OldCorpora, NewCorpora,  \* sets of inputs the user may give
          MaxStarts        \* bound: starts of the outer process

ASSUME SizeAssumption == Size \in [Contents -> Nat \ {0}]
ASSUME RankAssumption ==
  /\ Rank \in [{"old", "out", "new"} \X Contents -> Nat]
  /\ \A f, g \in {"old", "out", "new"} \X Contents : Rank[f] = Rank[g] => f = g
ASSUME FeaturesAssumption ==
  Features \subseteq Nat /\ IsFiniteSet(Features) /\ FeatureSets \subseteq SUBSET Features /\ Initial \subseteq Features
ASSUME FeatureSetSizeAssumption == FeatureSetSize \in Nat \ {0}
ASSUME CorporaAssumption == \A S \in OldCorpora \cup NewCorpora : S \subseteq Contents /\ IsFiniteSet(S)
ASSUME MaxStartsAssumption == MaxStarts \in Nat \ {0}

VARIABLES feat,       \* the features each input really has
          IsSetCoverMerge,
          corpus,     \* what the directories hold: old, new, and out (copied into the first one)
          cf,         \* the control file
          outer,      \* control of the outer process
          attempts,   \* inner processes it may still start
          known,      \* KnownFiles
          inner,      \* the inner process
          result,     \* NewFiles, NewFeatures, NewCov
          starts,     \* starts of the outer process
          faults,     \* history: what went wrong under this control file
          recorded    \* history: files with a whole record in it, or in KnownFiles

vars == <<feat, IsSetCoverMerge, corpus, cf, outer, attempts, known, inner, result, starts, faults, recorded>>
history == <<faults, recorded>>
world == <<feat, IsSetCoverMerge>>
-----------------------------------------------------------------------------
(* The control file: the number of inputs, of those in the first corpus, their *)
(* names, then lines.  A line without newline (nl) is the last one.            *)

Absent == [n |-> 0, old |-> 0, names |-> <<>>, lines |-> <<>>]

\* The line may end in the next writer's line: what it holds up to there counts, and
\* the text of the other one is lost.
AppendLine(lines, line) ==
  IF lines # <<>> /\ ~Last(lines).nl
  THEN [lines EXCEPT ![Len(lines)].nl = TRUE]
  ELSE Append(lines, line)

Line(m, i, fts, nl) == [m |-> m, i |-> i, fts |-> fts, nl |-> nl]

\* Lines before line k that carry marker m.
Before(f, k, m) == {j \in 1..(k - 1) : f.lines[j].m = m}

\* One line of the body: STARTED in order, FT for the input started last and only once, COV
\* for any input; nothing else.
LineOK(f, k) ==
  LET l == f.lines[k]
      started == Before(f, k, "STARTED")
  IN \/ l.m = "STARTED" /\ l.i = Cardinality(started) + 1
     \/ /\ l.m = "FT" /\ started # {}
        /\ f.lines[Max(started)].i = l.i
        /\ \A j \in Before(f, k, "FT") : j < Max(started)
     \/ l.m = "COV"

\* Mutant of ParseOK: an input without a record makes the file unreadable.
ParseOKRecorded(f) ==
  /\ f.n > 0 /\ Len(f.names) = f.n /\ \A k \in DOMAIN f.lines : LineOK(f, k)
  /\ Cardinality(Before(f, Len(f.lines) + 1, "FT")) = Cardinality(Before(f, Len(f.lines) + 1, "STARTED"))

\* Merger::Parse: it returns false for a header that lacks names and at the first line that is
\* not right.
ParseOK(f) == f.n > 0 /\ Len(f.names) = f.n /\ \A k \in DOMAIN f.lines : LineOK(f, k)

FirstNotProcessedFile(f) == Cardinality(Before(f, Len(f.lines) + 1, "STARTED")) + 1

\* The numbers of a line count for its input; a COV number only the first time it is met.
ParsedFeatures(f, i) == UNION {f.lines[k].fts : k \in {j \in Before(f, Len(f.lines) + 1, "FT") : f.lines[j].i = i}}
ParsedCov(f, i) ==
  UNION {f.lines[k].fts \ UNION {f.lines[j].fts : j \in Before(f, k, "COV")} :
           k \in {j \in Before(f, Len(f.lines) + 1, "COV") : f.lines[j].i = i}}

\* Merger::Files.
ParsedFiles(f) ==
  [i \in 1..Len(f.names) |->
     [name |-> f.names[i], ft |-> ParsedFeatures(f, i), cov |-> ParsedCov(f, i),
      size |-> IF i < FirstNotProcessedFile(f) THEN Size[f.names[i][2]] ELSE 0]]
-----------------------------------------------------------------------------
(* Merger::Merge and Merger::SetCoverMerge, of files of which the first `old`  *)
(* are in the first corpus.                                                    *)

\* The members of S, ordered by the relation R.
InOrder(S, R) == [k \in 1..Cardinality(S) |-> CHOOSE x \in S : Cardinality({y \in S : <<y, x>> \in R}) = k - 1]

NoResult == [files |-> <<>>, features |-> {}, cov |-> {}]

FeaturesIn(files) == UNION {files[i].ft : i \in DOMAIN files}

\* Merge removes the features known already, sorts by size and then by more features,
\* and adds every file that still brings one.  std::sort may order equals in any way.
Merge(files, old) ==
  LET start == Initial \cup FeaturesIn(SubSeq(files, 1, old))
      rest == SubSeq(files, old + 1, Len(files))
      more == [i \in DOMAIN rest |-> rest[i].ft \ start]
      before(i, j) == \/ rest[i].size < rest[j].size
                      \/ rest[i].size = rest[j].size /\ Cardinality(more[i]) > Cardinality(more[j])
      orders == {o \in SetToSeqs(DOMAIN rest) : \A a, b \in DOMAIN o : a < b => ~before(o[b], o[a])}
      adds(o) == {k \in DOMAIN o : ~ (more[o[k]] \subseteq UNION {more[o[j]] : j \in 1..(k - 1)})}
      chosen(o) == InOrder(adds(o), {p \in adds(o) \X adds(o) : p[1] < p[2]})
  IN {[files |-> [k \in DOMAIN chosen(o) |-> rest[o[chosen(o)[k]]].name],
       features |-> UNION {more[i] : i \in DOMAIN rest},
       cov |-> (UNION {rest[i].cov : i \in DOMAIN rest}) \ Initial] : o \in orders}

\* The bit of a feature in Covered.
Slot(f) == f % FeatureSetSize

\* The file with the most features that are not covered, of those the smallest, of
\* those the first; none when no file adds any.
BestOf(files, left, covered) ==
  LET gain == [i \in left |-> Cardinality({f \in files[i].ft : Slot(f) \notin covered})]
      most == {i \in left : gain[i] > 0 /\ \A j \in left : gain[j] <= gain[i]}
      least == {i \in most : \A j \in most : files[i].size <= files[j].size}
  IN {i \in least : \A j \in least : i <= j}

\* SetCoverMerge adds the best of the remaining files until none adds anything.  NewFeatures
\* gets the first feature of each new slot.
SetCoverMerge(files, old) ==
  LET start == {Slot(f) : f \in Initial \cup FeaturesIn(SubSeq(files, 1, old))}
      slots(S) == {Slot(f) : f \in UNION {files[i].ft : i \in S}}
      rest == (old + 1)..Len(files)
      best(S) == BestOf(files, rest \ S, start \cup slots(S))
      taken(p, k) == {p[j] : j \in 1..(k - 1)}
      picks == {p \in SetToAllKPermutations(rest) :
                  best(ToSet(p)) = {} /\ \A k \in DOMAIN p : p[k] \in best(taken(p, k))}
      fresh(p, k) == {f \in files[p[k]].ft : Slot(f) \notin start \cup slots(taken(p, k))}
      first(S) == {f \in S : \A g \in S : Slot(g) = Slot(f) => f <= g}
  IN {[files |-> [k \in DOMAIN p |-> files[p[k]].name],
       features |-> UNION {first(fresh(p, k)) : k \in DOMAIN p},
       cov |-> (UNION {files[p[k]].cov : k \in DOMAIN p}) \ Initial] : p \in picks}
-----------------------------------------------------------------------------
(* The outer process. *)

Idle == [pc |-> "none", i |-> 0, all |-> {}]

\* Files of directories, smallest first.
Sorted(files) ==
  LET before(f, g) == Size[f[2]] < Size[g[2]] \/ (Size[f[2]] = Size[g[2]] /\ Rank[f] < Rank[g])
  IN InOrder(files, {p \in files \X files : before(p[1], p[2])})

\* The copies are in the first directory too.
OldCorpus == ({"old"} \X corpus.old) \cup ({"out"} \X corpus.out)
NewCorpus == {"new"} \X corpus.new

OldFiles == Sorted(OldCorpus)
NewFiles == Sorted(NewCorpus)

Init ==
  /\ feat \in [Contents -> FeatureSets]
  /\ IsSetCoverMerge \in BOOLEAN
  /\ corpus \in [old : OldCorpora, new : NewCorpora, out : {{}}]
  /\ cf = Absent
  /\ outer = "begin" /\ attempts = 0 /\ known = <<>>
  /\ inner = Idle /\ result = NoResult
  /\ starts = 1 /\ faults = {} /\ recorded = {}

Complete(f) == ParseOK(f) /\ FirstNotProcessedFile(f) > f.n

\* Nothing to merge, or the control file says that all is done: exit(0).
NothingToDo ==
  /\ outer = "begin"
  /\ \/ OldFiles \o NewFiles = <<>>
     \/ Complete(cf) /\ cf.n = Len(OldFiles \o NewFiles)
  /\ outer' = "nothing"
  /\ UNCHANGED <<world, corpus, cf, attempts, known, inner, result, starts, history>>

\* A control file that stops half way is continued, with the inputs it lists.
Continue ==
  /\ outer = "begin"
  /\ OldFiles \o NewFiles # <<>>
  /\ ParseOK(cf) /\ ~Complete(cf)
  /\ attempts' = cf.n + 1 - FirstNotProcessedFile(cf)
  /\ outer' = "loop" /\ known' = <<>>
  /\ UNCHANGED <<world, corpus, cf, inner, result, starts, history>>

\* A complete one for another number of inputs is kept as KnownFiles; a bad one is not used.
StartAfresh ==
  /\ outer = "begin"
  /\ OldFiles \o NewFiles # <<>>
  /\ \/ Complete(cf) /\ cf.n # Len(OldFiles \o NewFiles) /\ known' = ParsedFiles(cf)
     \/ ~ParseOK(cf) /\ known' = <<>>
  /\ outer' = "write"
  /\ recorded' = IF ParseOK(cf) THEN recorded ELSE {}
  /\ UNCHANGED <<world, corpus, cf, attempts, inner, result, starts, faults>>

\* FilesToSkip.  What a process knows of them is in no control file any more.
KnownNames == {known[i].name : i \in DOMAIN known}

\* Files that are not known, in their order.
MaybeUseFile(files) == Sorted(files \ KnownNames)

WriteNewControlFile ==
  /\ outer = "write"
  /\ LET old == MaybeUseFile(OldCorpus)
         use == old \o MaybeUseFile(NewCorpus)
     IN /\ cf' = [n |-> Len(use), old |-> Len(old), names |-> use, lines |-> <<>>]
        /\ attempts' = Len(use)
  /\ outer' = "loop"
  /\ faults' = IF known = <<>> THEN {} ELSE faults
  /\ UNCHANGED <<world, corpus, known, inner, result, starts, recorded>>

\* The old file is removed first; what is left of the new one lacks names.
KilledWriting ==
  /\ outer = "write"
  /\ cf' \in {Absent, [Absent EXCEPT !.n = 1]}
  /\ outer' \in {"killed", "failed"} /\ faults' = {"killed"} /\ recorded' = {}
  /\ attempts' = 0 /\ known' = <<>>
  /\ UNCHANGED <<world, corpus, inner, result, starts>>

\* Mutant of InnerExits: the exit code is not looked at.
InnerExitsOnce(code) ==
  /\ inner' = Idle
  /\ attempts' = 0

\* The inner process is gone: with exit code 0 the loop ends, else it starts another one.
InnerExits(code) ==
  /\ inner' = Idle
  /\ attempts' = IF code = 0 THEN 0 ELSE attempts - 1

\* After the loop the control file is read once more and the merge is done.
Conclude ==
  /\ outer = "loop" /\ attempts = 0
  /\ LET files == ParsedFiles(cf) \o known
     IN \/ /\ ~ParseOK(cf)
           /\ outer' = "failed" /\ UNCHANGED result
        \/ /\ ParseOK(cf)
           /\ result' \in IF IsSetCoverMerge THEN SetCoverMerge(files, cf.old) ELSE Merge(files, cf.old)
           /\ outer' = "copy"
  /\ UNCHANGED <<world, corpus, cf, attempts, known, inner, starts, history>>

\* Merge of FuzzerDriver.cpp: one new file is written to the first corpus.  One that is no
\* longer there ends the process.
CopyFile ==
  /\ outer = "copy" /\ result.files # <<>>
  /\ LET f == Head(result.files)
     IN IF f \in Range(OldFiles) \cup Range(NewFiles)
        THEN /\ corpus' = [corpus EXCEPT !.out = @ \cup {f[2]}]
             /\ result' = [result EXCEPT !.files = Tail(@)]
             /\ UNCHANGED outer
        ELSE outer' = "failed" /\ UNCHANGED <<corpus, result>>
  /\ UNCHANGED <<world, cf, attempts, known, inner, starts, history>>

Copied ==
  /\ outer = "copy" /\ result.files = <<>>
  /\ outer' = "done"
  /\ UNCHANGED <<world, corpus, cf, attempts, known, inner, result, starts, history>>

\* The outer process dies, and the inner one with it.
Killed ==
  /\ outer \in {"begin", "loop", "copy"}
  /\ outer' = "killed" /\ inner' = Idle /\ attempts' = 0 /\ known' = <<>> /\ result' = NoResult
  /\ faults' = faults \cup {"killed"} /\ recorded' = recorded \ KnownNames
  /\ UNCHANGED <<world, corpus, cf, starts>>

\* The user starts the merge again with the same control file, and may have added or removed
\* inputs in the meantime.
Restart ==
  /\ outer \in {"killed", "failed", "done"} /\ starts < MaxStarts
  /\ starts' = starts + 1
  /\ \E new \in NewCorpora :
       /\ corpus' = [corpus EXCEPT !.new = new]
       /\ faults' = IF new = corpus.new THEN faults ELSE faults \cup {"changed"}
  /\ outer' = "begin" /\ result' = NoResult /\ known' = <<>> /\ recorded' = recorded \ KnownNames
  /\ UNCHANGED <<world, cf, attempts, inner>>
-----------------------------------------------------------------------------
(* The inner process, CrashResistantMergeInternalStep. *)

Exists(f) == f[2] \in CASE f[1] = "old" -> corpus.old [] f[1] = "out" -> corpus.out [] f[1] = "new" -> corpus.new

\* It starts at the first input that was never started; a control file it cannot read ends it.
InnerStart ==
  /\ outer = "loop" /\ attempts > 0 /\ inner.pc = "none"
  /\ \/ ParseOK(cf) /\ inner' = [pc |-> "next", i |-> FirstNotProcessedFile(cf), all |-> {}] /\ UNCHANGED attempts
     \/ ~ParseOK(cf) /\ InnerExits(1)
  /\ UNCHANGED <<world, corpus, cf, outer, known, result, starts, history>>

\* The marker is flushed before the input runs.
MarkStarted ==
  /\ inner.pc = "next" /\ inner.i <= cf.n
  /\ Exists(cf.names[inner.i])
  /\ cf' = [cf EXCEPT !.lines = AppendLine(@, Line("STARTED", inner.i, {}, TRUE))]
  /\ inner' = [inner EXCEPT !.pc = "run"]
  /\ UNCHANGED <<world, corpus, outer, attempts, known, result, starts, history>>

\* FileToVector exits when the file is not there.
InputGone ==
  /\ inner.pc = "next" /\ inner.i <= cf.n
  /\ ~Exists(cf.names[inner.i])
  /\ InnerExits(1)
  /\ faults' = faults \cup {"gone"}
  /\ UNCHANGED <<world, corpus, cf, outer, known, result, starts, recorded>>

\* The input crashes, or takes too long or too much memory.
InputCrashes ==
  /\ inner.pc = "run"
  /\ InnerExits(1)
  /\ UNCHANGED <<world, corpus, cf, outer, known, result, starts, history>>

\* Mutant of Found: what this process met counts from the first input of the file on.
FoundSinceFirst == feat[cf.names[inner.i][2]] \ UNION {feat[cf.names[k][2]] : k \in 1..(inner.i - 1)}

\* What the record of the input holds: in a set cover merge all its features, else those that
\* this process has not met.
Found ==
  LET x == cf.names[inner.i][2]
  IN IF IsSetCoverMerge THEN feat[x] ELSE feat[x] \ inner.all

\* The record: FT and COV are flushed together.
WriteRecord ==
  /\ inner.pc = "run"
  /\ LET x == cf.names[inner.i][2]
         ft == AppendLine(cf.lines, Line("FT", inner.i, Found, TRUE))
     IN /\ cf' = [cf EXCEPT !.lines = AppendLine(ft, Line("COV", inner.i, feat[x] \ inner.all, TRUE))]
        /\ inner' = [pc |-> "next", i |-> inner.i + 1, all |-> inner.all \cup feat[x]]
  /\ recorded' = recorded \cup {cf.names[inner.i]}
  /\ UNCHANGED <<world, corpus, outer, attempts, known, result, starts, faults>>

\* The process dies between two pieces of a long record (the thread that watches the memory
\* ends it at any time).  The piece on disk ends in the middle of a marker, of FT (the last
\* number may be cut to another one), between FT and COV or in the middle of COV.
DiesInRecord ==
  /\ inner.pc = "run"
  /\ LET ft == AppendLine(cf.lines, Line("FT", inner.i, Found, TRUE))
         cut == {part \in SUBSET Features : Cardinality(part \ Found) <= 1 /\ ~ (Found \subseteq part)}
     IN \E piece \in {AppendLine(cf.lines, Line("?", inner.i, {}, FALSE)), ft,
                      AppendLine(ft, Line("?", inner.i, {}, FALSE)), AppendLine(ft, Line("COV", inner.i, {}, FALSE))}
                     \cup {AppendLine(cf.lines, Line("FT", inner.i, part, FALSE)) : part \in cut} :
          cf' = [cf EXCEPT !.lines = piece]
  /\ InnerExits(1)
  /\ faults' = faults \cup {"torn"}
  /\ UNCHANGED <<world, corpus, outer, known, result, starts, recorded>>

\* SIGUSR1: MaybeExitGracefully ends the process with exit code 0 before the next input.
ExitsGracefully ==
  /\ inner.pc = "next" /\ inner.i <= cf.n
  /\ InnerExits(0)
  /\ faults' = faults \cup {"usr1"}
  /\ UNCHANGED <<world, corpus, cf, outer, known, result, starts, recorded>>

InnerDone ==
  /\ inner.pc = "next" /\ inner.i > cf.n
  /\ InnerExits(0)
  /\ UNCHANGED <<world, corpus, cf, outer, known, result, starts, history>>
-----------------------------------------------------------------------------
Inner == \/ InnerStart \/ MarkStarted \/ InputGone \/ InputCrashes \/ WriteRecord
         \/ DiesInRecord \/ ExitsGracefully \/ InnerDone

Outer == \/ NothingToDo \/ Continue \/ StartAfresh \/ WriteNewControlFile \/ Conclude \/ CopyFile \/ Copied

Next == Inner \/ Outer \/ KilledWriting \/ Killed \/ Restart

Spec == Init /\ [][Next]_vars
-----------------------------------------------------------------------------
(* Properties. *)

Concluded == outer \in {"copy", "done"}

\* "Every inner process should execute at least one input" (FuzzerMerge.cpp:488), so as many
\* attempts as there are inputs are enough: when the outer process goes on to the merge, every
\* input of the control file was started, unless a record was torn, an input is missing or the
\* inner process was told to stop.
EveryInputTried ==
  Concluded /\ faults \cap {"torn", "usr1", "gone"} = {} => FirstNotProcessedFile(cf) = cf.n + 1

View(S) == IF IsSetCoverMerge THEN {Slot(f) : f \in S} ELSE S
FeaturesOf(files) == UNION {feat[f[2]] : f \in files}

\* No coverage is lost: whatever an input with a record covers, the first corpus with the new
\* files covers too, although a record leaves out what its process met before, some inputs
\* crashed, and records of an earlier merge are reused.  (A set cover merge sees features
\* modulo the size of its bit vector.)
NoFeatureLost ==
  outer = "copy" /\ "torn" \notin faults =>
    View(FeaturesOf(recorded)) \subseteq
      View(Initial \cup FeaturesOf({cf.names[k] : k \in 1..cf.old} \cup Range(result.files))
           \cup UNION {feat[x] : x \in corpus.out})

\* "Outer process. Does not call the target code and thus should not fail." (FuzzerMerge.cpp:426):
\* it fails only when a record was torn, when the control file lists nothing (it could not be
\* written, or every input is known from the merge before), or at a file that is no longer there.
FailureExplained ==
  outer = "failed" => \/ "torn" \in faults
                      \/ cf.names = <<>>
                      \/ result.files # <<>> /\ ~Exists(Head(result.files))
=============================================================================
