--------------------------- MODULE CrashMerge_proofs ---------------------------
(***************************************************************************)
(* Proofs about CrashMerge, for any inputs, any number of restarts and     *)
(* either kind of merge: every input is tried, no feature that was         *)
(* recorded is lost, and the outer process fails for named reasons only.   *)
(***************************************************************************)
EXTENDS CrashMerge, SequenceTheorems, FiniteSetTheorems, WellFoundedInduction, TLAPS

FileIds == {"old", "out", "new"} \X Contents
Infos == [name : FileIds, ft : SUBSET Features, cov : SUBSET Features, size : Nat]
Lines == [m : {"STARTED", "FT", "COV", "?"}, i : Nat, fts : SUBSET Features, nl : BOOLEAN]

Typed ==
  /\ feat \in [Contents -> SUBSET Features] /\ IsSetCoverMerge \in BOOLEAN
  /\ corpus \in [old : SUBSET Contents, new : SUBSET Contents, out : SUBSET Contents]
  /\ IsFiniteSet(corpus.old) /\ IsFiniteSet(corpus.new) /\ IsFiniteSet(corpus.out)
  /\ cf \in [n : Nat, old : Nat, names : Seq(FileIds), lines : Seq(Lines)]
  /\ known \in Seq(Infos) /\ result.files \in Seq(FileIds)
  /\ inner \in [pc : {"none", "next", "run"}, i : Nat, all : SUBSET Features]
  /\ attempts \in Nat /\ recorded \subseteq FileIds

\* The phases of the two processes, and what they leave of the control file's header.
Control ==
  /\ inner.pc = "none" => inner.all = {}
  /\ inner.pc # "none" => outer = "loop" /\ attempts > 0 /\ inner.i > 0
  /\ inner.pc = "run" => inner.i \in DOMAIN cf.names
  /\ \/ cf.n = Len(cf.names) /\ cf.old <= cf.n
     \/ cf.names = <<>> /\ cf.lines = <<>> /\ outer \notin {"loop", "copy", "done"}
  /\ outer \in {"begin", "killed"} => known = <<>>
  /\ outer = "write" /\ known = <<>> => recorded = {}

\* How many inputs were started.
Started(f) == Cardinality(Before(f, Len(f.lines) + 1, "STARTED"))
Tried == Started(cf)

\* A line that no crash has torn; a record holds features of its input.
LinesOK ==
  \A k \in DOMAIN cf.lines :
    /\ cf.lines[k].nl /\ LineOK(cf, k)
    /\ cf.lines[k].m = "FT" =>
         cf.lines[k].i \in DOMAIN cf.names /\ cf.lines[k].fts \subseteq feat[cf.names[cf.lines[k].i][2]]

\* The inner process is where the control file says.
Position ==
  /\ Tried <= Len(cf.names)
  /\ inner.pc = "next" => inner.i = Tried + 1
  /\ inner.pc = "run" =>
       /\ inner.i = Tried
       /\ cf.lines # <<>> /\ Last(cf.lines).m = "STARTED" /\ Last(cf.lines).i = inner.i

\* As many attempts are left as inputs, one more while an input runs.
Counted ==
  faults \cap {"usr1", "gone"} = {} =>
    /\ outer = "loop" => attempts + Tried >= Len(cf.names)
    /\ outer = "loop" /\ inner.pc = "run" => attempts + Tried > Len(cf.names)
    /\ Concluded => Tried = Len(cf.names)

\* The features that the records of the control file hold.
Have(lines) == UNION {lines[k].fts : k \in {k \in DOMAIN lines : lines[k].m = "FT"}}

\* What a record leaves out is in another record of the control file, or of KnownFiles for what the
\* outer process knows from the merge before.
Records ==
  /\ inner.all \subseteq Have(cf.lines)
  /\ \A k \in DOMAIN known : known[k].ft \subseteq feat[known[k].name[2]]
  /\ \A r \in recorded :
       \/ r \in KnownNames /\ feat[r[2]] \subseteq FeaturesIn(known)
       \/ r \in Range(cf.names) /\ feat[r[2]] \subseteq Have(cf.lines)
  /\ outer = "write" => \A r \in recorded : r \in KnownNames /\ feat[r[2]] \subseteq FeaturesIn(known)

Intact == LinesOK /\ Position /\ Counted /\ Records

IInv ==
  /\ Typed /\ Control /\ ("torn" \notin faults => Intact)
  /\ NoFeatureLost /\ FailureExplained
-----------------------------------------------------------------------------
(* Sets in order. *)

StrictOrder(S, R) ==
  /\ \A x \in S : <<x, x>> \notin R
  /\ \A x, y, z \in S : <<x, y>> \in R /\ <<y, z>> \in R => <<x, z>> \in R
  /\ \A x, y \in S : x # y => <<x, y>> \in R \/ <<y, x>> \in R

\* Every member has its place.
LEMMA InOrderFacts ==
  ASSUME NEW S, IsFiniteSet(S), NEW R, StrictOrder(S, R)
  PROVE  /\ InOrder(S, R) \in Seq(S) /\ Len(InOrder(S, R)) = Cardinality(S)
         /\ DOMAIN InOrder(S, R) = 1..Cardinality(S)
         /\ Range(InOrder(S, R)) = S
<1> DEFINE n == Cardinality(S)
           below(x) == {y \in S : <<y, x>> \in R}
           place == [x \in S |-> Cardinality(below(x)) + 1]
<1>1. n \in Nat
  BY FS_CardinalityType
<1>2. ASSUME NEW x \in S
      PROVE  /\ IsFiniteSet(below(x)) /\ Cardinality(below(x)) \in Nat
             /\ Cardinality(below(x)) < n
  <2>1. below(x) \subseteq S /\ x \notin below(x)
    BY DEF StrictOrder
  <2>2. IsFiniteSet(below(x)) /\ Cardinality(below(x)) <= n /\ Cardinality(below(x)) # n
    BY <2>1, FS_Subset
  <2> QED BY <1>1, <2>2, FS_CardinalityType
<1>3. place \in [S -> 1..n]
  <2>1. \A x \in S : Cardinality(below(x)) + 1 \in 1..n
    <3> HIDE DEF below, n
    <3> QED BY <1>1, <1>2
  <2> QED BY <2>1
<1>4. ASSUME NEW x \in S, NEW y \in S, <<x, y>> \in R
      PROVE  Cardinality(below(x)) < Cardinality(below(y))
  <2>1. below(x) \subseteq below(y) /\ x \in below(y) /\ x \notin below(x)
    BY <1>4 DEF StrictOrder
  <2> HIDE DEF below
  <2>2. IsFiniteSet(below(y)) /\ Cardinality(below(x)) \in Nat /\ Cardinality(below(y)) \in Nat
    BY <1>2
  <2>3. Cardinality(below(x)) <= Cardinality(below(y)) /\ Cardinality(below(x)) # Cardinality(below(y))
    BY <2>1, <2>2, FS_Subset
  <2> QED BY <2>2, <2>3
<1>5. ASSUME NEW x \in S, NEW y \in S, x # y
      PROVE  Cardinality(below(x)) # Cardinality(below(y))
  <2>1. <<x, y>> \in R \/ <<y, x>> \in R
    BY <1>5 DEF StrictOrder
  <2> HIDE DEF below
  <2>2. Cardinality(below(x)) \in Nat /\ Cardinality(below(y)) \in Nat
    BY <1>2
  <2> QED BY <1>4, <2>1, <2>2
<1>6. place \in Injection(S, 1..n)
  <2>1. \A x \in S : place[x] = Cardinality(below(x)) + 1 /\ Cardinality(below(x)) \in Nat
    BY <1>2
  <2>2. \A x, y \in S : place[x] = place[y] => x = y
    <3> HIDE DEF below, place
    <3> QED BY <1>5, <2>1
  <2>3. DOMAIN place = S
    OBVIOUS
  <2> HIDE DEF place
  <2> QED BY <1>3, <2>2, <2>3 DEF Injection, IsInjective
<1>7. place \in Surjection(S, 1..n)
  <2>1. IsFiniteSet(1..n) /\ Cardinality(1..n) = n
    BY <1>1, FS_Interval
  <2> QED BY <1>6, <2>1, FS_Injection
<1>8. ASSUME NEW k \in 1..n
      PROVE  \E x \in S : Cardinality(below(x)) = k - 1
  <2>1. PICK x \in S : place[x] = k
    BY <1>7, <1>8 DEF Surjection
  <2>2. Cardinality(below(x)) + 1 = k
    BY <2>1
  <2> HIDE DEF below, place
  <2> QED BY <1>2, <2>2
<1> DEFINE s == InOrder(S, R)
<1>9. s = [k \in 1..n |-> CHOOSE x \in S : Cardinality(below(x)) = k - 1]
  BY DEF InOrder
<1>10. \A k \in 1..n : s[k] \in S /\ Cardinality(below(s[k])) = k - 1
  BY <1>8, <1>9
<1>11. DOMAIN s = 1..n
  BY <1>9
<1>12. \A x \in S : \E k \in 1..n : s[k] = x
  <2> SUFFICES ASSUME NEW x \in S PROVE \E k \in 1..n : s[k] = x
    OBVIOUS
  <2> DEFINE k == Cardinality(below(x)) + 1
  <2> HIDE DEF s, below, n
  <2>1. k \in 1..n /\ Cardinality(below(x)) = k - 1
    BY <1>1, <1>2
  <2> HIDE DEF k
  <2>2. s[k] \in S /\ Cardinality(below(s[k])) = k - 1
    BY <1>10, <2>1
  <2>3. s[k] = x
    BY <1>5, <2>1, <2>2
  <2> QED BY <2>1, <2>3
<1>13. s \in Seq(S)
  <2>1. \A k \in 1..n : (CHOOSE x \in S : Cardinality(below(x)) = k - 1) \in S
    BY <1>8
  <2>2. s \in [1..n -> S]
    BY <1>9, <2>1
  <2> HIDE DEF s, n
  <2> QED BY <1>1, <2>2
<1>14. Len(s) = n
  <2> HIDE DEF s
  <2> QED BY <1>1, <1>11, <1>13
<1>15. Range(s) = S
  <2> HIDE DEF s
  <2> QED BY <1>10, <1>11, <1>12 DEF Range
<1> QED BY <1>11, <1>13, <1>14, <1>15

LEMMA SortedFacts ==
  ASSUME NEW files, files \subseteq FileIds, IsFiniteSet(files)
  PROVE  /\ Sorted(files) \in Seq(FileIds) /\ Len(Sorted(files)) \in Nat
         /\ Range(Sorted(files)) = files
<1> DEFINE before(f, g) == Size[f[2]] < Size[g[2]] \/ (Size[f[2]] = Size[g[2]] /\ Rank[f] < Rank[g])
           R == {p \in files \X files : before(p[1], p[2])}
<1>1. \A f \in files : Size[f[2]] \in Nat /\ Rank[f] \in Nat
  BY SizeAssumption, RankAssumption DEF FileIds, SizeAssumption, RankAssumption
<1>2. \A f, g \in files : Rank[f] = Rank[g] => f = g
  BY RankAssumption DEF FileIds, RankAssumption
<1>3. \A f, g \in files : <<f, g>> \in R <=> before(f, g)
  OBVIOUS
<1>4. /\ \A f \in files : ~before(f, f)
      /\ \A f, g, h \in files : before(f, g) /\ before(g, h) => before(f, h)
      /\ \A f, g \in files : f # g => before(f, g) \/ before(g, f)
  BY <1>1, <1>2
<1>5. StrictOrder(files, R)
  <2> HIDE DEF R, before
  <2> QED BY <1>3, <1>4 DEF StrictOrder
<1>6. Sorted(files) = InOrder(files, R)
  BY DEF Sorted
<1> HIDE DEF R
<1>7. Sorted(files) \in Seq(files) /\ Range(Sorted(files)) = files
  BY <1>5, <1>6, InOrderFacts
<1> QED BY <1>7, SeqMonotonic, LenProperties

\* The files of the directories.
LEMMA CorpusFiles ==
  ASSUME Typed
  PROVE  /\ OldCorpus \subseteq FileIds /\ NewCorpus \subseteq FileIds
         /\ IsFiniteSet(OldCorpus) /\ IsFiniteSet(NewCorpus)
         /\ \A f \in FileIds : Exists(f) => f \in OldCorpus \cup NewCorpus
<1>1. OldCorpus \subseteq FileIds /\ NewCorpus \subseteq FileIds
  BY DEF Typed, OldCorpus, NewCorpus, FileIds
<1>2. IsFiniteSet({"old"} \X corpus.old) /\ IsFiniteSet({"out"} \X corpus.out) /\ IsFiniteSet({"new"} \X corpus.new)
  BY FS_Product, FS_Singleton DEF Typed
<1>3. IsFiniteSet(OldCorpus) /\ IsFiniteSet(NewCorpus)
  BY <1>2, FS_Union DEF OldCorpus, NewCorpus
<1>4. ASSUME NEW f \in FileIds, Exists(f)
      PROVE  f \in OldCorpus \cup NewCorpus
  <2>1. f = <<f[1], f[2]>> /\ f[1] \in {"old", "out", "new"} /\ f[2] \in Contents
    BY DEF FileIds
  <2>2. CASE f[1] = "old"
    <3>1. f[2] \in corpus.old
      BY <1>4, <2>2 DEF Exists
    <3> QED BY <2>1, <2>2, <3>1 DEF OldCorpus
  <2>3. CASE f[1] = "out"
    <3>1. f[2] \in corpus.out
      BY <1>4, <2>3 DEF Exists
    <3> QED BY <2>1, <2>3, <3>1 DEF OldCorpus
  <2>4. CASE f[1] = "new"
    <3>1. f[2] \in corpus.new
      BY <1>4, <2>4 DEF Exists
    <3> QED BY <2>1, <2>4, <3>1 DEF NewCorpus
  <2> QED BY <2>1, <2>2, <2>3, <2>4
<1> QED BY <1>1, <1>3, <1>4
-----------------------------------------------------------------------------
(* The lines of the control file. *)

\* The greatest of some positions.
LEMMA MaxIn ==
  ASSUME NEW n \in Nat, NEW S, S \subseteq 1..n, S # {}
  PROVE  Max(S) \in S /\ \A y \in S : y <= Max(S)
<1> DEFINE T == {n - y : y \in S}
<1>1. T \subseteq Nat /\ T # {}
  <2>1. \A y \in S : n - y \in Nat
    OBVIOUS
  <2> QED BY <2>1
<1>2. PICK t \in T : \A y \in T : ~ (<<y, t>> \in OpToRel(<, Nat))
  BY <1>1, WFMin, NatLessThanWellFounded
<1>3. \A y \in T : ~ (y < t)
  BY <1>1, <1>2 DEF OpToRel
<1>4. PICK x \in S : t = n - x
  BY <1>2
<1>5. \A y \in S : x >= y
  <2> SUFFICES ASSUME NEW y \in S PROVE x >= y
    OBVIOUS
  <2>1. n - y \in T
    OBVIOUS
  <2> HIDE DEF T
  <2>2. ~ (n - y < t)
    BY <1>3, <2>1
  <2>3. x \in 1..n /\ y \in 1..n
    OBVIOUS
  <2> QED BY <1>4, <2>2, <2>3
<1>6. \E m \in S : \A y \in S : m >= y
  BY <1>5
<1>7. Max(S) \in S /\ \A y \in S : Max(S) >= y
  BY <1>6 DEF Max
<1>8. \A y \in S : y \in Int
  OBVIOUS
<1> QED BY <1>7, <1>8

LEMMA BeforeFacts ==
  ASSUME NEW f, NEW n \in Nat, NEW m
  PROVE  /\ Before(f, n + 1, m) \subseteq 1..n /\ IsFiniteSet(Before(f, n + 1, m))
         /\ Cardinality(Before(f, n + 1, m)) \in Nat
<1>1. Before(f, n + 1, m) \subseteq 1..n
  BY DEF Before
<1>2. IsFiniteSet(1..n)
  BY FS_Interval
<1> QED BY <1>1, <1>2, FS_Subset, FS_CardinalityType

\* A control file with one line more.
LEMMA OneLineMore ==
  ASSUME NEW f, f.lines \in Seq(Lines), NEW l \in Lines, NEW g, g.lines = Append(f.lines, l), NEW n, n = Len(f.lines)
  PROVE  /\ g.lines \in Seq(Lines) /\ n \in Nat /\ Len(g.lines) = n + 1
         /\ DOMAIN f.lines = 1..n /\ DOMAIN g.lines = 1..(n + 1)
         /\ \A k \in 1..n : g.lines[k] = f.lines[k]
         /\ g.lines[n + 1] = l
         /\ \A m : \A k \in 1..(n + 1) : Before(g, k, m) = Before(f, k, m)
         /\ \A k \in 1..n : LineOK(f, k) => LineOK(g, k)
         /\ l.m = "STARTED" => Started(g) = Started(f) + 1
         /\ l.m # "STARTED" => Started(g) = Started(f)
<1>1. /\ g.lines \in Seq(Lines) /\ n \in Nat /\ Len(g.lines) = n + 1
      /\ DOMAIN f.lines = 1..n /\ DOMAIN g.lines = 1..(n + 1)
      /\ \A k \in 1..n : g.lines[k] = f.lines[k]
      /\ g.lines[n + 1] = l
  BY AppendProperties, LenProperties
<1>2. ASSUME NEW m, NEW k \in 1..(n + 1)
      PROVE  Before(g, k, m) = Before(f, k, m)
  <2>1. \A j \in 1..(k - 1) : g.lines[j] = f.lines[j]
    BY <1>1
  <2> QED BY <2>1 DEF Before
<1>3. ASSUME NEW m
      PROVE  /\ m = l.m => Before(g, n + 2, m) = Before(f, n + 1, m) \cup {n + 1}
             /\ m # l.m => Before(g, n + 2, m) = Before(f, n + 1, m)
  <2>1. 1..(n + 2 - 1) = (1..(n + 1 - 1)) \cup {n + 1} /\ 1..(n + 1 - 1) = 1..n
    BY <1>1
  <2> QED BY <1>1, <2>1 DEF Before
<1>4. ASSUME NEW k \in 1..n, LineOK(f, k)
      PROVE  LineOK(g, k)
  <2> DEFINE started == Before(f, k, "STARTED")
  <2>1. g.lines[k] = f.lines[k] /\ \A m : Before(g, k, m) = Before(f, k, m)
    BY <1>1, <1>2
  <2>2. ASSUME started # {}
        PROVE  g.lines[Max(started)] = f.lines[Max(started)]
    <3>1. started \subseteq 1..n
      BY <1>1 DEF Before
    <3>2. Max(started) \in started
      BY <1>1, <2>2, <3>1, MaxIn
    <3> QED BY <1>1, <3>1, <3>2
  <2> QED BY <1>4, <2>1, <2>2 DEF LineOK
<1>5. /\ l.m = "STARTED" => Started(g) = Started(f) + 1
      /\ l.m # "STARTED" => Started(g) = Started(f)
  <2>1. /\ Before(f, n + 1, "STARTED") \subseteq 1..n /\ IsFiniteSet(Before(f, n + 1, "STARTED"))
        /\ n + 1 \notin 1..n /\ Len(g.lines) + 1 = n + 2
    BY <1>1, BeforeFacts
  <2>2. Cardinality(Before(f, n + 1, "STARTED") \cup {n + 1}) = Cardinality(Before(f, n + 1, "STARTED")) + 1
    BY <2>1, FS_AddElement
  <2> QED BY <1>3, <2>1, <2>2 DEF Started
<1> QED BY <1>1, <1>2, <1>4, <1>5

\* What a line more says of the features.
LEMMA OneRecordMore ==
  ASSUME NEW lines \in Seq(Lines), NEW l \in Lines
  PROVE  \A x : x \in Have(Append(lines, l)) <=> x \in Have(lines) \/ (l.m = "FT" /\ x \in l.fts)
<1> DEFINE n == Len(lines)
           g == Append(lines, l)
<1>1. /\ n \in Nat /\ DOMAIN lines = 1..n /\ DOMAIN g = 1..(n + 1)
      /\ \A k \in 1..n : g[k] = lines[k]
      /\ g[n + 1] = l
  BY AppendProperties, LenProperties
<1> HIDE DEF g
<1>2. \A k \in DOMAIN g : (k \in 1..n /\ g[k] = lines[k]) \/ (k = n + 1 /\ g[k] = l)
  BY <1>1
<1>3. \A k \in 1..n : k \in DOMAIN g /\ k \in DOMAIN lines
  BY <1>1
<1>4. n + 1 \in DOMAIN g
  BY <1>1
<1>5. \A x : x \in Have(g) <=> x \in Have(lines) \/ (l.m = "FT" /\ x \in l.fts)
  BY <1>1, <1>2, <1>3, <1>4 DEF Have
<1> QED BY <1>5 DEF g

LEMMA AppendLineTyped ==
  ASSUME NEW lines \in Seq(Lines), NEW l \in Lines
  PROVE  AppendLine(lines, l) \in Seq(Lines)
<1>1. CASE lines # <<>> /\ ~Last(lines).nl
  <2>1. Len(lines) \in 1..Len(lines) /\ lines[Len(lines)] \in Lines
    BY <1>1, EmptySeq, ElementOfSeq
  <2> DEFINE e == [lines[Len(lines)] EXCEPT !.nl = TRUE]
  <2>2. e \in Lines
    BY <2>1 DEF Lines
  <2>3. AppendLine(lines, l) = [lines EXCEPT ![Len(lines)] = e]
    BY <1>1 DEF AppendLine
  <2> QED BY <2>1, <2>2, <2>3, ExceptSeq
<1>2. CASE ~(lines # <<>> /\ ~Last(lines).nl)
  BY <1>2, AppendProperties DEF AppendLine
<1> QED BY <1>1, <1>2

\* Without a torn line, lines are only added.
LEMMA AppendLineIntact ==
  ASSUME NEW lines \in Seq(Lines), \A k \in DOMAIN lines : lines[k].nl, NEW l
  PROVE  AppendLine(lines, l) = Append(lines, l)
<1>1. lines # <<>> => Last(lines).nl
  <2> SUFFICES ASSUME lines # <<>> PROVE lines[Len(lines)].nl
    BY DEF Last
  <2> QED BY EmptySeq, LenProperties
<1> QED BY <1>1 DEF AppendLine
-----------------------------------------------------------------------------
(* What the merges keep. *)

LEMMA MinIn ==
  ASSUME NEW S, S \subseteq Nat, S # {}
  PROVE  \E x \in S : \A y \in S : x <= y
<1>1. PICK x \in S : \A y \in S : ~ (<<y, x>> \in OpToRel(<, Nat))
  BY WFMin, NatLessThanWellFounded
<1>2. \A y \in S : ~ (y < x)
  BY <1>1 DEF OpToRel
<1> QED BY <1>2

\* The files after the first old ones.
LEMMA RestOfFiles ==
  ASSUME NEW files \in Seq(Infos), NEW old \in 0..Len(files), NEW rest, rest = SubSeq(files, old + 1, Len(files))
  PROVE  /\ rest \in Seq(Infos) /\ Len(rest) = Len(files) - old /\ Len(rest) \in Nat
         /\ DOMAIN rest = 1..Len(rest) /\ DOMAIN files = 1..Len(files)
         /\ \A i \in 1..Len(rest) : rest[i] = files[old + i] /\ old + i \in DOMAIN files
         /\ \A i \in 1..old : files[i].ft \subseteq FeaturesIn(SubSeq(files, 1, old))
<1>1. Len(files) \in Nat /\ DOMAIN files = 1..Len(files) /\ \A i \in 1..Len(files) : files[i] \in Infos
  BY LenProperties, ElementOfSeq
<1>2. /\ rest \in Seq(Infos) /\ Len(rest) = (IF old + 1 <= Len(files) THEN Len(files) - (old + 1) + 1 ELSE 0)
      /\ \A i \in 1..(Len(files) - (old + 1) + 1) : rest[i] = files[old + 1 + i - 1]
  <2>1. \A i \in (old + 1)..Len(files) : files[i] \in Infos
    BY <1>1
  <2> QED BY <1>1, <2>1, SubSeqProperties
<1>3. Len(rest) = Len(files) - old /\ Len(rest) \in Nat /\ DOMAIN rest = 1..Len(rest)
  BY <1>1, <1>2, LenProperties
<1>4. \A i \in 1..Len(rest) : rest[i] = files[old + i] /\ old + i \in DOMAIN files
  <2> DEFINE m == Len(rest)
             n == Len(files)
  <2>0. m = n - old /\ m \in Nat /\ n \in Nat
    BY <1>1, <1>3
  <2> HIDE DEF m, n
  <2>1. \A i \in 1..m : i \in 1..(n - (old + 1) + 1) /\ old + 1 + i - 1 = old + i /\ old + i \in 1..n
    BY <2>0
  <2>2. \A i \in 1..m : rest[i] = files[old + i] /\ old + i \in 1..n
    BY <1>2, <2>1 DEF n
  <2> QED BY <1>1, <2>2 DEF m, n
<1>5. \A i \in 1..old : files[i].ft \subseteq FeaturesIn(SubSeq(files, 1, old))
  <2>1. \A i \in 1..old : files[i] \in Infos
    BY <1>1
  <2>2. /\ SubSeq(files, 1, old) \in Seq(Infos)
        /\ \A i \in 1..(old - 1 + 1) : SubSeq(files, 1, old)[i] = files[1 + i - 1]
        /\ Len(SubSeq(files, 1, old)) = (IF 1 <= old THEN old - 1 + 1 ELSE 0)
    BY <2>1, SubSeqProperties
  <2>3. DOMAIN SubSeq(files, 1, old) = 1..old
    BY <2>2, LenProperties
  <2>4. \A i \in 1..old : SubSeq(files, 1, old)[i] = files[i]
    BY <2>2
  <2> QED BY <2>3, <2>4 DEF FeaturesIn
<1> QED BY <1>1, <1>2, <1>3, <1>4, <1>5

\* A feature that is not known comes with the first of the chosen files that has it.
LEMMA MergeKeeps ==
  ASSUME NEW files \in Seq(Infos), NEW old \in 0..Len(files), NEW r \in Merge(files, old)
  PROVE  /\ r.files \in Seq(FileIds)
         /\ \A i \in DOMAIN files : \A f \in files[i].ft :
              \/ f \in Initial \cup FeaturesIn(SubSeq(files, 1, old))
              \/ \E k \in DOMAIN r.files : \E j \in DOMAIN files : r.files[k] = files[j].name /\ f \in files[j].ft
<1> DEFINE start == Initial \cup FeaturesIn(SubSeq(files, 1, old))
           rest == SubSeq(files, old + 1, Len(files))
           more == [i \in DOMAIN rest |-> rest[i].ft \ start]
           adds(o) == {k \in DOMAIN o : ~ (more[o[k]] \subseteq UNION {more[o[j]] : j \in 1..(k - 1)})}
           chosen(o) == InOrder(adds(o), {p \in adds(o) \X adds(o) : p[1] < p[2]})
           before(i, j) == \/ rest[i].size < rest[j].size
                           \/ rest[i].size = rest[j].size /\ Cardinality(more[i]) > Cardinality(more[j])
           orders == {o \in SetToSeqs(DOMAIN rest) : \A a, b \in DOMAIN o : a < b => ~before(o[b], o[a])}
           names(o) == [k \in DOMAIN chosen(o) |-> rest[o[chosen(o)[k]]].name]
           F == UNION {more[i] : i \in DOMAIN rest}
           C == (UNION {rest[i].cov : i \in DOMAIN rest}) \ Initial
<1>1. PICK o \in SetToSeqs(DOMAIN rest) : r.files = names(o)
  <2>1. Merge(files, old) = {[files |-> names(o), features |-> F, cov |-> C] : o \in orders}
    BY DEF Merge
  <2> HIDE DEF names, F, C
  <2>2. PICK o \in orders : r = [files |-> names(o), features |-> F, cov |-> C]
    BY <2>1
  <2>3. o \in SetToSeqs(DOMAIN rest)
    OBVIOUS
  <2> QED BY <2>2, <2>3
<1>2. /\ rest \in Seq(Infos) /\ Len(rest) = Len(files) - old /\ Len(rest) \in Nat
      /\ DOMAIN rest = 1..Len(rest) /\ DOMAIN files = 1..Len(files)
      /\ \A i \in 1..Len(rest) : rest[i] = files[old + i] /\ old + i \in DOMAIN files
      /\ \A i \in 1..old : files[i].ft \subseteq FeaturesIn(SubSeq(files, 1, old))
  BY RestOfFiles
<1> DEFINE n == Len(rest)
<1> HIDE DEF rest, n
<1>3. o \in [1..n -> 1..n] /\ DOMAIN o = 1..n /\ (\A i, j \in 1..n : i # j => o[i] # o[j])
  <2>1. Cardinality(1..n) = n
    BY <1>2, FS_Interval DEF n
  <2> QED BY <1>1, <1>2, <2>1 DEF SetToSeqs, n
<1>4. \A i \in 1..n : \E q \in 1..n : o[q] = i
  <2>1. o \in Injection(1..n, 1..n)
    BY <1>3 DEF Injection, IsInjective
  <2>2. IsFiniteSet(1..n)
    BY <1>2, FS_Interval DEF n
  <2>3. o \in Surjection(1..n, 1..n)
    BY <2>1, <2>2, FS_Injection
  <2> QED BY <2>3 DEF Surjection
<1> DEFINE A == adds(o)
           c == chosen(o)
<1>5. A \subseteq 1..n /\ IsFiniteSet(A)
  <2>1. A \subseteq 1..n
    BY <1>3
  <2>2. IsFiniteSet(1..n)
    BY <1>2, FS_Interval DEF n
  <2> HIDE DEF A
  <2> QED BY <2>1, <2>2, FS_Subset
<1>6. c \in Seq(A) /\ Range(c) = A
  <2> DEFINE R == {p \in A \X A : p[1] < p[2]}
  <2>1. c = InOrder(A, R)
    OBVIOUS
  <2> HIDE DEF A, c
  <2>2. StrictOrder(A, R)
    <3>1. \A x, y \in A : <<x, y>> \in R <=> x < y
      OBVIOUS
    <3>2. \A x \in A : x \in Int
      BY <1>2, <1>5 DEF n
    <3> HIDE DEF R
    <3> QED BY <3>1, <3>2 DEF StrictOrder
  <2> HIDE DEF R
  <2> QED BY <1>5, <2>1, <2>2, InOrderFacts
<1>7. A = {k \in 1..n : ~ (more[o[k]] \subseteq UNION {more[o[j]] : j \in 1..(k - 1)})}
  BY <1>3
<1>8. \A i \in 1..n : more[i] = rest[i].ft \ start
  BY <1>2 DEF n
<1>9. r.files = [k \in DOMAIN c |-> rest[o[c[k]]].name]
  BY <1>1
<1> HIDE DEF A, c, more, start
<1>10. r.files \in Seq(FileIds)
  <2>1. Len(c) \in Nat /\ DOMAIN c = 1..Len(c) /\ \A k \in 1..Len(c) : c[k] \in A
    BY <1>6, LenProperties, ElementOfSeq
  <2>2. \A k \in 1..Len(c) : o[c[k]] \in 1..n
    BY <1>3, <1>5, <2>1
  <2>3. \A i \in 1..n : rest[i].name \in FileIds
    <3>1. \A i \in 1..n : rest[i] \in Infos
      BY <1>2, ElementOfSeq DEF n
    <3> QED BY <3>1 DEF Infos
  <2>4. \A k \in 1..Len(c) : rest[o[c[k]]].name \in FileIds
    BY <2>2, <2>3
  <2>5. r.files \in [1..Len(c) -> FileIds]
    BY <1>9, <2>1, <2>4
  <2> QED BY <2>1, <2>5
<1>11. ASSUME NEW i \in DOMAIN files, NEW f \in files[i].ft, f \notin start
       PROVE  \E k \in DOMAIN r.files : \E j \in DOMAIN files : r.files[k] = files[j].name /\ f \in files[j].ft
  <2>1. i \in 1..Len(files) /\ Len(files) \in Nat
    BY <1>2, LenProperties
  <2>2. ~ (i <= old)
    BY <1>2, <1>11, <2>1 DEF start
  <2>3. i - old \in 1..n /\ old + (i - old) = i
    BY <1>2, <2>1, <2>2 DEF n
  <2>4. rest[i - old] = files[i]
    BY <1>2, <2>3 DEF n
  <2>5. f \in more[i - old]
    BY <1>8, <1>11, <2>3, <2>4
  <2> DEFINE Q == {q \in 1..n : f \in more[o[q]]}
  <2>6. Q # {}
    BY <1>4, <2>3, <2>5
  <2>7. PICK q \in Q : \A p \in Q : q <= p
    <3>1. Q \subseteq Nat
      BY <1>2 DEF n
    <3> HIDE DEF Q
    <3> QED BY <2>6, <3>1, MinIn
  <2>8. \A j \in 1..(q - 1) : f \notin more[o[j]]
    <3> SUFFICES ASSUME NEW j \in 1..(q - 1) PROVE j \notin Q
      BY <1>2, <2>7 DEF n
    <3> QED BY <1>2, <2>7 DEF n
  <2>9. q \in A
    BY <1>7, <2>7, <2>8
  <2>10. PICK k \in DOMAIN c : c[k] = q
    BY <1>6, <2>9 DEF Range
  <2>11. o[q] \in 1..n /\ rest[o[q]] = files[old + o[q]] /\ old + o[q] \in DOMAIN files /\ f \in rest[o[q]].ft
    BY <1>2, <1>3, <1>8, <2>7 DEF n
  <2>12. k \in DOMAIN r.files /\ r.files[k] = files[old + o[q]].name
    BY <1>9, <2>10, <2>11
  <2> QED BY <2>11, <2>12
<1> QED BY <1>10, <1>11 DEF start

\* When no file is the best, no file that is left has anything new.
LEMMA NoneBest ==
  ASSUME NEW files \in Seq(Infos), NEW left, left \subseteq DOMAIN files, NEW covered, BestOf(files, left, covered) = {},
         NEW i \in left, NEW f \in files[i].ft
  PROVE  Slot(f) \in covered
<1> DEFINE fresh(j) == {g \in files[j].ft : Slot(g) \notin covered}
           gain == [j \in left |-> Cardinality(fresh(j))]
           most == {j \in left : gain[j] > 0 /\ \A l \in left : gain[l] <= gain[j]}
           least == {j \in most : \A l \in most : files[j].size <= files[l].size}
<1>1. BestOf(files, left, covered) = {j \in least : \A l \in least : j <= l}
  BY DEF BestOf
<1>2. \A j \in left : files[j] \in Infos /\ j \in Nat
  BY LenProperties, ElementOfSeq
<1>3. ASSUME NEW j \in left
      PROVE  gain[j] \in Nat /\ gain[j] <= Cardinality(Features) /\ IsFiniteSet(fresh(j))
  <2>1. fresh(j) \subseteq Features
    BY <1>2 DEF Infos
  <2>2. gain[j] = Cardinality(fresh(j))
    OBVIOUS
  <2> HIDE DEF fresh, gain
  <2> QED BY <2>1, <2>2, FS_Subset, FS_CardinalityType, FeaturesAssumption DEF FeaturesAssumption
<1> SUFFICES ASSUME Slot(f) \notin covered PROVE FALSE
  OBVIOUS
<1>4. gain[i] > 0
  <2>1. f \in fresh(i) /\ gain[i] = Cardinality(fresh(i))
    OBVIOUS
  <2> HIDE DEF fresh, gain
  <2>2. gain[i] # 0
    BY <1>3, <2>1, FS_EmptySet
  <2> QED BY <1>3, <2>2
<1> HIDE DEF gain, fresh
<1>5. most # {}
  <2> DEFINE G == {gain[j] : j \in {j \in left : gain[j] > 0}}
             n == Cardinality(Features)
  <2>1. n \in Nat
    BY FS_CardinalityType, FeaturesAssumption DEF FeaturesAssumption
  <2> HIDE DEF n
  <2>2. \A j \in left : gain[j] \in Nat /\ gain[j] <= n
    BY <1>3 DEF n
  <2>3. G \subseteq 1..n /\ G # {}
    <3>1. \A j \in left : gain[j] > 0 => gain[j] \in 1..n
      BY <2>1, <2>2
    <3> QED BY <1>4, <3>1
  <2> HIDE DEF G
  <2>4. Max(G) \in G /\ \A y \in G : y <= Max(G)
    BY <2>1, <2>3, MaxIn
  <2>5. PICK j \in left : gain[j] > 0 /\ gain[j] = Max(G)
    BY <2>4 DEF G
  <2>6. ASSUME NEW l \in left
        PROVE  gain[l] <= gain[j]
    <3>1. CASE gain[l] > 0
      BY <2>4, <2>5, <3>1 DEF G
    <3>2. CASE ~ (gain[l] > 0)
      BY <2>2, <2>5, <3>2
    <3> QED BY <3>1, <3>2
  <2> QED BY <2>5, <2>6
<1>6. most \subseteq left
  OBVIOUS
<1> HIDE DEF most
<1>7. least # {}
  <2> DEFINE S == {files[j].size : j \in most}
  <2>1. S \subseteq Nat /\ S # {}
    BY <1>2, <1>5, <1>6 DEF Infos
  <2> HIDE DEF S
  <2>2. PICK x \in S : \A y \in S : x <= y
    BY <2>1, MinIn
  <2>3. PICK j \in most : files[j].size = x
    BY DEF S
  <2>4. \A l \in most : files[j].size <= files[l].size
    BY <2>2, <2>3 DEF S
  <2> QED BY <2>4
<1>8. least \subseteq Nat
  BY <1>2, <1>6
<1> HIDE DEF least
<1> QED BY <1>1, <1>7, <1>8, MinIn

\* The slot of a feature is that of an old one, or of one in a chosen file.
LEMMA SetCoverKeeps ==
  ASSUME NEW files \in Seq(Infos), NEW old \in 0..Len(files), NEW r \in SetCoverMerge(files, old)
  PROVE  /\ r.files \in Seq(FileIds)
         /\ \A i \in DOMAIN files : \A f \in files[i].ft :
              \/ \E g \in Initial \cup FeaturesIn(SubSeq(files, 1, old)) : Slot(g) = Slot(f)
              \/ \E k \in DOMAIN r.files : \E j \in DOMAIN files :
                   r.files[k] = files[j].name /\ \E g \in files[j].ft : Slot(g) = Slot(f)
<1> DEFINE start == {Slot(f) : f \in Initial \cup FeaturesIn(SubSeq(files, 1, old))}
           slots(S) == {Slot(f) : f \in UNION {files[i].ft : i \in S}}
           rest == (old + 1)..Len(files)
           best(S) == BestOf(files, rest \ S, start \cup slots(S))
           taken(p, k) == {p[j] : j \in 1..(k - 1)}
           picks == {p \in SetToAllKPermutations(rest) :
                       best(ToSet(p)) = {} /\ \A k \in DOMAIN p : p[k] \in best(taken(p, k))}
           fresh(p, k) == {f \in files[p[k]].ft : Slot(f) \notin start \cup slots(taken(p, k))}
           first(S) == {f \in S : \A g \in S : Slot(g) = Slot(f) => f <= g}
           names(p) == [k \in DOMAIN p |-> files[p[k]].name]
           F(p) == UNION {first(fresh(p, k)) : k \in DOMAIN p}
           C(p) == (UNION {files[p[k]].cov : k \in DOMAIN p}) \ Initial
<1>1. PICK p \in SetToAllKPermutations(rest) : r.files = names(p) /\ best(ToSet(p)) = {}
  <2>1. SetCoverMerge(files, old) = {[files |-> names(p), features |-> F(p), cov |-> C(p)] : p \in picks}
    BY DEF SetCoverMerge
  <2> HIDE DEF names, F, C, best
  <2>2. PICK p \in picks : r = [files |-> names(p), features |-> F(p), cov |-> C(p)]
    BY <2>1
  <2>3. p \in SetToAllKPermutations(rest) /\ best(ToSet(p)) = {}
    OBVIOUS
  <2> QED BY <2>2, <2>3
<1>2. Len(files) \in Nat /\ DOMAIN files = 1..Len(files) /\ \A i \in 1..Len(files) : files[i] \in Infos
  BY LenProperties, ElementOfSeq
<1>3. rest \subseteq DOMAIN files
  BY <1>2
<1> HIDE DEF rest, start
<1>4. PICK n \in Nat : p \in [1..n -> rest]
  <2>1. PICK S \in SUBSET rest : p \in SetToSeqs(S)
    BY <1>1 DEF SetToAllKPermutations
  <2>2. p \in [1..Cardinality(S) -> S]
    BY <2>1 DEF SetToSeqs
  <2>3. IsFiniteSet(rest)
    BY <1>2, FS_Interval DEF rest
  <2>4. Cardinality(S) \in Nat
    BY <2>3, FS_Subset, FS_CardinalityType
  <2>5. p \in [1..Cardinality(S) -> rest]
    BY <2>2
  <2> QED BY <2>4, <2>5
<1>5. r.files \in Seq(FileIds)
  <2>1. \A k \in 1..n : files[p[k]].name \in FileIds
    BY <1>2, <1>3, <1>4 DEF Infos
  <2>2. r.files \in [1..n -> FileIds]
    BY <1>1, <1>4, <2>1
  <2> QED BY <1>4, <2>2
<1>6. ASSUME NEW i \in DOMAIN files, NEW f \in files[i].ft
      PROVE  \/ Slot(f) \in start
             \/ \E k \in DOMAIN r.files : \E j \in DOMAIN files :
                  r.files[k] = files[j].name /\ \E g \in files[j].ft : Slot(g) = Slot(f)
  <2>1. CASE i <= old
    <3>1. i \in 1..old
      BY <1>2, <2>1
    <3>2. files[i].ft \subseteq FeaturesIn(SubSeq(files, 1, old))
      BY <3>1, RestOfFiles
    <3> QED BY <3>2 DEF start
  <2>2. CASE i \in rest \ ToSet(p)
    <3>1. Slot(f) \in start \cup slots(ToSet(p))
      <4> HIDE DEF slots
      <4>1. BestOf(files, rest \ ToSet(p), start \cup slots(ToSet(p))) = {}
        BY <1>1
      <4> QED BY <1>3, <2>2, <4>1, NoneBest
    <3>2. CASE Slot(f) \in slots(ToSet(p))
      <4>1. PICK j \in ToSet(p) : \E g \in files[j].ft : Slot(g) = Slot(f)
        BY <3>2
      <4>2. PICK k \in 1..n : p[k] = j
        BY <1>4, <4>1 DEF ToSet
      <4>3. j \in DOMAIN files /\ k \in DOMAIN r.files /\ r.files[k] = files[j].name
        BY <1>1, <1>3, <1>4, <4>2
      <4> QED BY <4>1, <4>3
    <3> QED BY <3>1, <3>2
  <2>3. CASE i \in ToSet(p)
    <3>1. PICK k \in 1..n : p[k] = i
      BY <1>4, <2>3 DEF ToSet
    <3>2. k \in DOMAIN r.files /\ r.files[k] = files[i].name
      BY <1>1, <1>4, <3>1
    <3> QED BY <3>2
  <2> QED BY <1>2, <2>1, <2>2, <2>3 DEF rest
<1> QED BY <1>5, <1>6 DEF start
-----------------------------------------------------------------------------
(* Parsing a control file. *)

LEMMA CfFacts ==
  ASSUME Typed
  PROVE  /\ cf.names \in Seq(FileIds) /\ Len(cf.names) \in Nat /\ DOMAIN cf.names = 1..Len(cf.names)
         /\ \A i \in DOMAIN cf.names : cf.names[i] \in FileIds /\ cf.names[i][2] \in Contents
         /\ cf.lines \in Seq(Lines) /\ Len(cf.lines) \in Nat /\ DOMAIN cf.lines = 1..Len(cf.lines)
         /\ \A k \in DOMAIN cf.lines : cf.lines[k] \in Lines
         /\ Tried \in Nat /\ FirstNotProcessedFile(cf) = Tried + 1
<1>1. cf.names \in Seq(FileIds) /\ cf.lines \in Seq(Lines)
  BY DEF Typed
<1>2. /\ Len(cf.names) \in Nat /\ DOMAIN cf.names = 1..Len(cf.names)
      /\ Len(cf.lines) \in Nat /\ DOMAIN cf.lines = 1..Len(cf.lines)
  BY <1>1, LenProperties
<1>3. \A i \in DOMAIN cf.names : cf.names[i] \in FileIds
  BY <1>1, <1>2, ElementOfSeq
<1>4. \A k \in DOMAIN cf.lines : cf.lines[k] \in Lines
  BY <1>1, <1>2, ElementOfSeq
<1>5. Tried \in Nat /\ FirstNotProcessedFile(cf) = Tried + 1
  BY <1>2, BeforeFacts DEF Tried, Started, FirstNotProcessedFile
<1>6. \A f \in FileIds : f[2] \in Contents
  BY DEF FileIds
<1> QED BY <1>1, <1>2, <1>3, <1>4, <1>5, <1>6

LEMMA ParsedFacts ==
  ASSUME Typed
  PROVE  /\ ParsedFiles(cf) \in Seq(Infos) /\ Len(ParsedFiles(cf)) = Len(cf.names)
         /\ DOMAIN ParsedFiles(cf) = DOMAIN cf.names
         /\ \A i \in DOMAIN cf.names : ParsedFiles(cf)[i].name = cf.names[i] /\ ParsedFiles(cf)[i].ft = ParsedFeatures(cf, i)
<1> DEFINE n == Len(cf.names)
           info(i) == [name |-> cf.names[i], ft |-> ParsedFeatures(cf, i), cov |-> ParsedCov(cf, i),
                       size |-> IF i < FirstNotProcessedFile(cf) THEN Size[cf.names[i][2]] ELSE 0]
<1>1. n \in Nat /\ DOMAIN cf.names = 1..n
  BY CfFacts
<1>2. ASSUME NEW i \in 1..n
      PROVE  info(i) \in Infos
  <2>1. cf.names[i] \in FileIds /\ Size[cf.names[i][2]] \in Nat
    BY <1>1, CfFacts, SizeAssumption DEF SizeAssumption
  <2>2. \A k \in DOMAIN cf.lines : cf.lines[k].fts \subseteq Features
    BY CfFacts DEF Lines
  <2>3. \A k, m : Before(cf, k, m) \subseteq 1..(k - 1)
    BY DEF Before
  <2>4. Before(cf, Len(cf.lines) + 1, "FT") \subseteq DOMAIN cf.lines /\ Before(cf, Len(cf.lines) + 1, "COV") \subseteq DOMAIN cf.lines
    BY CfFacts DEF Before
  <2>5. ParsedFeatures(cf, i) \subseteq Features
    BY <2>2, <2>4 DEF ParsedFeatures
  <2>6. ParsedCov(cf, i) \subseteq Features
    BY <2>2, <2>4 DEF ParsedCov
  <2>7. (IF i < FirstNotProcessedFile(cf) THEN Size[cf.names[i][2]] ELSE 0) \in Nat
    BY <2>1
  <2> QED BY <2>1, <2>5, <2>6, <2>7 DEF Infos
<1>3. ParsedFiles(cf) = [i \in 1..n |-> info(i)]
  BY DEF ParsedFiles
<1>4. \A i \in 1..n : info(i).name = cf.names[i] /\ info(i).ft = ParsedFeatures(cf, i)
  OBVIOUS
<1> HIDE DEF info, n
<1>5. ParsedFiles(cf) \in [1..n -> Infos]
  BY <1>2, <1>3
<1>6. ParsedFiles(cf) \in Seq(Infos) /\ DOMAIN ParsedFiles(cf) = 1..n
  BY <1>1, <1>5
<1>7. Len(ParsedFiles(cf)) = n
  BY <1>1, <1>6, LenProperties
<1> QED BY <1>1, <1>3, <1>4, <1>6, <1>7 DEF n

\* Every feature of a record is parsed for its input.
LEMMA ParsedIntact ==
  ASSUME Typed, LinesOK
  PROVE  /\ \A f \in Have(cf.lines) : \E i \in DOMAIN cf.names : f \in ParsedFeatures(cf, i)
         /\ \A i \in DOMAIN cf.names : ParsedFeatures(cf, i) \subseteq feat[cf.names[i][2]]
<1>1. Before(cf, Len(cf.lines) + 1, "FT") = {k \in DOMAIN cf.lines : cf.lines[k].m = "FT"}
  BY CfFacts DEF Before
<1> QED BY <1>1 DEF LinesOK, Have, ParsedFeatures

\* A sequence and one after it.
LEMMA Appended ==
  ASSUME NEW S, NEW p \in Seq(S), NEW q \in Seq(S)
  PROVE  /\ p \o q \in Seq(S) /\ Len(p \o q) = Len(p) + Len(q) /\ Len(p) \in Nat /\ Len(q) \in Nat
         /\ DOMAIN p = 1..Len(p) /\ DOMAIN q = 1..Len(q) /\ DOMAIN (p \o q) = 1..(Len(p) + Len(q))
         /\ \A i \in 1..Len(p) : (p \o q)[i] = p[i]
         /\ \A i \in 1..Len(q) : (p \o q)[Len(p) + i] = q[i]
<1>1. /\ p \o q \in Seq(S) /\ Len(p \o q) = Len(p) + Len(q)
      /\ \A i \in 1..(Len(p) + Len(q)) : (p \o q)[i] = IF i <= Len(p) THEN p[i] ELSE q[i - Len(p)]
  BY ConcatProperties
<1>2. Len(p) \in Nat /\ Len(q) \in Nat /\ DOMAIN p = 1..Len(p) /\ DOMAIN q = 1..Len(q)
  BY LenProperties
<1>3. DOMAIN (p \o q) = 1..(Len(p) + Len(q))
  BY <1>1, LenProperties
<1>4. ASSUME NEW i \in 1..Len(q)
      PROVE  (p \o q)[Len(p) + i] = q[i]
  <2>1. Len(p) + i \in 1..(Len(p) + Len(q)) /\ ~ (Len(p) + i <= Len(p)) /\ (Len(p) + i) - Len(p) = i
    BY <1>2
  <2> QED BY <1>1, <2>1
<1>5. ASSUME NEW i \in 1..Len(p)
      PROVE  (p \o q)[i] = p[i]
  <2>1. i \in 1..(Len(p) + Len(q)) /\ i <= Len(p)
    BY <1>2
  <2> QED BY <1>1, <2>1
<1> QED BY <1>1, <1>2, <1>3, <1>4, <1>5

\* What is parsed, followed by what is known.
LEMMA AllFiles ==
  ASSUME Typed
  PROVE  /\ ParsedFiles(cf) \o known \in Seq(Infos)
         /\ DOMAIN (ParsedFiles(cf) \o known) = 1..(Len(cf.names) + Len(known))
         /\ Len(ParsedFiles(cf) \o known) = Len(cf.names) + Len(known) /\ Len(known) \in Nat
         /\ \A i \in DOMAIN cf.names :
              (ParsedFiles(cf) \o known)[i].name = cf.names[i] /\ (ParsedFiles(cf) \o known)[i].ft = ParsedFeatures(cf, i)
         /\ \A i \in DOMAIN known : (ParsedFiles(cf) \o known)[Len(cf.names) + i] = known[i]
         /\ DOMAIN known = 1..Len(known)
<1>1. PICK a : a = ParsedFiles(cf)
  OBVIOUS
<1>2. PICK b : b = known
  OBVIOUS
<1>3. /\ Len(a) = Len(cf.names) /\ DOMAIN cf.names = 1..Len(cf.names)
      /\ \A i \in DOMAIN cf.names : a[i].name = cf.names[i] /\ a[i].ft = ParsedFeatures(cf, i)
  BY <1>1, ParsedFacts, CfFacts
<1>4. a \in Seq(Infos)
  BY <1>1, ParsedFacts
<1>5. b \in Seq(Infos)
  BY <1>2 DEF Typed
<1>6. /\ a \o b \in Seq(Infos) /\ Len(a \o b) = Len(a) + Len(b) /\ Len(a) \in Nat /\ Len(b) \in Nat
      /\ DOMAIN a = 1..Len(a) /\ DOMAIN b = 1..Len(b) /\ DOMAIN (a \o b) = 1..(Len(a) + Len(b))
      /\ \A i \in 1..Len(a) : (a \o b)[i] = a[i]
      /\ \A i \in 1..Len(b) : (a \o b)[Len(a) + i] = b[i]
  BY <1>4, <1>5, Appended
<1> QED BY <1>1, <1>2, <1>3, <1>6
-----------------------------------------------------------------------------
(* Types. *)

\* Lines that are written.
LEMMA WrittenLines ==
  ASSUME NEW i \in Nat, NEW S \in SUBSET Features, NEW nl \in BOOLEAN
  PROVE  \A m \in {"STARTED", "FT", "COV", "?"} : Line(m, i, S, nl) \in Lines
BY DEF Line, Lines

\* The input that runs.
LEMMA RunningInput ==
  ASSUME Typed, Control, inner.pc = "run"
  PROVE  /\ inner.i \in DOMAIN cf.names /\ inner.i \in Nat
         /\ cf.names[inner.i] \in FileIds /\ cf.names[inner.i][2] \in Contents
         /\ feat[cf.names[inner.i][2]] \subseteq Features /\ Found \subseteq Features /\ inner.all \subseteq Features
<1>1. inner.i \in DOMAIN cf.names /\ inner.i \in Nat /\ inner.all \subseteq Features
  BY DEF Control, Typed
<1>2. cf.names[inner.i] \in FileIds /\ cf.names[inner.i][2] \in Contents
  BY <1>1, CfFacts
<1>3. feat[cf.names[inner.i][2]] \subseteq Features
  BY <1>2 DEF Typed
<1> QED BY <1>1, <1>2, <1>3 DEF Found

\* What WriteNewControlFile lists.
LEMMA ListedFiles ==
  ASSUME Typed, NEW files, files \subseteq FileIds, IsFiniteSet(files)
  PROVE  /\ MaybeUseFile(files) \in Seq(FileIds) /\ Len(MaybeUseFile(files)) \in Nat
         /\ Range(MaybeUseFile(files)) = files \ KnownNames
<1>1. files \ KnownNames \subseteq FileIds /\ IsFiniteSet(files \ KnownNames)
  BY FS_Subset
<1> QED BY <1>1, SortedFacts DEF MaybeUseFile

\* What the merge returns, in either form.
LEMMA ConcludeTyped ==
  ASSUME Typed, Control, Conclude
  PROVE  result'.files \in Seq(FileIds)
<1>1. PICK files : files = ParsedFiles(cf) \o known
  OBVIOUS
<1>2. files \in Seq(Infos) /\ Len(files) = Len(cf.names) + Len(known) /\ Len(known) \in Nat /\ Len(cf.names) \in Nat
  BY <1>1, AllFiles, CfFacts
<1>3. cf.old \in Nat /\ cf.old <= Len(cf.names)
  BY LenProperties DEF Conclude, Control, Typed
<1>4. cf.old \in 0..Len(files)
  BY <1>2, <1>3
<1>5. \/ result' = result
      \/ result' \in Merge(files, cf.old)
      \/ result' \in SetCoverMerge(files, cf.old)
  BY <1>1 DEF Conclude
<1> QED BY <1>2, <1>4, <1>5, MergeKeeps, SetCoverKeeps DEF Typed

LEMMA TypedStep ==
  ASSUME Typed, Control, [Next]_vars
  PROVE  Typed'
<1>1. CASE UNCHANGED vars
  BY <1>1 DEF vars, Typed
<1>2. CASE NothingToDo
  BY <1>2 DEF NothingToDo, world, history, Typed
<1>3. CASE Continue
  <2>1. cf.n \in Nat /\ FirstNotProcessedFile(cf) \in Nat /\ ~ (FirstNotProcessedFile(cf) > cf.n)
    BY <1>3, CfFacts DEF Continue, Complete, Typed
  <2>2. attempts' \in Nat
    BY <1>3, <2>1 DEF Continue
  <2> QED BY <1>3, <2>2 DEF Continue, world, history, Typed
<1>4. CASE StartAfresh
  <2>1. known' \in {ParsedFiles(cf), <<>>} /\ <<>> \in Seq(Infos)
    BY <1>4 DEF StartAfresh
  <2>3. known' \in Seq(Infos)
    BY <2>1, ParsedFacts
  <2>2. recorded' \subseteq FileIds
    BY <1>4 DEF StartAfresh, Typed
  <2> QED BY <1>4, <2>3, <2>2 DEF StartAfresh, world, Typed
<1>5. CASE WriteNewControlFile
  <2>1. PICK old : old = MaybeUseFile(OldCorpus)
    OBVIOUS
  <2>2. PICK new : new = MaybeUseFile(NewCorpus)
    OBVIOUS
  <2>3. old \in Seq(FileIds) /\ new \in Seq(FileIds)
    BY <2>1, <2>2, CorpusFiles, ListedFiles
  <2>4. old \o new \in Seq(FileIds) /\ Len(old \o new) \in Nat /\ Len(old) \in Nat
    BY <2>3, Appended
  <2>5. <<>> \in Seq(Lines)
    OBVIOUS
  <2>6. cf' = [n |-> Len(old \o new), old |-> Len(old), names |-> old \o new, lines |-> <<>>] /\ attempts' = Len(old \o new)
    BY <1>5, <2>1, <2>2 DEF WriteNewControlFile
  <2>7. cf' \in [n : Nat, old : Nat, names : Seq(FileIds), lines : Seq(Lines)] /\ attempts' \in Nat
    BY <2>4, <2>5, <2>6
  <2> QED BY <1>5, <2>7 DEF WriteNewControlFile, world, Typed
<1>6. CASE KilledWriting
  <2>1. <<>> \in Seq(Lines) /\ <<>> \in Seq(FileIds) /\ <<>> \in Seq(Infos)
    OBVIOUS
  <2>2. cf' \in [n : Nat, old : Nat, names : Seq(FileIds), lines : Seq(Lines)]
    <3>1. PICK e : e = <<>>
      OBVIOUS
    <3>2. e \in Seq(Lines) /\ e \in Seq(FileIds)
      BY <2>1, <3>1
    <3>3. PICK n \in Nat : cf' = [n |-> n, old |-> 0, names |-> e, lines |-> e]
      BY <1>6, <3>1 DEF KilledWriting, Absent
    <3> QED BY <3>2, <3>3
  <2> QED BY <1>6, <2>1, <2>2 DEF KilledWriting, world, Typed
<1>7. CASE Conclude
  BY <1>7, ConcludeTyped DEF Conclude, world, history, Typed
<1>8. CASE CopyFile
  <2>1. result.files \in Seq(FileIds) /\ result.files # <<>>
    BY <1>8 DEF CopyFile, Typed
  <2>2. Head(result.files) \in FileIds /\ Tail(result.files) \in Seq(FileIds)
    BY <2>1, HeadTailProperties
  <2>3. \/ UNCHANGED <<corpus, result>>
        \/ /\ corpus' = [corpus EXCEPT !.out = @ \cup {Head(result.files)[2]}]
           /\ result' = [result EXCEPT !.files = Tail(@)]
    BY <1>8 DEF CopyFile
  <2>4. /\ corpus' \in [old : SUBSET Contents, new : SUBSET Contents, out : SUBSET Contents]
        /\ IsFiniteSet(corpus'.old) /\ IsFiniteSet(corpus'.new) /\ IsFiniteSet(corpus'.out)
    <3>1. Head(result.files)[2] \in Contents
      BY <2>2 DEF FileIds
    <3>2. IsFiniteSet(corpus.out \cup {Head(result.files)[2]})
      <4>1. IsFiniteSet(corpus.out)
        BY DEF Typed
      <4> QED BY <4>1, FS_AddElement
    <3>3. /\ corpus' \in [old : SUBSET Contents, new : SUBSET Contents, out : SUBSET Contents]
          /\ corpus'.old = corpus.old /\ corpus'.new = corpus.new
          /\ corpus'.out \in {corpus.out, corpus.out \cup {Head(result.files)[2]}}
      BY <2>3, <3>1 DEF Typed
    <3>4. IsFiniteSet(corpus.old) /\ IsFiniteSet(corpus.new) /\ IsFiniteSet(corpus.out)
      BY DEF Typed
    <3> QED BY <3>2, <3>3, <3>4
  <2>5. result'.files \in Seq(FileIds)
    <3>1. CASE UNCHANGED <<corpus, result>>
      BY <2>1, <3>1
    <3>2. CASE result' = [result EXCEPT !.files = Tail(@)]
      BY <2>2, <3>2
    <3> QED BY <2>3, <3>1, <3>2
  <2> QED BY <1>8, <2>4, <2>5 DEF CopyFile, world, history, Typed
<1>9. CASE Copied
  BY <1>9 DEF Copied, world, history, Typed
<1>10. CASE Killed
  <2>1. <<>> \in Seq(FileIds) /\ <<>> \in Seq(Infos) /\ NoResult.files = <<>>
    BY DEF NoResult
  <2> QED BY <1>10, <2>1 DEF Killed, world, Idle, Typed
<1>11. CASE Restart
  <2>1. <<>> \in Seq(FileIds) /\ <<>> \in Seq(Infos) /\ NoResult.files = <<>>
    BY DEF NoResult
  <2>2. PICK new \in NewCorpora : corpus' = [corpus EXCEPT !.new = new]
    BY <1>11 DEF Restart
  <2>3. new \subseteq Contents /\ IsFiniteSet(new)
    BY CorporaAssumption DEF CorporaAssumption
  <2>4. /\ corpus' \in [old : SUBSET Contents, new : SUBSET Contents, out : SUBSET Contents]
        /\ IsFiniteSet(corpus'.old) /\ IsFiniteSet(corpus'.new) /\ IsFiniteSet(corpus'.out)
    BY <2>2, <2>3 DEF Typed
  <2> QED BY <1>11, <2>1, <2>4 DEF Restart, world, Typed
<1>12. CASE InnerStart
  <2>1. FirstNotProcessedFile(cf) \in Nat
    BY CfFacts
  <2> QED BY <1>12, <2>1 DEF InnerStart, InnerExits, Idle, world, history, Typed
<1>13. CASE MarkStarted
  <2>1. Line("STARTED", inner.i, {}, TRUE) \in Lines
    BY WrittenLines DEF Typed
  <2>2. AppendLine(cf.lines, Line("STARTED", inner.i, {}, TRUE)) \in Seq(Lines)
    BY <2>1, CfFacts, AppendLineTyped
  <2> QED BY <1>13, <2>2 DEF MarkStarted, world, history, Typed
<1>14. CASE InputGone \/ InputCrashes \/ ExitsGracefully \/ InnerDone
  <2>1. attempts > 0
    BY <1>14 DEF InputGone, InputCrashes, ExitsGracefully, InnerDone, Control
  <2>2. inner' = Idle /\ attempts' \in {0, attempts - 1} /\ UNCHANGED <<world, corpus, cf, outer, known, result, recorded>>
    BY <1>14 DEF InputGone, InputCrashes, ExitsGracefully, InnerDone, InnerExits, history
  <2> QED BY <2>1, <2>2 DEF Idle, world, Typed
<1>15. CASE WriteRecord
  <2>1. PICK ft : ft = AppendLine(cf.lines, Line("FT", inner.i, Found, TRUE))
    OBVIOUS
  <2>2. PICK all : all = AppendLine(ft, Line("COV", inner.i, feat[cf.names[inner.i][2]] \ inner.all, TRUE))
    OBVIOUS
  <2>3. inner.pc = "run"
    BY <1>15 DEF WriteRecord
  <2>4. ft \in Seq(Lines)
    BY <2>1, <2>3, RunningInput, WrittenLines, CfFacts, AppendLineTyped
  <2>5. all \in Seq(Lines)
    BY <2>2, <2>3, <2>4, RunningInput, WrittenLines, AppendLineTyped
  <2>6. cf' = [cf EXCEPT !.lines = all]
    BY <1>15, <2>1, <2>2 DEF WriteRecord
  <2>7. cf' \in [n : Nat, old : Nat, names : Seq(FileIds), lines : Seq(Lines)]
    BY <2>5, <2>6 DEF Typed
  <2>8. inner' \in [pc : {"none", "next", "run"}, i : Nat, all : SUBSET Features]
    BY <1>15, <2>3, RunningInput DEF WriteRecord
  <2>9. recorded' \subseteq FileIds
    BY <1>15, <2>3, RunningInput DEF WriteRecord, Typed
  <2> QED BY <1>15, <2>7, <2>8, <2>9 DEF WriteRecord, world, Typed
<1>16. CASE DiesInRecord
  <2>1. inner.pc = "run" /\ attempts > 0
    BY <1>16 DEF DiesInRecord, Control
  <2>2. PICK ft : ft = AppendLine(cf.lines, Line("FT", inner.i, Found, TRUE))
    OBVIOUS
  <2>3. ft \in Seq(Lines)
    BY <2>1, <2>2, RunningInput, WrittenLines, CfFacts, AppendLineTyped
  <2>4. PICK piece : /\ cf' = [cf EXCEPT !.lines = piece]
                     /\ \/ piece = AppendLine(cf.lines, Line("?", inner.i, {}, FALSE))
                        \/ piece = ft
                        \/ piece = AppendLine(ft, Line("?", inner.i, {}, FALSE))
                        \/ piece = AppendLine(ft, Line("COV", inner.i, {}, FALSE))
                        \/ \E part \in SUBSET Features : piece = AppendLine(cf.lines, Line("FT", inner.i, part, FALSE))
    BY <1>16, <2>2 DEF DiesInRecord
  <2>5. piece \in Seq(Lines)
    BY <2>1, <2>3, <2>4, RunningInput, WrittenLines, CfFacts, AppendLineTyped
  <2>6. attempts' \in Nat
    BY <1>16, <2>1 DEF DiesInRecord, InnerExits, Typed
  <2> QED BY <1>16, <2>4, <2>5, <2>6 DEF DiesInRecord, InnerExits, Idle, world, Typed
<1> QED
  BY <1>1, <1>2, <1>3, <1>4, <1>5, <1>6, <1>7, <1>8, <1>9, <1>10, <1>11, <1>12, <1>13, <1>14, <1>15, <1>16
     DEF Next, Inner, Outer
-----------------------------------------------------------------------------
(* The phases. *)

\* With the inner process running, the header is whole.
LEMMA Header ==
  ASSUME Typed, Control, outer \in {"loop", "copy", "done"}
  PROVE  cf.n = Len(cf.names) /\ cf.n \in Nat /\ cf.old <= cf.n /\ cf.old \in Nat
BY DEF Typed, Control

LEMMA ControlStep ==
  ASSUME Typed, Control, [Next]_vars
  PROVE  Control'
<1>1. CASE UNCHANGED vars
  BY <1>1 DEF vars, Control
<1>2. CASE NothingToDo
  BY <1>2 DEF NothingToDo, world, history, Control
<1>3. CASE Continue
  <2>1. cf.n = Len(cf.names) /\ cf.old <= cf.n
    BY <1>3, CfFacts DEF Continue, ParseOK, Control
  <2> QED BY <1>3, <2>1 DEF Continue, world, history, Control
<1>4. CASE StartAfresh
  <2>1. outer = "begin" /\ outer' = "write" /\ UNCHANGED <<cf, inner>>
    BY <1>4 DEF StartAfresh
  <2>2. ASSUME known' = <<>>
        PROVE  recorded' = {}
    <3>1. CASE ParseOK(cf)
      <4>1. known' = ParsedFiles(cf)
        BY <1>4, <3>1 DEF StartAfresh
      <4>2. cf.n > 0 /\ Len(cf.names) = cf.n
        BY <3>1 DEF ParseOK
      <4>3. Len(known') = Len(cf.names)
        BY <4>1, ParsedFacts
      <4> QED BY <2>2, <4>2, <4>3
    <3>2. CASE ~ParseOK(cf)
      BY <1>4, <3>2 DEF StartAfresh
    <3> QED BY <3>1, <3>2
  <2> QED BY <2>1, <2>2 DEF Control
<1>5. CASE WriteNewControlFile
  <2>1. PICK old : old = MaybeUseFile(OldCorpus)
    OBVIOUS
  <2>2. PICK new : new = MaybeUseFile(NewCorpus)
    OBVIOUS
  <2>3. old \in Seq(FileIds) /\ new \in Seq(FileIds)
    BY <2>1, <2>2, CorpusFiles, ListedFiles
  <2>4. Len(old \o new) = Len(old) + Len(new) /\ Len(old) \in Nat /\ Len(new) \in Nat
    BY <2>3, Appended
  <2>5. Len(old) <= Len(old \o new)
    BY <2>4
  <2>6. cf' = [n |-> Len(old \o new), old |-> Len(old), names |-> old \o new, lines |-> <<>>]
    BY <1>5, <2>1, <2>2 DEF WriteNewControlFile
  <2>7. cf'.n = Len(cf'.names) /\ cf'.old <= cf'.n
    BY <2>5, <2>6
  <2>8. outer = "write" /\ outer' = "loop" /\ inner' = inner
    BY <1>5 DEF WriteNewControlFile
  <2> QED BY <2>7, <2>8 DEF Control
<1>6. CASE KilledWriting
  BY <1>6 DEF KilledWriting, Absent, Control
<1>7. CASE Conclude
  <2>1. cf.n = Len(cf.names) /\ cf.old <= cf.n /\ cf' = cf /\ inner.pc = "none" /\ inner' = inner /\ outer' \in {"failed", "copy"}
    BY <1>7, Header DEF Conclude, Control
  <2> QED BY <2>1 DEF Control
<1>8. CASE CopyFile
  BY <1>8 DEF CopyFile, world, history, Control
<1>9. CASE Copied
  BY <1>9 DEF Copied, world, history, Control
<1>10. CASE Killed
  <2>1. cf' = cf /\ inner' = Idle /\ outer' = "killed" /\ known' = <<>>
    BY <1>10 DEF Killed
  <2> QED BY <2>1 DEF Control, Idle
<1>11. CASE Restart
  BY <1>11 DEF Restart, world, Control
<1>12. CASE InnerStart
  <2>1. FirstNotProcessedFile(cf) > 0
    BY CfFacts
  <2> QED BY <1>12, <2>1 DEF InnerStart, InnerExits, Idle, world, history, Control
<1>13. CASE MarkStarted
  <2>1. outer = "loop" /\ attempts > 0 /\ inner.i > 0 /\ inner.i \in Nat /\ inner.i <= cf.n
    BY <1>13 DEF MarkStarted, Control, Typed
  <2>2. cf.n = Len(cf.names) /\ cf.old <= cf.n /\ DOMAIN cf.names = 1..Len(cf.names) /\ cf.n \in Nat
    BY <2>1, Header, CfFacts
  <2>3. inner.i \in DOMAIN cf.names
    BY <2>1, <2>2
  <2>4. cf'.n = cf.n /\ cf'.names = cf.names /\ cf'.old = cf.old /\ inner'.pc = "run" /\ inner'.i = inner.i
    BY <1>13 DEF MarkStarted, Typed
  <2>5. UNCHANGED <<outer, attempts, known, recorded>>
    BY <1>13 DEF MarkStarted, history
  <2> QED BY <2>1, <2>2, <2>3, <2>4, <2>5 DEF Control
<1>14. CASE InputGone \/ InputCrashes \/ ExitsGracefully \/ InnerDone
  <2>1. inner' = Idle /\ UNCHANGED <<cf, outer, known, recorded>>
    BY <1>14 DEF InputGone, InputCrashes, ExitsGracefully, InnerDone, InnerExits, history
  <2> QED BY <2>1 DEF Idle, Control
<1>15. CASE WriteRecord
  <2>1. inner.pc = "run" /\ outer = "loop" /\ attempts > 0
    BY <1>15 DEF WriteRecord, Control
  <2>2. cf.n = Len(cf.names) /\ cf.old <= cf.n
    BY <2>1, Header
  <2>3. cf'.n = cf.n /\ cf'.names = cf.names /\ cf'.old = cf.old
    BY <1>15 DEF WriteRecord, Typed
  <2>4. inner'.pc = "next" /\ inner'.i > 0
    BY <1>15, <2>1, RunningInput DEF WriteRecord
  <2>5. UNCHANGED <<outer, attempts, known>>
    BY <1>15 DEF WriteRecord
  <2> QED BY <2>1, <2>2, <2>3, <2>4, <2>5 DEF Control
<1>16. CASE DiesInRecord
  <2>1. inner.pc = "run" /\ outer = "loop"
    BY <1>16 DEF DiesInRecord, Control
  <2>2. cf.n = Len(cf.names) /\ cf.old <= cf.n
    BY <2>1, Header
  <2>3. PICK piece : cf' = [cf EXCEPT !.lines = piece]
    BY <1>16 DEF DiesInRecord
  <2>4. cf'.n = cf.n /\ cf'.names = cf.names /\ cf'.old = cf.old
    BY <2>3 DEF Typed
  <2>5. inner' = Idle /\ UNCHANGED <<outer, known, recorded>>
    BY <1>16 DEF DiesInRecord, InnerExits
  <2> QED BY <2>1, <2>2, <2>4, <2>5 DEF Idle, Control
<1> QED
  BY <1>1, <1>2, <1>3, <1>4, <1>5, <1>6, <1>7, <1>8, <1>9, <1>10, <1>11, <1>12, <1>13, <1>14, <1>15, <1>16
     DEF Next, Inner, Outer
-----------------------------------------------------------------------------
(* The lines, and where the inner process is in them. *)

LEMMA SameLines ==
  ASSUME cf' = cf, feat' = feat
  PROVE  Tried' = Tried /\ (LinesOK => LinesOK') /\ Have(cf'.lines) = Have(cf.lines)
BY DEF Tried, LinesOK

LEMMA NoLines ==
  ASSUME cf'.lines = <<>>
  PROVE  Tried' = 0 /\ LinesOK' /\ Have(cf'.lines) = {}
<1>1. Before(cf', Len(cf'.lines) + 1, "STARTED") = {}
  <2>1. Len(cf'.lines) = 0 /\ 1..(0 + 1 - 1) = {}
    OBVIOUS
  <2> QED BY <2>1 DEF Before
<1>2. Tried' = 0
  BY <1>1, FS_EmptySet DEF Tried, Started
<1>3. DOMAIN cf'.lines = {}
  OBVIOUS
<1> QED BY <1>2, <1>3 DEF LinesOK, Have

\* The marker is in order, and says where the inner process is.
LEMMA MarkStartedEffect ==
  ASSUME Typed, Control, LinesOK, Position, MarkStarted
  PROVE  LinesOK' /\ Position' /\ Tried' = Tried + 1 /\ Have(cf'.lines) = Have(cf.lines) /\ cf'.names = cf.names
<1>1. /\ inner.pc = "next" /\ inner.i \in Nat /\ inner.i = Tried + 1
      /\ outer = "loop" /\ inner.i <= cf.n
  BY DEF MarkStarted, Control, Typed, Position
<1>2. PICK l : l = Line("STARTED", inner.i, {}, TRUE)
  OBVIOUS
<1>3. PICK n : n = Len(cf.lines)
  OBVIOUS
<1>4. PICK f, g : f = cf /\ g = cf'
  OBVIOUS
<1>5. l \in Lines /\ l.m = "STARTED" /\ l.i = inner.i /\ l.nl /\ l.fts = {}
  BY <1>1, <1>2, WrittenLines DEF Line
<1>6. f.lines \in Seq(Lines) /\ n = Len(f.lines) /\ Tried \in Nat /\ Tried = Started(f)
  BY <1>3, <1>4, CfFacts DEF Tried
<1>7. cf' = [cf EXCEPT !.lines = Append(cf.lines, l)]
  BY <1>2, CfFacts, AppendLineIntact DEF MarkStarted, LinesOK
<1>8. g.lines = Append(f.lines, l) /\ g.names = f.names
  BY <1>4, <1>7 DEF Typed
<1>9. /\ n \in Nat /\ Len(g.lines) = n + 1 /\ DOMAIN f.lines = 1..n /\ DOMAIN g.lines = 1..(n + 1)
      /\ \A k \in 1..n : g.lines[k] = f.lines[k]
      /\ g.lines[n + 1] = l
      /\ \A m : \A k \in 1..(n + 1) : Before(g, k, m) = Before(f, k, m)
      /\ \A k \in 1..n : LineOK(f, k) => LineOK(g, k)
      /\ Started(g) = Started(f) + 1
  BY <1>5, <1>6, <1>8, OneLineMore
<1>10. \A y : y \in Have(g.lines) <=> y \in Have(f.lines)
  BY <1>5, <1>6, <1>8, OneRecordMore
<1>11. Tried' = Tried + 1
  BY <1>4, <1>6, <1>9 DEF Tried
<1>12. LineOK(g, n + 1)
  <2>1. n + 1 \in 1..(n + 1)
    BY <1>9
  <2>2. Before(g, n + 1, "STARTED") = Before(f, n + 1, "STARTED")
    BY <1>9, <2>1
  <2>3. l.i = Cardinality(Before(g, n + 1, "STARTED")) + 1
    BY <1>1, <1>5, <1>6, <2>2 DEF Started
  <2> QED BY <1>5, <1>9, <2>3 DEF LineOK
<1>13. LinesOK'
  <2> SUFFICES ASSUME NEW k \in 1..(n + 1)
               PROVE  /\ g.lines[k].nl /\ LineOK(g, k)
                      /\ g.lines[k].m = "FT" =>
                           g.lines[k].i \in DOMAIN g.names /\ g.lines[k].fts \subseteq feat[g.names[g.lines[k].i][2]]
    BY <1>4, <1>9 DEF LinesOK, MarkStarted, world
  <2>1. CASE k \in 1..n
    BY <1>4, <1>8, <1>9, <2>1 DEF LinesOK
  <2>2. CASE k = n + 1
    BY <1>5, <1>9, <1>12, <2>2
  <2> QED BY <1>9, <2>1, <2>2
<1>14. Position'
  <2>1. inner'.pc = "run" /\ inner'.i = inner.i
    BY DEF MarkStarted, Typed
  <2>2. inner.i <= Len(cf.names)
    BY <1>1, Header
  <2>3. g.lines # <<>> /\ Last(g.lines) = l
    <3>1. n + 1 \in DOMAIN g.lines
      BY <1>9
    <3> QED BY <1>9, <3>1 DEF Last
  <2> QED BY <1>1, <1>4, <1>5, <1>8, <1>11, <2>1, <2>2, <2>3 DEF Position
<1> QED BY <1>4, <1>8, <1>10, <1>11, <1>13, <1>14

\* The record is of the input started last.
LEMMA WriteRecordEffect ==
  ASSUME Typed, Control, LinesOK, Position, WriteRecord
  PROVE  LinesOK' /\ Position' /\ Tried' = Tried /\ Have(cf'.lines) = Have(cf.lines) \cup Found /\ cf'.names = cf.names
<1>1. PICK x : x = cf.names[inner.i][2]
  OBVIOUS
<1>2. /\ inner.pc = "run" /\ inner.i = Tried /\ inner.i \in DOMAIN cf.names /\ inner.i \in Nat
      /\ cf.lines # <<>> /\ Last(cf.lines).m = "STARTED" /\ Last(cf.lines).i = inner.i
  BY RunningInput DEF WriteRecord, Position
<1>3. Found \subseteq feat[x] /\ feat[x] \subseteq Features
  BY <1>1, <1>2, RunningInput DEF Found
<1>4. PICK a, b : a = Line("FT", inner.i, Found, TRUE) /\ b = Line("COV", inner.i, feat[x] \ inner.all, TRUE)
  OBVIOUS
<1>5. /\ a \in Lines /\ a.m = "FT" /\ a.i = inner.i /\ a.nl /\ a.fts = Found
      /\ b \in Lines /\ b.m = "COV" /\ b.nl
  BY <1>2, <1>3, <1>4, WrittenLines DEF Line
<1>6. PICK n, f : n = Len(cf.lines) /\ f = cf
  OBVIOUS
<1>7. PICK g, h : g = [cf EXCEPT !.lines = Append(cf.lines, a)] /\ h = cf'
  OBVIOUS
<1>8. f.lines \in Seq(Lines) /\ n = Len(f.lines) /\ Tried = Started(f)
  BY <1>6, CfFacts DEF Tried
<1>9. g.lines = Append(f.lines, a) /\ g.names = f.names
  BY <1>6, <1>7 DEF Typed
<1>10. /\ g.lines \in Seq(Lines) /\ n \in Nat /\ Len(g.lines) = n + 1
       /\ DOMAIN f.lines = 1..n /\ DOMAIN g.lines = 1..(n + 1)
       /\ \A k \in 1..n : g.lines[k] = f.lines[k]
       /\ g.lines[n + 1] = a
       /\ \A m : \A k \in 1..(n + 1) : Before(g, k, m) = Before(f, k, m)
       /\ \A k \in 1..n : LineOK(f, k) => LineOK(g, k)
       /\ Started(g) = Started(f)
  BY <1>5, <1>8, <1>9, OneLineMore
<1>11. h.lines = Append(g.lines, b) /\ h.names = f.names
  <2>1. AppendLine(cf.lines, a) = Append(cf.lines, a)
    BY CfFacts, AppendLineIntact DEF LinesOK
  <2>2. \A k \in 1..(n + 1) : g.lines[k].nl
    <3> SUFFICES ASSUME NEW k \in 1..(n + 1) PROVE g.lines[k].nl
      OBVIOUS
    <3>1. CASE k \in 1..n
      BY <1>6, <1>10, <3>1 DEF LinesOK
    <3>2. CASE k = n + 1
      BY <1>5, <1>10, <3>2
    <3> QED BY <1>10, <3>1, <3>2
  <2>3. AppendLine(g.lines, b) = Append(g.lines, b)
    BY <1>10, <2>2, AppendLineIntact
  <2>4. cf' = [cf EXCEPT !.lines = AppendLine(g.lines, b)]
    BY <1>1, <1>4, <1>6, <1>9, <2>1 DEF WriteRecord
  <2> QED BY <1>6, <1>7, <2>3, <2>4 DEF Typed
<1>12. PICK p : p = Len(g.lines)
  OBVIOUS
<1>13. g.lines \in Seq(Lines) /\ b \in Lines /\ b.m # "STARTED" /\ p = n + 1
  BY <1>5, <1>10, <1>12
<1>14. /\ Len(h.lines) = p + 1 /\ DOMAIN h.lines = 1..(p + 1)
       /\ \A k \in 1..p : h.lines[k] = g.lines[k]
       /\ h.lines[p + 1] = b
       /\ \A k \in 1..p : LineOK(g, k) => LineOK(h, k)
       /\ Started(h) = Started(g)
  <2>1. g.lines \in Seq(Lines) /\ b \in Lines /\ b.m # "STARTED" /\ h.lines = Append(g.lines, b)
    BY <1>11, <1>13
  <2>2. /\ Len(h.lines) = p + 1 /\ DOMAIN h.lines = 1..(p + 1)
        /\ \A k \in 1..p : h.lines[k] = g.lines[k]
        /\ h.lines[p + 1] = b
    BY <1>12, <2>1, OneLineMore
  <2>3. \A k \in 1..p : LineOK(g, k) => LineOK(h, k)
    BY <1>12, <2>1, OneLineMore
  <2>4. Started(h) = Started(g)
    BY <1>12, <2>1, OneLineMore
  <2> QED BY <2>2, <2>3, <2>4
<1>15. Tried' = Tried
  BY <1>7, <1>8, <1>10, <1>14 DEF Tried
<1>16. LineOK(g, n + 1)
  <2> DEFINE started == Before(g, n + 1, "STARTED")
  <2>1. n \in 1..n /\ f.lines[n].m = "STARTED" /\ f.lines[n].i = inner.i /\ n + 1 - 1 = n
    BY <1>2, <1>6, <1>10 DEF Last
  <2>2. g.lines[n] = f.lines[n]
    BY <1>10, <2>1
  <2>3. n \in started /\ started \subseteq 1..n
    BY <2>1, <2>2 DEF Before
  <2>4. Max(started) = n
    <3>1. PICK m : m = Max(started)
      OBVIOUS
    <3>2. m \in started /\ \A y \in started : y <= m
      BY <1>10, <2>3, <3>1, MaxIn
    <3>3. m \in 1..n /\ n <= m
      BY <2>3, <3>2
    <3> QED BY <1>10, <3>1, <3>3
  <2>5. ASSUME NEW j \in Before(g, n + 1, "FT")
        PROVE  j < n
    <3>1. j \in 1..n /\ g.lines[j].m = "FT"
      BY <2>1 DEF Before
    <3>2. j # n
      BY <2>1, <2>2, <3>1
    <3> QED BY <1>10, <3>1, <3>2
  <2> QED BY <1>5, <1>10, <2>1, <2>2, <2>3, <2>4, <2>5 DEF LineOK
<1>17. LinesOK'
  <2> SUFFICES ASSUME NEW k \in 1..(p + 1)
               PROVE  /\ h.lines[k].nl /\ LineOK(h, k)
                      /\ h.lines[k].m = "FT" =>
                           h.lines[k].i \in DOMAIN h.names /\ h.lines[k].fts \subseteq feat[h.names[h.lines[k].i][2]]
    BY <1>7, <1>14 DEF LinesOK, WriteRecord, world
  <2>1. CASE k \in 1..n
    <3>1. h.lines[k] = f.lines[k] /\ LineOK(f, k) /\ LineOK(h, k) /\ k \in DOMAIN f.lines
      <4>1. k \in 1..p
        BY <1>10, <1>13, <2>1
      <4>2. LineOK(f, k) /\ k \in DOMAIN f.lines
        BY <1>6, <1>10, <2>1 DEF LinesOK
      <4> QED BY <1>10, <1>14, <2>1, <4>1, <4>2
    <3> QED BY <1>6, <1>11, <3>1 DEF LinesOK
  <2>2. CASE k = n + 1
    <3>1. h.lines[k] = a /\ LineOK(h, k)
      BY <1>10, <1>12, <1>14, <1>16, <2>2
    <3> QED BY <1>1, <1>2, <1>3, <1>5, <1>6, <1>11, <3>1
  <2>3. CASE k = p + 1
    BY <1>5, <1>14, <2>3 DEF LineOK
  <2> QED BY <1>10, <1>12, <2>1, <2>2, <2>3
<1>18. Position'
  <2>1. inner'.pc = "next" /\ inner'.i = inner.i + 1
    BY DEF WriteRecord
  <2> QED BY <1>2, <1>6, <1>7, <1>11, <1>15, <2>1 DEF Position
<1>19. \A y : y \in Have(h.lines) <=> y \in Have(f.lines) \/ y \in Found
  <2>1. \A y : y \in Have(g.lines) <=> y \in Have(f.lines) \/ y \in Found
    BY <1>5, <1>8, <1>9, OneRecordMore
  <2>2. \A y : y \in Have(h.lines) <=> y \in Have(g.lines)
    BY <1>5, <1>10, <1>11, OneRecordMore
  <2> QED BY <2>1, <2>2
<1> QED BY <1>6, <1>7, <1>11, <1>15, <1>17, <1>18, <1>19
-----------------------------------------------------------------------------
(* Control files that no crash has torn. *)

\* A torn record is remembered until a control file is begun anew.
LEMMA Untorn ==
  ASSUME [Next]_vars, "torn" \notin faults'
  PROVE  "torn" \notin faults \/ WriteNewControlFile \/ KilledWriting
BY DEF Next, Inner, Outer, vars, world, history, NothingToDo, Continue, StartAfresh, Conclude, CopyFile, Copied,
       Killed, Restart, InnerStart, MarkStarted, InputGone, InputCrashes, WriteRecord, DiesInRecord, ExitsGracefully,
       InnerDone, InnerExits

\* The steps that write to the control file, and the rest.
LEMMA Writers ==
  ASSUME [Next]_vars
  PROVE  \/ WriteNewControlFile \/ KilledWriting \/ MarkStarted \/ WriteRecord \/ DiesInRecord
         \/ cf' = cf /\ feat' = feat
BY DEF Next, Inner, Outer, vars, world, history, NothingToDo, Continue, StartAfresh, Conclude, CopyFile, Copied,
       Killed, Restart, InnerStart, InputGone, InputCrashes, ExitsGracefully, InnerDone

LEMMA LinesStep ==
  ASSUME Typed, Control, "torn" \notin faults => LinesOK /\ Position, [Next]_vars, Typed', "torn" \notin faults'
  PROVE  LinesOK' /\ Position'
<1>1. CASE WriteNewControlFile \/ KilledWriting
  <2>1. cf'.lines = <<>>
    BY <1>1 DEF WriteNewControlFile, KilledWriting, Absent, Typed
  <2>2. inner'.pc = "none"
    BY <1>1 DEF WriteNewControlFile, KilledWriting, Control, Typed
  <2>3. Len(cf'.names) >= 0
    BY LenProperties DEF Typed
  <2> QED BY <2>1, <2>2, <2>3, NoLines DEF Position
<1>2. CASE DiesInRecord
  BY <1>2 DEF DiesInRecord
<1> SUFFICES ASSUME LinesOK, Position, ~ (WriteNewControlFile \/ KilledWriting \/ DiesInRecord)
             PROVE  LinesOK' /\ Position'
  BY <1>1, <1>2, Untorn
<1>3. CASE MarkStarted
  BY <1>3, MarkStartedEffect
<1>4. CASE WriteRecord
  BY <1>4, WriteRecordEffect
<1>5. CASE cf' = cf /\ feat' = feat /\ ~MarkStarted /\ ~WriteRecord
  <2>1. Tried' = Tried /\ LinesOK'
    BY <1>5, SameLines
  <2>2. \/ inner' = inner
        \/ inner'.pc = "none"
        \/ inner'.pc = "next" /\ inner'.i = FirstNotProcessedFile(cf)
    BY <1>5 DEF Next, Inner, Outer, vars, world, history, NothingToDo, Continue, StartAfresh, Conclude, CopyFile, Copied,
                Killed, Restart, InnerStart, InputGone, InputCrashes, ExitsGracefully, InnerDone, InnerExits, Idle
  <2>3. FirstNotProcessedFile(cf) = Tried + 1
    BY CfFacts
  <2> QED BY <1>5, <2>1, <2>2, <2>3 DEF Position
<1> QED BY <1>3, <1>4, <1>5, Writers

\* The attempts: every end of an inner process follows the start of an input, except a last one.
LEMMA CountedStep ==
  ASSUME Typed, Control, "torn" \notin faults => LinesOK /\ Position /\ Counted, [Next]_vars, Typed', "torn" \notin faults'
  PROVE  Counted'
<1> SUFFICES ASSUME faults' \cap {"usr1", "gone"} = {}
             PROVE  /\ outer' = "loop" => attempts' + Tried' >= Len(cf'.names)
                    /\ outer' = "loop" /\ inner'.pc = "run" => attempts' + Tried' > Len(cf'.names)
                    /\ Concluded' => Tried' = Len(cf'.names)
  BY DEF Counted
<1>1. CASE WriteNewControlFile
  <2>1. cf'.lines = <<>> /\ attempts' = Len(cf'.names) /\ inner'.pc = "none" /\ outer' = "loop"
    BY <1>1 DEF WriteNewControlFile, Control
  <2>2. Tried' = 0 /\ attempts' \in Nat
    BY <2>1, NoLines DEF Typed
  <2> QED BY <2>1, <2>2 DEF Concluded
<1>2. CASE KilledWriting
  BY <1>2 DEF KilledWriting, Concluded
<1>3. CASE DiesInRecord
  BY <1>3 DEF DiesInRecord
<1>4. CASE InputGone \/ ExitsGracefully
  BY <1>4 DEF InputGone, ExitsGracefully
<1> SUFFICES ASSUME LinesOK, Position, Counted,
                    ~ (WriteNewControlFile \/ KilledWriting \/ DiesInRecord \/ InputGone \/ ExitsGracefully)
             PROVE  /\ outer' = "loop" => attempts' + Tried' >= Len(cf'.names)
                    /\ outer' = "loop" /\ inner'.pc = "run" => attempts' + Tried' > Len(cf'.names)
                    /\ Concluded' => Tried' = Len(cf'.names)
  BY <1>1, <1>2, <1>3, <1>4, Untorn
<1>5. faults \cap {"usr1", "gone"} = {}
  BY DEF Next, Inner, Outer, vars, world, history, NothingToDo, Continue, StartAfresh, Conclude, CopyFile, Copied,
         Killed, Restart, InnerStart, MarkStarted, InputCrashes, WriteRecord, InnerDone
<1>6. /\ outer = "loop" => attempts + Tried >= Len(cf.names)
      /\ outer = "loop" /\ inner.pc = "run" => attempts + Tried > Len(cf.names)
      /\ Concluded => Tried = Len(cf.names)
      /\ Tried <= Len(cf.names) /\ Tried \in Nat /\ attempts \in Nat /\ Len(cf.names) \in Nat
      /\ FirstNotProcessedFile(cf) = Tried + 1
  BY <1>5, CfFacts DEF Counted, Position, Typed
<1>7. CASE MarkStarted
  <2>1. Tried' = Tried + 1 /\ cf'.names = cf.names /\ attempts' = attempts /\ outer' = outer /\ outer = "loop"
    BY <1>7, MarkStartedEffect DEF MarkStarted, Control
  <2> QED BY <1>6, <2>1 DEF Concluded
<1>8. CASE WriteRecord
  <2>1. Tried' = Tried /\ cf'.names = cf.names /\ attempts' = attempts /\ outer' = outer /\ outer = "loop"
    BY <1>8, WriteRecordEffect DEF WriteRecord, Control
  <2> QED BY <1>6, <1>8, <2>1 DEF Concluded, WriteRecord
<1>9. CASE cf' = cf /\ feat' = feat /\ ~MarkStarted /\ ~WriteRecord
  <2>1. Tried' = Tried /\ cf'.names = cf.names
    BY <1>9, SameLines
  <2>2. CASE UNCHANGED vars
    BY <1>6, <2>1, <2>2 DEF vars, Concluded
  <2>3. CASE NothingToDo \/ StartAfresh \/ Killed \/ Restart
    BY <2>3 DEF NothingToDo, StartAfresh, Killed, Restart, Concluded
  <2>4. CASE Continue
    <3>1. attempts' = cf.n + 1 - (Tried + 1) /\ Len(cf.names) = cf.n /\ outer' = "loop" /\ inner'.pc = "none"
      BY <1>6, <2>4 DEF Continue, ParseOK, Control
    <3> QED BY <1>6, <2>1, <3>1 DEF Concluded
  <2>5. CASE Conclude
    <3>1. outer = "loop" /\ attempts = 0 /\ outer' \in {"failed", "copy"}
      BY <2>5 DEF Conclude
    <3> QED BY <1>6, <2>1, <3>1 DEF Concluded
  <2>6. CASE CopyFile \/ Copied
    <3>1. outer = "copy" /\ outer' \in {"copy", "failed", "done"}
      BY <2>6 DEF CopyFile, Copied
    <3> QED BY <1>6, <2>1, <3>1 DEF Concluded
  <2>7. CASE InnerStart
    <3>1. outer = "loop" /\ outer' = "loop" /\ inner'.pc # "run" /\ attempts > 0
      BY <2>7 DEF InnerStart, InnerExits, Idle
    <3>2. CASE ParseOK(cf)
      BY <1>6, <2>1, <2>7, <3>1, <3>2 DEF InnerStart, Concluded
    <3>3. CASE ~ParseOK(cf)
      <4>1. cf.n = Len(cf.names) /\ attempts' = attempts - 1
        BY <2>7, <3>1, <3>3, Header DEF InnerStart, InnerExits
      <4>2. Len(cf.names) = 0
        BY <1>6, <3>3, <4>1 DEF ParseOK, LinesOK
      <4> QED BY <1>6, <2>1, <3>1, <4>1, <4>2 DEF Concluded
    <3> QED BY <3>2, <3>3
  <2>8. CASE InputCrashes
    <3>1. outer = "loop" /\ outer' = "loop" /\ inner.pc = "run" /\ inner'.pc = "none" /\ attempts' = attempts - 1
      BY <2>8 DEF InputCrashes, InnerExits, Idle, Control
    <3> QED BY <1>6, <2>1, <3>1 DEF Concluded
  <2>9. CASE InnerDone
    <3>1. outer = "loop" /\ outer' = "loop" /\ inner.pc = "next" /\ inner'.pc = "none" /\ attempts' = 0 /\ inner.i > cf.n
      BY <2>9 DEF InnerDone, InnerExits, Idle, Control
    <3>2. inner.i = Tried + 1 /\ cf.n = Len(cf.names)
      BY <3>1, Header DEF Position
    <3> QED BY <1>6, <2>1, <3>1, <3>2 DEF Concluded
  <2> QED BY <1>9, <2>2, <2>3, <2>4, <2>5, <2>6, <2>7, <2>8, <2>9 DEF Next, Inner, Outer
<1> QED BY <1>7, <1>8, <1>9, Writers
\* What is known of the features of recorded inputs.
LEMMA RecordsStep ==
  ASSUME Typed, Control, "torn" \notin faults => LinesOK /\ Position /\ Records, [Next]_vars, Typed', "torn" \notin faults'
  PROVE  Records'
<1>1. CASE KilledWriting
  <2>1. inner'.all = {} /\ known' = <<>> /\ recorded' = {}
    BY <1>1 DEF KilledWriting, Control
  <2>2. DOMAIN known' = {}
    BY <2>1
  <2> QED BY <2>1, <2>2 DEF Records
<1>2. CASE DiesInRecord
  BY <1>2 DEF DiesInRecord
<1>3. CASE WriteNewControlFile
  <2>1. inner'.all = {} /\ known' = known /\ recorded' = recorded /\ outer = "write" /\ outer' = "loop" /\ feat' = feat
    BY <1>3 DEF WriteNewControlFile, Control, world
  <2>2. CASE known = <<>>
    <3>1. recorded' = {} /\ DOMAIN known' = {}
      BY <2>1, <2>2 DEF Control
    <3> QED BY <2>1, <3>1 DEF Records
  <2>3. CASE known # <<>>
    <3>1. "torn" \notin faults
      BY <1>3, <2>3 DEF WriteNewControlFile
    <3>2. FeaturesIn(known)' = FeaturesIn(known) /\ KnownNames' = KnownNames
      BY <2>1 DEF KnownNames
    <3>3. \A r \in recorded' : r \in KnownNames' /\ feat'[r[2]] \subseteq FeaturesIn(known')
      BY <2>1, <3>1, <3>2 DEF Records
    <3>4. \A k \in DOMAIN known' : known'[k].ft \subseteq feat'[known'[k].name[2]]
      BY <2>1, <3>1 DEF Records
    <3> QED BY <2>1, <3>3, <3>4 DEF Records
  <2> QED BY <2>2, <2>3
<1> SUFFICES ASSUME LinesOK, Position, Records, ~ (WriteNewControlFile \/ KilledWriting \/ DiesInRecord)
             PROVE  Records'
  BY <1>1, <1>2, <1>3, Untorn
<1>4. CASE WriteRecord
  <2>1. PICK x : x = cf.names[inner.i]
    OBVIOUS
  <2>2. /\ inner.pc = "run" /\ known' = known /\ recorded' = recorded \cup {x} /\ feat' = feat /\ outer' = outer
        /\ inner'.all = inner.all \cup feat[x[2]] /\ outer = "loop"
    BY <1>4, <2>1 DEF WriteRecord, world, Control
  <2>3. Have(cf'.lines) = Have(cf.lines) \cup Found /\ cf'.names = cf.names
    BY <1>4, WriteRecordEffect
  <2>4. x \in Range(cf.names)
    BY <2>1, <2>2, RunningInput DEF Range
  <2>5. inner.all \subseteq Have(cf.lines) /\ feat[x[2]] \subseteq Found \cup inner.all
    BY <2>1 DEF Records, Found
  <2>6. KnownNames' = KnownNames
    BY <2>2 DEF KnownNames
  <2>7. inner'.all \subseteq Have(cf'.lines) /\ feat[x[2]] \subseteq Have(cf'.lines)
    BY <2>2, <2>3, <2>5
  <2>8. ASSUME NEW r \in recorded'
        PROVE  \/ r \in KnownNames' /\ feat'[r[2]] \subseteq FeaturesIn(known')
               \/ r \in Range(cf'.names) /\ feat'[r[2]] \subseteq Have(cf'.lines)
    <3>1. CASE r = x
      BY <2>2, <2>3, <2>4, <2>7, <3>1
    <3>2. CASE r \in recorded
      BY <2>2, <2>3, <2>6, <3>2 DEF Records
    <3> QED BY <2>2, <3>1, <3>2
  <2>9. \A k \in DOMAIN known' : known'[k].ft \subseteq feat'[known'[k].name[2]]
    BY <2>2 DEF Records
  <2> QED BY <2>2, <2>7, <2>8, <2>9 DEF Records
<1>5. CASE StartAfresh
  <2>1. cf' = cf /\ feat' = feat /\ inner' = inner /\ known = <<>> /\ inner.all = {}
    BY <1>5 DEF StartAfresh, world, Control
  <2>2. CASE ~ParseOK(cf)
    <3>1. recorded' = {} /\ known' = <<>>
      BY <1>5, <2>2 DEF StartAfresh, Complete
    <3>2. DOMAIN known' = {}
      BY <3>1
    <3> QED BY <2>1, <3>1, <3>2 DEF Records
  <2>3. CASE ParseOK(cf)
    <3>1. PICK p : p = ParsedFiles(cf)
      OBVIOUS
    <3>2. known' = p /\ recorded' = recorded
      BY <1>5, <2>3, <3>1 DEF StartAfresh
    <3>3. DOMAIN p = DOMAIN cf.names /\ \A i \in DOMAIN cf.names : p[i].name = cf.names[i] /\ p[i].ft = ParsedFeatures(cf, i)
      BY <3>1, ParsedFacts
    <3>4. KnownNames' = Range(cf.names)
      BY <3>2, <3>3 DEF KnownNames, Range
    <3>5. Have(cf.lines) \subseteq FeaturesIn(known')
      BY <3>2, <3>3, ParsedIntact DEF FeaturesIn
    <3>6. \A k \in DOMAIN known' : known'[k].ft \subseteq feat'[known'[k].name[2]]
      BY <2>1, <3>2, <3>3, ParsedIntact
    <3>7. KnownNames = {}
      BY <2>1 DEF KnownNames
    <3>8. \A r \in recorded' : r \in KnownNames' /\ feat'[r[2]] \subseteq FeaturesIn(known')
      BY <2>1, <3>2, <3>4, <3>5, <3>7 DEF Records
    <3> QED BY <2>1, <3>6, <3>8 DEF Records
  <2> QED BY <2>2, <2>3
<1>6. CASE Killed \/ Restart
  <2>1. /\ cf' = cf /\ feat' = feat /\ known' = <<>> /\ recorded' = recorded \ KnownNames /\ outer' # "write"
        /\ inner'.all = {}
    BY <1>6 DEF Killed, Restart, world, Idle, Control
  <2>2. DOMAIN known' = {}
    BY <2>1
  <2>3. \A r \in recorded' : r \in Range(cf'.names) /\ feat'[r[2]] \subseteq Have(cf'.lines)
    BY <2>1 DEF Records
  <2> QED BY <2>1, <2>2, <2>3 DEF Records
<1>7. CASE ~ (WriteRecord \/ StartAfresh \/ Killed \/ Restart)
  <2>1. /\ feat' = feat /\ known' = known /\ recorded' = recorded /\ (outer' = "write" => outer = "write")
        /\ inner'.all \in {inner.all, {}}
    <3>1. CASE UNCHANGED vars \/ NothingToDo \/ Conclude \/ CopyFile \/ Copied
      BY <3>1 DEF vars, world, history, NothingToDo, Conclude, CopyFile, Copied
    <3>2. CASE Continue
      BY <3>2 DEF Continue, world, history, Control
    <3>3. CASE InnerStart \/ InputGone \/ InputCrashes \/ ExitsGracefully \/ InnerDone
      BY <3>3 DEF world, history, InnerStart, InputGone, InputCrashes, ExitsGracefully, InnerDone, InnerExits, Idle
    <3>4. CASE MarkStarted
      BY <3>4 DEF world, history, MarkStarted, Typed
    <3> QED BY <1>7, <3>1, <3>2, <3>3, <3>4 DEF Next, Inner, Outer
  <2>2. cf'.names = cf.names /\ Have(cf'.lines) = Have(cf.lines)
    BY <1>7, Writers, MarkStartedEffect
  <2>3. KnownNames' = KnownNames
    BY <2>1 DEF KnownNames
  <2> QED BY <2>1, <2>2, <2>3 DEF Records
<1> QED BY <1>4, <1>5, <1>6, <1>7
-----------------------------------------------------------------------------
(* What the merge keeps, and why it fails. *)

Target == Initial \cup FeaturesOf({cf.names[k] : k \in 1..cf.old} \cup Range(result.files)) \cup UNION {feat[x] : x \in corpus.out}

\* Every recorded feature is in what is merged, and what is merged is real.
LEMMA MergedFiles ==
  ASSUME Typed, LinesOK, Records, NEW files, files = ParsedFiles(cf) \o known
  PROVE  /\ \A f \in FeaturesOf(recorded) : \E i \in DOMAIN files : f \in files[i].ft
         /\ \A i \in DOMAIN files : files[i].ft \subseteq feat[files[i].name[2]]
<1>1. PICK n, m : n = Len(cf.names) /\ m = Len(known)
  OBVIOUS
<1>2. /\ DOMAIN files = 1..(n + m) /\ n \in Nat /\ m \in Nat /\ DOMAIN cf.names = 1..n /\ DOMAIN known = 1..m
      /\ \A i \in DOMAIN cf.names : files[i].name = cf.names[i] /\ files[i].ft = ParsedFeatures(cf, i)
      /\ \A i \in DOMAIN known : files[n + i] = known[i]
  BY <1>1, AllFiles, CfFacts
<1>3. ASSUME NEW f \in FeaturesOf(recorded)
      PROVE  \E i \in DOMAIN files : f \in files[i].ft
  <2>1. PICK r \in recorded : f \in feat[r[2]]
    BY DEF FeaturesOf
  <2>2. CASE f \in Have(cf.lines)
    <3>1. PICK i \in DOMAIN cf.names : f \in ParsedFeatures(cf, i)
      BY <2>2, ParsedIntact
    <3>2. i \in DOMAIN files
      BY <1>2
    <3> QED BY <1>2, <3>1, <3>2
  <2>3. CASE f \in FeaturesIn(known)
    <3>1. PICK i \in DOMAIN known : f \in known[i].ft
      BY <2>3 DEF FeaturesIn
    <3>2. n + i \in DOMAIN files
      BY <1>2
    <3> QED BY <1>2, <3>1, <3>2
  <2> QED BY <2>1, <2>2, <2>3 DEF Records
<1>4. ASSUME NEW i \in DOMAIN files
      PROVE  files[i].ft \subseteq feat[files[i].name[2]]
  <2>1. CASE i <= n
    <3>1. i \in DOMAIN cf.names
      BY <1>2, <2>1
    <3> QED BY <1>2, <3>1, ParsedIntact
  <2>2. CASE ~ (i <= n)
    <3>1. i - n \in DOMAIN known /\ n + (i - n) = i
      BY <1>2, <2>2
    <3>2. files[i] = known[i - n]
      BY <1>2, <3>1
    <3> QED BY <3>1, <3>2 DEF Records
  <2> QED BY <2>1, <2>2
<1> QED BY <1>3, <1>4

\* The files of the first corpus are the first ones.
LEMMA FirstFiles ==
  ASSUME Typed, LinesOK, Records, NEW files, files = ParsedFiles(cf) \o known, cf.old <= Len(cf.names)
  PROVE  /\ cf.old \in 0..Len(files)
         /\ \A f \in FeaturesIn(SubSeq(files, 1, cf.old)) : \E k \in 1..cf.old : f \in feat[cf.names[k][2]]
<1>1. PICK n, m, old : n = Len(cf.names) /\ m = Len(known) /\ old = cf.old
  OBVIOUS
<1>2. /\ files \in Seq(Infos) /\ Len(files) = n + m /\ DOMAIN files = 1..(n + m)
      /\ n \in Nat /\ m \in Nat /\ DOMAIN cf.names = 1..n
      /\ \A i \in DOMAIN cf.names : files[i].name = cf.names[i]
  BY <1>1, AllFiles, CfFacts
<1>3. old \in Nat /\ old <= n
  BY <1>1 DEF Typed
<1>4. old \in 0..Len(files)
  BY <1>2, <1>3
<1>5. \A k \in 1..old : k \in DOMAIN files /\ k \in DOMAIN cf.names
  BY <1>2, <1>3
<1>6. PICK first : first = SubSeq(files, 1, old)
  OBVIOUS
<1>7. DOMAIN first = 1..old /\ \A k \in 1..old : first[k] = files[k]
  <2>1. \A k \in 1..old : files[k] \in Infos
    BY <1>2, <1>5, ElementOfSeq
  <2>2. Len(first) = IF 1 <= old THEN old - 1 + 1 ELSE 0
    BY <1>2, <1>3, <1>6, <2>1, SubSeqProperties
  <2>3. first \in Seq(Infos) /\ \A k \in 1..(old - 1 + 1) : first[k] = files[1 + k - 1]
    BY <1>2, <1>3, <1>6, <2>1, SubSeqProperties
  <2>4. Len(first) = old
    BY <1>3, <2>2
  <2>5. DOMAIN first = 1..old
    BY <2>3, <2>4, LenProperties
  <2>6. \A k \in 1..old : 1 + k - 1 = k /\ k \in 1..(old - 1 + 1)
    BY <1>3
  <2> QED BY <2>3, <2>5, <2>6
<1>8. \A f \in FeaturesIn(first) : \E k \in 1..old : f \in files[k].ft
  BY <1>7 DEF FeaturesIn
<1>9. \A k \in 1..old : files[k].ft \subseteq feat[cf.names[k][2]]
  BY <1>2, <1>5, MergedFiles
<1> QED BY <1>1, <1>4, <1>6, <1>8, <1>9

LEMMA ConcludeKeeps ==
  ASSUME Typed, Control, LinesOK, Records, Conclude, outer' = "copy"
  PROVE  View(FeaturesOf(recorded)) \subseteq View(Target')
<1>1. PICK files : files = ParsedFiles(cf) \o known
  OBVIOUS
<1>2. outer = "loop" /\ cf' = cf /\ feat' = feat /\ corpus' = corpus /\ recorded' = recorded
  BY DEF Conclude, world, history
<1>3. result' \in IF IsSetCoverMerge THEN SetCoverMerge(files, cf.old) ELSE Merge(files, cf.old)
  BY <1>1 DEF Conclude
<1>4. files \in Seq(Infos) /\ cf.old <= Len(cf.names)
  BY <1>1, <1>2, AllFiles, Header
<1>5. cf.old \in 0..Len(files) /\ \A f \in FeaturesIn(SubSeq(files, 1, cf.old)) : \E k \in 1..cf.old : f \in feat[cf.names[k][2]]
  BY <1>1, <1>4, FirstFiles
<1>6. \A f \in FeaturesOf(recorded) : \E i \in DOMAIN files : f \in files[i].ft
  BY <1>1, MergedFiles
<1>7. \A i \in DOMAIN files : files[i].ft \subseteq feat[files[i].name[2]]
  BY <1>1, MergedFiles
<1>8. Initial \cup FeaturesIn(SubSeq(files, 1, cf.old)) \subseteq Target'
  BY <1>2, <1>5 DEF Target, FeaturesOf
<1>9. ASSUME NEW k \in DOMAIN result'.files, NEW j \in DOMAIN files, result'.files[k] = files[j].name
      PROVE  files[j].ft \subseteq Target'
  <2>1. files[j].name \in Range(result'.files)
    BY <1>9 DEF Range
  <2>2. feat[files[j].name[2]] \subseteq Target'
    BY <1>2, <2>1 DEF Target, FeaturesOf
  <2> QED BY <1>7, <2>2
<1>10. CASE ~IsSetCoverMerge
  <2>1. result' \in Merge(files, cf.old)
    BY <1>3, <1>10
  <2>2. ASSUME NEW f \in FeaturesOf(recorded)
        PROVE  f \in Target'
    <3>1. PICK i \in DOMAIN files : f \in files[i].ft
      BY <1>6
    <3>2. \/ f \in Initial \cup FeaturesIn(SubSeq(files, 1, cf.old))
          \/ \E k \in DOMAIN result'.files : \E j \in DOMAIN files : result'.files[k] = files[j].name /\ f \in files[j].ft
      BY <1>4, <1>5, <2>1, <3>1, MergeKeeps
    <3> QED BY <1>8, <1>9, <3>2
  <2> QED BY <1>10, <2>2 DEF View
<1>11. CASE IsSetCoverMerge
  <2>1. result' \in SetCoverMerge(files, cf.old)
    BY <1>3, <1>11
  <2>2. ASSUME NEW f \in FeaturesOf(recorded)
        PROVE  \E g \in Target' : Slot(g) = Slot(f)
    <3>1. PICK i \in DOMAIN files : f \in files[i].ft
      BY <1>6
    <3>2. \/ \E g \in Initial \cup FeaturesIn(SubSeq(files, 1, cf.old)) : Slot(g) = Slot(f)
          \/ \E k \in DOMAIN result'.files : \E j \in DOMAIN files :
               result'.files[k] = files[j].name /\ \E g \in files[j].ft : Slot(g) = Slot(f)
      BY <1>4, <1>5, <2>1, <3>1, SetCoverKeeps
    <3> QED BY <1>8, <1>9, <3>2
  <2> QED BY <1>11, <2>2 DEF View
<1> QED BY <1>10, <1>11

\* A file that is copied stays among what the first corpus covers.
LEMMA CopyKeeps ==
  ASSUME Typed, CopyFile, outer' = "copy"
  PROVE  Target \subseteq Target'
<1>1. PICK s : s = result.files
  OBVIOUS
<1>2. s \in Seq(FileIds) /\ s # <<>>
  BY <1>1 DEF Typed, CopyFile
<1>3. corpus' = [corpus EXCEPT !.out = @ \cup {Head(s)[2]}] /\ result' = [result EXCEPT !.files = Tail(@)]
  BY <1>1 DEF CopyFile
<1>4. ASSUME NEW f \in Range(s)
      PROVE  f = Head(s) \/ f \in Range(result'.files)
  <2>1. /\ Head(s) = s[1] /\ Tail(s) \in Seq(FileIds) /\ Len(Tail(s)) = Len(s) - 1
        /\ \A i \in 1..Len(Tail(s)) : Tail(s)[i] = s[i + 1]
    BY <1>2, HeadTailProperties
  <2>2. PICK i \in DOMAIN s : f = s[i]
    BY DEF Range
  <2>3. Len(s) \in Nat /\ DOMAIN s = 1..Len(s) /\ DOMAIN Tail(s) = 1..Len(Tail(s))
    BY <1>2, <2>1, LenProperties
  <2>4. result'.files = Tail(s)
    BY <1>1, <1>3
  <2>5. CASE i = 1
    BY <2>1, <2>2, <2>5
  <2>6. CASE i # 1
    <3>1. i - 1 \in 1..Len(Tail(s)) /\ (i - 1) + 1 = i
      BY <2>1, <2>2, <2>3, <2>6
    <3>2. Tail(s)[i - 1] = f
      BY <2>1, <2>2, <3>1
    <3> QED BY <2>3, <2>4, <3>1, <3>2 DEF Range
  <2> QED BY <2>5, <2>6
<1>5. corpus'.out = corpus.out \cup {Head(s)[2]}
  BY <1>3 DEF Typed
<1>6. feat' = feat /\ cf' = cf
  BY DEF CopyFile, world
<1> QED BY <1>1, <1>4, <1>5, <1>6 DEF Target, FeaturesOf

LEMMA KeptStep ==
  ASSUME Typed, Control, "torn" \notin faults => LinesOK /\ Records, NoFeatureLost, [Next]_vars
  PROVE  NoFeatureLost'
<1> SUFFICES ASSUME outer' = "copy", "torn" \notin faults'
             PROVE  View(FeaturesOf(recorded))' \subseteq View(Target)'
  BY DEF NoFeatureLost, Target
<1>1. CASE Conclude
  <2>1. recorded' = recorded /\ faults' = faults /\ feat' = feat /\ IsSetCoverMerge' = IsSetCoverMerge
    BY <1>1 DEF Conclude, world, history
  <2> QED BY <1>1, <2>1, ConcludeKeeps DEF View, FeaturesOf
<1>2. CASE CopyFile
  <2>1. recorded' = recorded /\ faults' = faults /\ feat' = feat /\ IsSetCoverMerge' = IsSetCoverMerge /\ outer = "copy"
    BY <1>2 DEF CopyFile, world, history
  <2>2. View(FeaturesOf(recorded)) \subseteq View(Target)
    BY <2>1 DEF NoFeatureLost, Target
  <2> QED BY <1>2, <2>1, <2>2, CopyKeeps DEF View, FeaturesOf
<1>3. CASE UNCHANGED vars
  BY <1>3 DEF vars, NoFeatureLost, Target, View, FeaturesOf, Slot
<1>4. ASSUME ~Conclude, ~CopyFile, ~UNCHANGED vars
      PROVE  FALSE
  BY <1>4 DEF Next, Inner, Outer, history, NothingToDo, Continue, StartAfresh, WriteNewControlFile, KilledWriting, Copied,
              Killed, Restart, InnerStart, MarkStarted, InputGone, InputCrashes, WriteRecord, DiesInRecord,
              ExitsGracefully, InnerDone, Control
<1> QED BY <1>1, <1>2, <1>3, <1>4

LEMMA ExplainedStep ==
  ASSUME Typed, Control, "torn" \notin faults => LinesOK, FailureExplained, [Next]_vars
  PROVE  FailureExplained'
<1> SUFFICES ASSUME outer' = "failed", "torn" \notin faults'
             PROVE  cf'.names = <<>> \/ (result'.files # <<>> /\ ~Exists(Head(result.files))')
  BY DEF FailureExplained
<1>1. CASE KilledWriting
  BY <1>1 DEF KilledWriting, Absent, Typed
<1>2. CASE Conclude
  <2>1. outer = "loop" /\ faults' = faults /\ cf' = cf /\ ~ParseOK(cf)
    BY <1>2 DEF Conclude, history
  <2>2. cf.n = Len(cf.names) /\ cf.n \in Nat
    BY <2>1, Header
  <2>3. Len(cf.names) = 0
    BY <2>1, <2>2 DEF ParseOK, LinesOK
  <2> QED BY <2>1, <2>3, EmptySeq, CfFacts
<1>3. CASE CopyFile
  <2>1. PICK f : f = Head(result.files)
    OBVIOUS
  <2>2. /\ result.files # <<>> /\ result' = result /\ corpus' = corpus
        /\ f \notin Range(OldFiles) /\ f \notin Range(NewFiles)
    BY <1>3, <2>1 DEF CopyFile
  <2>3. f \in FileIds
    BY <2>1, <2>2, HeadTailProperties DEF Typed
  <2>4. Range(OldFiles) = OldCorpus /\ Range(NewFiles) = NewCorpus
    BY CorpusFiles, SortedFacts DEF OldFiles, NewFiles
  <2>5. ~Exists(f)
    BY <2>2, <2>3, <2>4, CorpusFiles
  <2> QED BY <2>1, <2>2, <2>5 DEF Exists
<1>4. CASE UNCHANGED vars
  BY <1>4 DEF vars, FailureExplained, Exists
<1>5. ASSUME ~KilledWriting, ~Conclude, ~CopyFile, ~UNCHANGED vars
      PROVE  FALSE
  BY <1>5 DEF Next, Inner, Outer, history, NothingToDo, Continue, StartAfresh, WriteNewControlFile, Copied,
              Killed, Restart, InnerStart, MarkStarted, InputGone, InputCrashes, WriteRecord, DiesInRecord,
              ExitsGracefully, InnerDone, Control
<1> QED BY <1>1, <1>2, <1>3, <1>4, <1>5
-----------------------------------------------------------------------------
(* The theorems. *)

LEMMA InitInv ==
  ASSUME Init
  PROVE  IInv
<1>1. <<>> \in Seq(FileIds) /\ <<>> \in Seq(Lines) /\ <<>> \in Seq(Infos)
  OBVIOUS
<1>2. PICK e : e = <<>>
  OBVIOUS
<1>3. /\ cf = [n |-> 0, old |-> 0, names |-> e, lines |-> e] /\ known = e /\ result = [files |-> e, features |-> {}, cov |-> {}]
      /\ outer = "begin" /\ attempts = 0 /\ inner = [pc |-> "none", i |-> 0, all |-> {}] /\ faults = {} /\ recorded = {}
  BY <1>2 DEF Init, Absent, NoResult, Idle
<1>4. e \in Seq(FileIds) /\ e \in Seq(Lines) /\ e \in Seq(Infos) /\ Len(e) = 0 /\ DOMAIN e = {}
  BY <1>1, <1>2
<1>5. /\ corpus \in [old : SUBSET Contents, new : SUBSET Contents, out : SUBSET Contents]
      /\ IsFiniteSet(corpus.old) /\ IsFiniteSet(corpus.new) /\ IsFiniteSet(corpus.out)
  <2>1. corpus.old \in OldCorpora /\ corpus.new \in NewCorpora /\ corpus.out = {} /\ corpus \in [old : OldCorpora, new : NewCorpora, out : {{}}]
    BY DEF Init
  <2>2. \A S \in OldCorpora \cup NewCorpora : S \subseteq Contents /\ IsFiniteSet(S)
    BY CorporaAssumption DEF CorporaAssumption
  <2> QED BY <2>1, <2>2, FS_EmptySet
<1>6. feat \in [Contents -> SUBSET Features] /\ IsSetCoverMerge \in BOOLEAN
  BY FeaturesAssumption DEF Init, FeaturesAssumption
<1>7. Typed
  BY <1>3, <1>4, <1>5, <1>6 DEF Typed
<1>8. Control
  BY <1>2, <1>3, <1>4 DEF Control
<1>9. Tried = 0
  <2>1. Before(cf, Len(cf.lines) + 1, "STARTED") = {}
    <3>1. 1..(0 + 1 - 1) = {}
      OBVIOUS
    <3> QED BY <1>3, <1>4, <3>1 DEF Before
  <2> QED BY <2>1, FS_EmptySet DEF Tried, Started
<1>10. Intact
  BY <1>3, <1>4, <1>9 DEF Intact, LinesOK, Position, Counted, Concluded, Records
<1> QED BY <1>3, <1>7, <1>8, <1>10 DEF IInv, NoFeatureLost, FailureExplained

LEMMA StepInv ==
  ASSUME IInv, [Next]_vars
  PROVE  IInv'
<1>1. Typed' /\ Control'
  BY TypedStep, ControlStep DEF IInv
<1>2. ASSUME "torn" \notin faults'
      PROVE  Intact'
  BY <1>1, <1>2, LinesStep, CountedStep, RecordsStep DEF IInv, Intact
<1>3. NoFeatureLost' /\ FailureExplained'
  BY KeptStep, ExplainedStep DEF IInv, Intact
<1> QED BY <1>1, <1>2, <1>3 DEF IInv

\* The invariant holds in every state.
THEOREM Inductive == Spec => []IInv
BY InitInv, StepInv, PTL DEF Spec

\* For any inputs, corpora and number of restarts: whatever crashes and is tried again, the merge
\* begins only when every input of the control file was started.
THEOREM AllInputsTried == Spec => []EveryInputTried
<1>1. ASSUME IInv
      PROVE  EveryInputTried
  <2> SUFFICES ASSUME Concluded, faults \cap {"torn", "usr1", "gone"} = {}
               PROVE  FirstNotProcessedFile(cf) = cf.n + 1
    BY DEF EveryInputTried
  <2>1. Tried = Len(cf.names) /\ cf.n = Len(cf.names)
    BY <1>1, Header DEF IInv, Intact, Counted, Concluded
  <2> QED BY <1>1, <2>1, CfFacts DEF IInv
<1> QED BY <1>1, Inductive, PTL

\* For any inputs and either kind of merge: what a recorded input covers, the first corpus and the
\* files to copy cover.
THEOREM CoverageKept == Spec => []NoFeatureLost
<1>1. IInv => NoFeatureLost
  BY DEF IInv
<1> QED BY <1>1, Inductive, PTL

\* The outer process fails only for a torn record, an empty control file or a file that is gone.
THEOREM FailuresExplained == Spec => []FailureExplained
<1>1. IInv => FailureExplained
  BY DEF IInv
<1> QED BY <1>1, Inductive, PTL
=============================================================================
