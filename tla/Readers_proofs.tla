--------------------------- MODULE Readers_proofs ---------------------------
(***************************************************************************)
(* Proofs about the readers of files.                                      *)
(*                                                                         *)
(* ShadowKeyLoad, for any number of keys and values and any order of the   *)
(* iteration: load finds the greatest count of every root, and when no key *)
(* contains the separator "|m" these are the counts of the map phase.  The *)
(* inductive invariant says what the map holds half way: exactly the roots *)
(* of the keys seen, each with the greatest count seen.                    *)
(*                                                                         *)
(* Iterators, for any file, buffer and failure of a read: the lines of a   *)
(* text come out whole and in order, and the console shows no more than    *)
(* was read.  The inductive invariant finds the line of each value by the  *)
(* newlines before it, and says where the line now read began.             *)
(***************************************************************************)
EXTENDS Iterators, ShadowKeyLoad, FiniteSetTheorems, TLAPS

(* ----- the load of an earlier map output ----- *)

\* The keys are keys, and atoi reads a number after each "|m".
AllKeys ==
  \A k \in RunKeys \cup SetKeys : \E name : \E marks \in Seq(Nat) : k = Key(name, marks)

\* The keys are records and have no marks.
AllPlain == \A k \in RunKeys \cup SetKeys : k = Key(k.name, <<>>)

RootsOfSeen == DOMAIN map = {RootOf(key) : key \in seen}

GreatestSeen ==
  /\ \A key \in seen : ParsedCount(key) <= map[RootOf(key)]
  /\ \A k \in DOMAIN map :
       \E key \in seen : RootOf(key) = k /\ ParsedCount(key) = map[k]

LoadIInv ==
  /\ LoadTypeOK
  /\ RootsOfSeen
  /\ GreatestSeen
  /\ phase = "loaded" => seen = File

------------------------------------------------------------------------------
LEMMA MaxIs ==
  ASSUME NEW S, NEW m \in S, S \subseteq Int, \A n \in S : m >= n
  PROVE  Max(S) = m
<1>1. \A x \in S : (\A y \in S : x >= y) => x = m
  <2> SUFFICES ASSUME NEW x \in S, \A y \in S : x >= y PROVE x = m
    OBVIOUS
  <2>1. x >= m /\ m >= x /\ x \in Int /\ m \in Int
    OBVIOUS
  <2> QED
    BY <2>1
<1> QED
  BY <1>1 DEF Max

\* Cutting a generated key at its separator gives the key and the number back.
LEMMA ParseGenerated ==
  ASSUME AllPlain, NEW k \in RunKeys \cup SetKeys, NEW n \in 0..MaxCount
  PROVE  /\ RootOf(GenerateShadowKey(k, n)) = k
         /\ ParsedCount(GenerateShadowKey(k, n)) = n
<1>1. k = [name |-> k.name, marks |-> <<>>]
  BY DEF AllPlain, Key
<1>2. n % CountMod = n
  BY LoadAssumption
<1>3. CASE n = 0
  BY <1>1, <1>3 DEF GenerateShadowKey, RootOf, ParsedCount, Plain, Key
<1>4. CASE n # 0
  <2>1. GenerateShadowKey(k, n) = [name |-> k.name, marks |-> <<n>>]
    BY <1>1, <1>4 DEF GenerateShadowKey
  <2>2. <<n>> # <<>> /\ <<n>>[1] = n
    OBVIOUS
  <2> QED
    BY <1>1, <1>2, <2>1, <2>2 DEF RootOf, ParsedCount, Plain, Key
<1> QED
  BY <1>3, <1>4

\* A key of the file is a generated key of a key that was emitted or set.
LEMMA FileKeys ==
  ASSUME AllPlain, LoadTypeOK, NEW key \in File
  PROVE  /\ RootOf(key) \in DOMAIN counts \cup SetKeys
         /\ ParsedCount(key) \in 0..MaxCount
         /\ RootOf(key) \in DOMAIN counts => ParsedCount(key) <= counts[RootOf(key)]
         /\ RootOf(key) \notin DOMAIN counts => ParsedCount(key) = 0
<1>1. CASE key \in SetKeys
  <2>1. key = GenerateShadowKey(key, 0) /\ 0 \in 0..MaxCount
    BY LoadAssumption DEF GenerateShadowKey
  <2>2. RootOf(key) = key /\ ParsedCount(key) = 0
    BY <1>1, <2>1, ParseGenerated
  <2>3. \A k \in DOMAIN counts : 0 <= counts[k]
    BY LoadAssumption DEF LoadTypeOK
  <2> QED
    BY <1>1, <2>1, <2>2, <2>3
<1>2. CASE key \notin SetKeys
  <2>1. PICK k \in DOMAIN counts : \E n \in 0..counts[k] : key = GenerateShadowKey(k, n)
    BY <1>2 DEF File
  <2>2. PICK n \in 0..counts[k] : key = GenerateShadowKey(k, n)
    BY <2>1
  <2>3. k \in RunKeys /\ counts[k] \in 0..MaxCount
    BY <2>1 DEF LoadTypeOK
  <2>4. n \in 0..MaxCount
    BY <2>2, <2>3, LoadAssumption
  <2>5. RootOf(key) = k /\ ParsedCount(key) = n
    BY <2>2, <2>3, <2>4, ParseGenerated
  <2> QED
    BY <2>2, <2>3, <2>4, <2>5
<1> QED
  BY <1>1, <1>2

\* A plain key has the empty sequence of marks.
LEMMA PlainKeys == AllPlain => AllKeys
<1>1. <<>> \in Seq(Nat)
  OBVIOUS
<1> QED
  BY <1>1 DEF AllPlain, AllKeys

\* load reads a 32 bit count from every key of the file.
LEMMA CountRange ==
  ASSUME AllKeys, LoadTypeOK, NEW key \in File
  PROVE  ParsedCount(key) \in 0..CountMod - 1
<1>1. \A n \in Nat : n % CountMod \in 0..CountMod - 1
  BY LoadAssumption
<1>2. ASSUME NEW name, NEW marks \in Seq(Nat), key = Key(name, marks)
      PROVE  ParsedCount(key) \in 0..CountMod - 1
  <2>1. key.marks = marks
    BY <1>2 DEF Key
  <2>2. CASE marks = <<>>
    BY <2>1, <2>2, LoadAssumption DEF ParsedCount, Plain
  <2>3. CASE marks # <<>>
    <3>1. marks[1] \in Nat
      BY <2>3
    <3> QED
      BY <1>1, <2>1, <2>3, <3>1 DEF ParsedCount, Plain
  <2> QED
    BY <2>2, <2>3
<1>3. CASE key \in SetKeys
  <2>1. PICK name : \E marks \in Seq(Nat) : key = Key(name, marks)
    BY <1>3 DEF AllKeys
  <2> QED
    BY <1>2, <2>1
<1>4. CASE key \notin SetKeys
  <2>1. PICK k \in DOMAIN counts : \E n \in 0..counts[k] : key = GenerateShadowKey(k, n)
    BY <1>4 DEF File
  <2>2. PICK n \in 0..counts[k] : key = GenerateShadowKey(k, n)
    BY <2>1
  <2>3. k \in RunKeys
    BY <2>1 DEF LoadTypeOK
  <2>4. PICK name : \E marks \in Seq(Nat) : k = Key(name, marks)
    BY <2>3 DEF AllKeys
  <2>5. PICK marks \in Seq(Nat) : k = Key(name, marks)
    BY <2>4
  <2>6. n \in Nat
    BY <2>1, <2>2, LoadAssumption DEF LoadTypeOK
  <2>7. key = Key(name, IF n = 0 THEN marks ELSE Append(marks, n))
    BY <2>2, <2>5 DEF GenerateShadowKey, Key
  <2>8. (IF n = 0 THEN marks ELSE Append(marks, n)) \in Seq(Nat)
    BY <2>5, <2>6
  <2> QED
    BY <1>2, <2>7, <2>8
<1> QED
  BY <1>3, <1>4

------------------------------------------------------------------------------
\* One turn of the loop keeps the greatest count of every root.
LEMMA LoadNextStep ==
  ASSUME AllKeys, LoadIInv, NEW key \in File, LoadNext(key)
  PROVE  LoadIInv'
<1> DEFINE root == RootOf(key)
           new  == ParsedCount(key)
<1>1. /\ phase = "iterate" /\ phase' = phase /\ counts' = counts
      /\ seen' = seen \cup {key}
      /\ map' = [k \in DOMAIN map \cup {root} |->
                   IF k # root THEN map[k]
                   ELSE IF root \in DOMAIN map /\ map[root] >= new THEN map[root]
                   ELSE new]
  BY DEF LoadNext, LoadKey
<1>2. new \in 0..CountMod - 1
  BY CountRange DEF LoadIInv
<1>3. map \in [DOMAIN map -> 0..CountMod - 1]
  BY DEF LoadIInv, LoadTypeOK
<1>4. File' = File
  BY <1>1 DEF File
<1>5. DOMAIN map' = DOMAIN map \cup {root}
  BY <1>1
<1>6. LoadTypeOK'
  <2>1. map' \in [DOMAIN map' -> 0..CountMod - 1]
    BY <1>1, <1>2, <1>3, <1>5
  <2> QED
    BY <1>1, <1>4, <2>1 DEF LoadIInv, LoadTypeOK
<1>7. RootsOfSeen'
  BY <1>1, <1>5 DEF LoadIInv, RootsOfSeen
<1>8. GreatestSeen'
  <2>1. \A s \in seen' : ParsedCount(s) <= map'[RootOf(s)]
    <3> SUFFICES ASSUME NEW s \in seen' PROVE ParsedCount(s) <= map'[RootOf(s)]
      OBVIOUS
    <3>1. CASE s = key
      <4>1. map'[root] = IF root \in DOMAIN map /\ map[root] >= new THEN map[root] ELSE new
        BY <1>1
      <4>2. root \in DOMAIN map => map[root] \in 0..CountMod - 1
        BY <1>3
      <4> QED
        BY <3>1, <4>1, <4>2, <1>2, LoadAssumption
    <3>2. CASE s # key
      <4>1. s \in seen /\ RootOf(s) \in DOMAIN map /\ ParsedCount(s) <= map[RootOf(s)]
        BY <1>1, <3>2 DEF LoadIInv, RootsOfSeen, GreatestSeen
      <4>2. CASE RootOf(s) # root
        BY <4>1, <4>2, <1>1
      <4>3. CASE RootOf(s) = root
        <5>1. map[root] \in 0..CountMod - 1
          BY <1>3, <4>1, <4>3
        <5>2. map'[root] = IF map[root] >= new THEN map[root] ELSE new
          BY <1>1, <4>1, <4>3
        <5>3. ParsedCount(s) \in 0..CountMod - 1
          BY <4>1, CountRange DEF LoadIInv, LoadTypeOK
        <5> QED
          BY <4>1, <4>3, <5>1, <5>2, <5>3, <1>2, LoadAssumption
      <4> QED
        BY <4>2, <4>3
    <3> QED
      BY <3>1, <3>2
  <2>2. \A k \in DOMAIN map' :
          \E s \in seen' : RootOf(s) = k /\ ParsedCount(s) = map'[k]
    <3> SUFFICES ASSUME NEW k \in DOMAIN map'
                 PROVE  \E s \in seen' : RootOf(s) = k /\ ParsedCount(s) = map'[k]
      OBVIOUS
    <3>1. CASE k \in DOMAIN map /\ map'[k] = map[k]
      BY <1>1, <3>1 DEF LoadIInv, GreatestSeen
    <3>2. CASE ~(k \in DOMAIN map /\ map'[k] = map[k])
      <4>1. k = root /\ map'[k] = new
        BY <1>1, <1>5, <3>2
      <4> QED
        BY <1>1, <4>1
    <3> QED
      BY <3>1, <3>2
  <2> QED
    BY <2>1, <2>2 DEF GreatestSeen
<1> QED
  BY <1>1, <1>6, <1>7, <1>8 DEF LoadIInv

\* What the loop has seen and built so far, in every reachable state.
THEOREM LoadInvariant ==
  ASSUME AllKeys PROVE LoadSpec => []LoadIInv
<1>1. LoadInit => LoadIInv
  <2> SUFFICES ASSUME LoadInit PROVE LoadIInv
    OBVIOUS
  <2>1. PICK D \in SUBSET RunKeys : counts \in [D -> 0..MaxCount]
    BY DEF LoadInit
  <2>2. seen = {} /\ DOMAIN map = {} /\ phase = "open"
    BY DEF LoadInit, EmptyMap
  <2>3. map \in [DOMAIN map -> 0..CountMod - 1]
    BY DEF LoadInit, EmptyMap
  <2> QED
    BY <2>1, <2>2, <2>3 DEF LoadIInv, LoadTypeOK, RootsOfSeen, GreatestSeen
<1>2. LoadIInv /\ [LoadingNext]_loadvars => LoadIInv'
  <2> SUFFICES ASSUME LoadIInv, [LoadingNext]_loadvars PROVE LoadIInv'
    OBVIOUS
  <2>1. CASE Open \/ OpenFails \/ LoadEnds \/ LoadTerminated \/ UNCHANGED loadvars
    <3>1. UNCHANGED <<counts, seen, map>>
      BY <2>1 DEF Open, OpenFails, LoadEnds, LoadTerminated, loadvars
    <3>2. File' = File
      BY <3>1 DEF File
    <3>3. phase' \in {"open", "iterate", "loaded", "failed"}
          /\ (phase' = "loaded" => seen = File)
      BY <2>1 DEF Open, OpenFails, LoadEnds, LoadTerminated, loadvars, LoadIInv, LoadTypeOK
    <3>4. LoadTypeOK'
      BY <3>1, <3>2, <3>3 DEF LoadIInv, LoadTypeOK
    <3>5. RootsOfSeen' /\ GreatestSeen'
      BY <3>1 DEF LoadIInv, RootsOfSeen, GreatestSeen
    <3> QED
      BY <3>1, <3>2, <3>3, <3>4, <3>5 DEF LoadIInv
  <2>2. ASSUME NEW key \in File, LoadNext(key) PROVE LoadIInv'
    BY <2>2, LoadNextStep
  <2> QED
    BY <2>1, <2>2 DEF LoadingNext
<1> QED
  BY <1>1, <1>2, PTL DEF LoadSpec

\* The loop leaves the greatest counts.
LEMMA LoadedIsGreatest ==
  ASSUME AllKeys, LoadIInv, phase = "loaded"
  PROVE  map = LoadedCounts(File)
<1>1. seen = File /\ map \in [DOMAIN map -> 0..CountMod - 1]
  BY DEF LoadIInv, LoadTypeOK
<1>2. DOMAIN map = {RootOf(key) : key \in File}
  BY <1>1 DEF LoadIInv, RootsOfSeen
<1>3. ASSUME NEW root \in DOMAIN map
      PROVE  map[root] = Max({ParsedCount(key) : key \in {key \in File : RootOf(key) = root}})
  <2> DEFINE found == {ParsedCount(key) : key \in {key \in File : RootOf(key) = root}}
  <2>1. found \subseteq 0..CountMod - 1
    BY CountRange DEF LoadIInv
  <2>2. map[root] \in found
    BY <1>1 DEF LoadIInv, GreatestSeen
  <2>3. \A n \in found : map[root] >= n
    <3> SUFFICES ASSUME NEW key \in File, RootOf(key) = root
                 PROVE  map[root] >= ParsedCount(key)
      OBVIOUS
    <3>1. ParsedCount(key) <= map[root]
      BY <1>1 DEF LoadIInv, GreatestSeen
    <3>2. ParsedCount(key) \in 0..CountMod - 1 /\ map[root] \in 0..CountMod - 1
      BY <1>1, CountRange DEF LoadIInv
    <3> QED
      BY <3>1, <3>2, LoadAssumption
  <2> HIDE DEF found
  <2>4. found \subseteq Int
    BY <2>1, LoadAssumption
  <2>5. Max(found) = map[root]
    BY <2>2, <2>3, <2>4, MaxIs
  <2> QED
    BY <2>5 DEF found
<1> QED
  BY <1>1, <1>2, <1>3 DEF LoadedCounts

\* ShadowKeyMap::load finds the greatest count of every root, in whatever order
\* the hash returns the keys, whether or not they contain the separator.
THEOREM LoadFindsGreatest ==
  ASSUME AllKeys PROVE LoadSpec => [](phase = "loaded" => map = LoadedCounts(File))
<1>1. LoadIInv => (phase = "loaded" => map = LoadedCounts(File))
  BY LoadedIsGreatest
<1> QED
  BY <1>1, LoadInvariant, PTL

\* After load the reduce phase of a -e run works on the counts the map phase
\* ended with, provided that no key contains the separator.
THEOREM LoadIsExact ==
  ASSUME AllPlain PROVE LoadSpec => []LoadRestoresCounts
<1>1. LoadIInv => LoadRestoresCounts
  <2> SUFFICES ASSUME LoadIInv, phase = "loaded"
               PROVE  map = [k \in DOMAIN counts \cup SetKeys |->
                               IF k \in DOMAIN counts THEN counts[k] ELSE 0]
    BY LoadedIsGreatest, PlainKeys DEF LoadRestoresCounts
  <2>1. seen = File /\ LoadTypeOK
    BY DEF LoadIInv
  <2>2. ASSUME NEW k \in DOMAIN counts
        PROVE  k \in DOMAIN map /\ map[k] = counts[k]
    <3> DEFINE last == GenerateShadowKey(k, counts[k])
    <3>1. k \in RunKeys /\ counts[k] \in 0..MaxCount
      BY <2>1 DEF LoadTypeOK
    <3>2. last \in File
      BY <3>1, LoadAssumption DEF File
    <3>3. RootOf(last) = k /\ ParsedCount(last) = counts[k]
      BY <3>1, ParseGenerated
    <3>4. k \in DOMAIN map /\ counts[k] <= map[k]
      BY <2>1, <3>2, <3>3 DEF LoadIInv, RootsOfSeen, GreatestSeen
    <3>5. PICK key \in File : RootOf(key) = k /\ ParsedCount(key) = map[k]
      BY <2>1, <3>4 DEF LoadIInv, GreatestSeen
    <3>6. map[k] <= counts[k] /\ map[k] \in 0..MaxCount
      BY <2>1, <3>5, FileKeys
    <3> QED
      BY <3>1, <3>4, <3>6, LoadAssumption
  <2>3. ASSUME NEW k \in SetKeys, k \notin DOMAIN counts
        PROVE  k \in DOMAIN map /\ map[k] = 0
    <3>1. k = GenerateShadowKey(k, 0) /\ k \in File /\ 0 \in 0..MaxCount
      BY <2>3, LoadAssumption DEF GenerateShadowKey, File
    <3>2. RootOf(k) = k
      BY <2>3, <3>1, ParseGenerated
    <3>3. k \in DOMAIN map
      BY <2>1, <3>1, <3>2 DEF LoadIInv, RootsOfSeen
    <3>4. PICK key \in File : RootOf(key) = k /\ ParsedCount(key) = map[k]
      BY <2>1, <3>3 DEF LoadIInv, GreatestSeen
    <3> QED
      BY <2>1, <2>3, <3>3, <3>4, FileKeys
  <2>4. DOMAIN map = DOMAIN counts \cup SetKeys
    <3>1. DOMAIN map \subseteq DOMAIN counts \cup SetKeys
      BY <2>1, FileKeys DEF LoadIInv, RootsOfSeen
    <3> QED
      BY <2>2, <2>3, <3>1
  <2>5. map = [k \in DOMAIN map |-> map[k]]
    BY <2>1 DEF LoadTypeOK
  <2> QED
    BY <2>2, <2>3, <2>4, <2>5
<1> QED
  BY <1>1, LoadInvariant, PlainKeys, PTL

(* ----- the iterators: what has been read, and what has come out ----- *)

TextBytes == Bytes \cup {Newline}
Newlines  == {i \in 1..pos : file[i] = Newline}

\* b is where the line that stops at stop begins: the newline before it, or 0.
LineFrom(b, stop) ==
  b \in {0} \cup Newlines /\ b < stop /\ \A i \in Newlines : ~(b < i /\ i < stop)

FileInv ==
  /\ kind \in TextKinds \cup DbKinds
  /\ file \in Seq(IF kind \in TextKinds THEN TextBytes ELSE Records \cup {NoValue})
  /\ stage \in {"new", "open", "refused", "complete"}
  /\ failed \in BOOLEAN
  /\ pos \in 0..Len(file)
  /\ stage = "new" => pos = 0
  /\ stage = "complete" => failed \/ pos = Len(file)

\* The line that ends at the k-th newline is the k-th value.
LineOut(stop) ==
  \E b \in 0..pos :
    LineFrom(b, stop) /\ values[Cardinality(Upto(Newlines, stop))] = SubSeq(file, b + 1, stop - 1)

\* What follows the last newline, b: nothing, what full_line holds, or the
\* last value, when reading has ended within the line.
RestFrom(b) ==
  /\ LineFrom(b, pos + 1)
  /\ \/ /\ b = pos /\ ~inLine /\ full_line = <<>>
        /\ Len(values) = Cardinality(Newlines)
     \/ /\ b < pos /\ inLine /\ full_line = SubSeq(file, b + 1, pos)
        /\ Len(values) = Cardinality(Newlines)
     \/ /\ b < pos /\ ~inLine /\ full_line = <<>>
        /\ failed \/ pos = Len(file)
        /\ Len(values) = Cardinality(Newlines) + 1
        /\ \E tail \in {<<>>, <<Garbage>>} :
             values[Len(values)] = SubSeq(file, b + 1, pos) \o tail

TextInv ==
  kind \in TextKinds =>
    /\ values \in Seq(Seq(TextBytes \cup {Garbage}))
    /\ inLine \in BOOLEAN
    /\ stage = "complete" => ~inLine
    /\ \A stop \in Newlines : LineOut(stop)
    /\ \E b \in 0..pos : RestFrom(b)

\* The size is the length of the file, or 0 of a text.
SizeInv ==
  stage \in {"open", "complete"} =>
    /\ progress.size_ \in {0, Len(file)}
    /\ kind = "gzip" => progress.size_ = 0
    /\ kind \in DbKinds => progress.size_ = Len(file)
    /\ progress.absolute_ = (progress.size_ = 0)

ProgressFields ==
  progress = [verbose_ |-> progress.verbose_, size_ |-> progress.size_,
              absolute_ |-> progress.absolute_, current_ |-> progress.current_,
              current_percentage_ |-> progress.current_percentage_,
              current_sample_ |-> progress.current_sample_, shown |-> progress.shown]

\* Nothing shown is ahead of what was read, and no percentage kept to be shown.
CountInv ==
  stage \in {"open", "complete"} =>
    /\ progress.current_ = pos
    /\ kind = "gzip" => progress.shown \in Nat /\ progress.shown <= pos
    /\ kind # "gzip" /\ progress.size_ = 0 /\ Len(file) = 0 => progress.shown = 0
    /\ progress.size_ # 0 /\ stage = "open" =>
         /\ progress.shown \in Nat /\ progress.shown * Len(file) <= 100 * pos
         /\ progress.current_percentage_ \in Nat
         /\ progress.current_percentage_ * Len(file) <= 100 * pos
    /\ stage = "complete" =>
         progress.shown = IF progress.absolute_ THEN pos ELSE 100

IteratorIInv == FileInv /\ TextInv /\ SizeInv /\ ProgressFields /\ CountInv

------------------------------------------------------------------------------
LEMMA LeastOf ==
  ASSUME NEW N, N \subseteq Nat, N # {}
  PROVE  \E x \in N : \A y \in N : x <= y
<1>1. IsWellFoundedOn({p \in Nat \X Nat : p[1] < p[2]}, Nat)
  BY NatLessThanWellFounded DEF OpToRel
<1>2. PICK x \in N : \A y \in N : ~(<<y, x>> \in {p \in Nat \X Nat : p[1] < p[2]})
  BY <1>1, WFMin
<1>3. \A y \in N : <<y, x>> \in Nat \X Nat
  OBVIOUS
<1>4. \A y \in N : ~(y < x)
  BY <1>2, <1>3
<1> QED
  BY <1>4

LEMMA MinIs ==
  ASSUME NEW S, S \subseteq Nat, S # {}
  PROVE  Min(S) \in S /\ \A y \in S : Min(S) <= y
<1>1. \E x \in S : \A y \in S : x =< y
  BY LeastOf
<1> QED
  BY <1>1, Zenon DEF Min

\* The position of a stop among the stops grows with the stop, and each number
\* up to theirs is the position of one.
LEMMA RankGrows ==
  ASSUME NEW S, S \subseteq Nat, IsFiniteSet(S), NEW i \in S, NEW j \in S, i < j
  PROVE  Cardinality(Upto(S, i)) < Cardinality(Upto(S, j))
<1>1. Upto(S, j) \in SUBSET S /\ Upto(S, i) \in SUBSET Upto(S, j)
  <2>1. \A k \in S : k \in Nat /\ i \in Nat /\ j \in Nat
    OBVIOUS
  <2>2. \A k \in S : k <= i => k <= j
    BY <2>1
  <2> QED
    BY <2>2 DEF Upto
<1>2. j \in Upto(S, j) /\ j \notin Upto(S, i)
  BY DEF Upto
<1>3. IsFiniteSet(Upto(S, j))
  BY <1>1, FS_Subset
<1>4. /\ IsFiniteSet(Upto(S, i))
      /\ Cardinality(Upto(S, i)) <= Cardinality(Upto(S, j))
      /\ Cardinality(Upto(S, j)) = Cardinality(Upto(S, i)) => Upto(S, j) = Upto(S, i)
  BY <1>1, <1>3, FS_Subset
<1>5. Cardinality(Upto(S, i)) \in Nat /\ Cardinality(Upto(S, j)) \in Nat
  BY <1>3, <1>4, FS_CardinalityType
<1> QED
  BY <1>2, <1>4, <1>5

LEMMA RankIn ==
  ASSUME NEW S, S \subseteq Nat, IsFiniteSet(S), NEW i \in S
  PROVE  Cardinality(Upto(S, i)) \in 1..Cardinality(S)
<1>1. Upto(S, i) \in SUBSET S /\ i \in Upto(S, i)
  BY DEF Upto
<1>2. IsFiniteSet(Upto(S, i)) /\ Cardinality(Upto(S, i)) <= Cardinality(S)
  BY <1>1, FS_Subset
<1>3. Cardinality(Upto(S, i)) \in Nat /\ Cardinality(S) \in Nat
  BY <1>2, FS_CardinalityType
<1>4. Cardinality(Upto(S, i)) # 0
  BY <1>1, <1>2, FS_EmptySet
<1> QED
  BY <1>2, <1>3, <1>4

LEMMA RankOne ==
  ASSUME NEW S, S \subseteq Nat, IsFiniteSet(S), NEW i \in S, NEW j \in S,
         Cardinality(Upto(S, i)) = Cardinality(Upto(S, j))
  PROVE  i = j
<1>1. Cardinality(Upto(S, i)) \in 1..Cardinality(S)
  BY RankIn
<1>2. ~(i < j)
  <2> SUFFICES ASSUME i < j PROVE FALSE
    OBVIOUS
  <2>1. Cardinality(Upto(S, i)) < Cardinality(Upto(S, j))
    BY RankGrows
  <2> QED
    BY <1>1, <2>1
<1>4. ~(j < i)
  <2> SUFFICES ASSUME j < i PROVE FALSE
    OBVIOUS
  <2>1. Cardinality(Upto(S, j)) < Cardinality(Upto(S, i))
    BY RankGrows
  <2> QED
    BY <1>1, <2>1
<1>3. i \in Nat /\ j \in Nat
  OBVIOUS
<1> QED
  BY <1>2, <1>3, <1>4

LEMMA RankOnto ==
  ASSUME NEW S, S \subseteq Nat, IsFiniteSet(S), NEW n \in 1..Cardinality(S)
  PROVE  \E i \in S : Cardinality(Upto(S, i)) = n
<1> SUFFICES ASSUME \A i \in S : Cardinality(Upto(S, i)) # n PROVE FALSE
  OBVIOUS
<1> DEFINE c == Cardinality(S)
<1> DEFINE f == [i \in S |-> Cardinality(Upto(S, i))]
<1> DEFINE T == (1..c) \ {n}
<1>1. c \in Nat
  BY FS_CardinalityType
<1>2. IsFiniteSet(1..c) /\ Cardinality(1..c) = c
  BY <1>1, FS_Interval
<1>3. IsFiniteSet(T) /\ Cardinality(T) = c - 1
  BY <1>2, FS_RemoveElement
<1>4. \A i \in S : f[i] \in T
  BY RankIn
<1>5. f \in [S -> T]
  BY <1>4
<1>6. Cardinality(T) < Cardinality(S)
  BY <1>1, <1>3
<1>7. PICK i, j \in S : i # j /\ f[i] = f[j]
  <2> HIDE DEF f, T
  <2> QED
    BY <1>3, <1>5, <1>6, FS_PigeonHole
<1> QED
  BY <1>7, RankOne

LEMMA NewlinesFinite ==
  ASSUME pos \in Nat
  PROVE  /\ Newlines \subseteq 1..pos /\ Newlines \subseteq Nat /\ IsFiniteSet(Newlines)
         /\ Cardinality(Newlines) \in Nat
<1>1. IsFiniteSet(1..pos)
  BY FS_Interval
<1>2. Newlines \in SUBSET (1..pos)
  BY DEF Newlines
<1>3. IsFiniteSet(Newlines)
  BY <1>1, <1>2, FS_Subset
<1> QED
  BY <1>2, <1>3, FS_CardinalityType

\* What fgets returns: nothing at the end or after an error, or what follows up
\* to some place, with no newline before its last byte.
ChunkTo(to) ==
  /\ to \in pos + 1..Len(file)
  /\ Chunk = SubSeq(file, pos + 1, to)
  /\ Len(Chunk) = to - pos /\ Last(Chunk) = file[to]
  /\ \A i \in pos + 1..to - 1 : file[i] # Newline

LEMMA ChunkIs ==
  ASSUME FileInv, kind \in TextKinds
  PROVE  /\ Chunk = <<>> => failed \/ pos = Len(file)
         /\ Chunk # <<>> => ~failed /\ pos < Len(file) /\ \E to \in Nat : ChunkTo(to)
<1>1. file \in Seq(TextBytes) /\ pos \in 0..Len(file) /\ Len(file) \in Nat
  BY DEF FileInv
<1>2. PICK last : last = Min({Len(file), pos + BufferSize - 1})
  OBVIOUS
<1>3. last \in {Len(file), pos + BufferSize - 1} /\ last <= Len(file)
  <2>1. {Len(file), pos + BufferSize - 1} \subseteq Nat
    BY <1>1, IteratorAssumption
  <2> QED
    BY <1>2, <2>1, MinIs
<1>4. PICK ends : ends = {i \in pos + 1..last : file[i] = Newline}
  OBVIOUS
<1>5. PICK to : to = Min(ends \cup {last})
  OBVIOUS
<1>6. Chunk = IF failed THEN <<>> ELSE SubSeq(file, pos + 1, to)
  BY <1>2, <1>4, <1>5 DEF Chunk
<1>7. CASE pos = Len(file)
  <2>1. last = pos
    BY <1>1, <1>3, <1>7, IteratorAssumption
  <2>2. ends = {}
    BY <1>1, <1>4, <2>1
  <2>3. to = pos
    <3>1. {pos} \subseteq Nat /\ ends \cup {last} = {pos}
      BY <1>1, <2>1, <2>2
    <3> QED
      BY <1>5, <3>1, MinIs
  <2>4. SubSeq(file, pos + 1, to) = <<>>
    BY <1>1, <2>3
  <2> QED
    BY <1>6, <1>7, <2>4
<1>8. CASE pos # Len(file)
  <2>1. pos < Len(file) /\ last \in pos + 1..Len(file)
    BY <1>1, <1>3, <1>8, IteratorAssumption
  <2>2. ends \cup {last} \subseteq pos + 1..last
    BY <1>1, <1>4, <2>1
  <2>3. to \in ends \cup {last} /\ \A y \in ends \cup {last} : to <= y
    <3>1. ends \cup {last} \subseteq Nat /\ ends \cup {last} # {}
      BY <1>1, <2>1, <2>2
    <3> QED
      BY <1>5, <3>1, MinIs
  <2>4. to \in pos + 1..last /\ to \in pos + 1..Len(file) /\ to \in Nat
    BY <1>1, <2>1, <2>2, <2>3
  <2>5. \A i \in pos + 1..to - 1 : file[i] # Newline
    <3> SUFFICES ASSUME NEW i \in pos + 1..to - 1, file[i] = Newline PROVE FALSE
      OBVIOUS
    <3>1. i \in pos + 1..last /\ i < to
      BY <1>1, <2>1, <2>4
    <3>2. i \in ends
      BY <1>4, <3>1
    <3>3. i \in Int /\ to \in Int
      BY <1>1, <2>4
    <3> QED
      BY <2>3, <3>1, <3>2, <3>3
  <2>6. CASE failed
    BY <1>6, <2>6
  <2>7. CASE ~failed
    <3>1. Chunk = SubSeq(file, pos + 1, to)
      BY <1>6, <2>7
    <3>2. Len(Chunk) = to - pos
      BY <1>1, <2>4, <3>1
    <3>3. Chunk[to - pos] = file[to]
      BY <1>1, <2>4, <3>1
    <3>4. Chunk # <<>>
      BY <1>1, <2>4, <3>2
    <3>5. ChunkTo(to)
      BY <2>4, <2>5, <3>1, <3>2, <3>3 DEF ChunkTo, Last
    <3> QED
      BY <2>1, <2>4, <2>7, <3>4, <3>5
  <2> QED
    BY <2>6, <2>7
<1> QED
  BY <1>7, <1>8

\* Two neighbouring parts of a sequence together.
LEMMA Joined ==
  ASSUME NEW S, NEW s \in Seq(S), NEW a \in Nat, NEW b \in Nat, NEW c \in Nat,
         a <= b, b <= c, c <= Len(s)
  PROVE  SubSeq(s, a + 1, b) \o SubSeq(s, b + 1, c) = SubSeq(s, a + 1, c)
<1>1. SubSeq(s, a + 1, b) \in Seq(S) /\ Len(SubSeq(s, a + 1, b)) = b - a
  OBVIOUS
<1>2. SubSeq(s, b + 1, c) \in Seq(S) /\ Len(SubSeq(s, b + 1, c)) = c - b
  OBVIOUS
<1>3. SubSeq(s, a + 1, c) \in Seq(S) /\ Len(SubSeq(s, a + 1, c)) = c - a
  OBVIOUS
<1>4. PICK t : t = SubSeq(s, a + 1, b) \o SubSeq(s, b + 1, c)
  OBVIOUS
<1>5. t \in Seq(S) /\ Len(t) = c - a
  BY <1>1, <1>2, <1>4
<1>6. \A i \in 1..c - a : t[i] = s[a + i]
  <2> SUFFICES ASSUME NEW i \in 1..c - a PROVE t[i] = s[a + i]
    OBVIOUS
  <2>1. CASE i <= b - a
    <3>1. t[i] = SubSeq(s, a + 1, b)[i]
      BY <1>1, <1>2, <1>4, <2>1
    <3> QED
      BY <2>1, <3>1
  <2>2. CASE i > b - a
    <3>1. i - (b - a) \in 1..c - b
      BY <2>2
    <3>2. t[i] = SubSeq(s, b + 1, c)[i - (b - a)]
      BY <1>1, <1>2, <1>4, <2>2, <3>1
    <3>3. SubSeq(s, b + 1, c)[i - (b - a)] = s[b + (i - (b - a))]
      BY <3>1
    <3>4. b + (i - (b - a)) = a + i
      OBVIOUS
    <3> QED
      BY <3>2, <3>3, <3>4
  <2> QED
    BY <2>1, <2>2
<1>7. \A i \in 1..c - a : SubSeq(s, a + 1, c)[i] = s[a + i]
  OBVIOUS
<1> QED
  <2>1. t = SubSeq(s, a + 1, c)
    <3> HIDE <1>4
    <3> QED
      BY <1>3, <1>5, <1>6, <1>7
  <2> QED
    BY <1>4, <2>1

LEMMA JoinedFront ==
  ASSUME NEW S, NEW s \in Seq(S), NEW a \in Nat, NEW c \in Nat, a < c, c <= Len(s)
  PROVE  Front(SubSeq(s, a + 1, c)) = SubSeq(s, a + 1, c - 1)
<1>1. SubSeq(s, a + 1, c) \in Seq(S) /\ Len(SubSeq(s, a + 1, c)) = c - a
  OBVIOUS
<1>2. PICK t : t = SubSeq(SubSeq(s, a + 1, c), 1, c - a - 1)
  OBVIOUS
<1>3. t \in Seq(S) /\ Len(t) = c - a - 1 /\ \A i \in 1..c - a - 1 : t[i] = s[a + i]
  BY <1>1, <1>2
<1>4. /\ SubSeq(s, a + 1, c - 1) \in Seq(S) /\ Len(SubSeq(s, a + 1, c - 1)) = c - a - 1
      /\ \A i \in 1..c - a - 1 : SubSeq(s, a + 1, c - 1)[i] = s[a + i]
  OBVIOUS
<1> QED
  BY <1>1, <1>2, <1>3, <1>4 DEF Front

LEMMA FileStep ==
  ASSUME FileInv, Next
  PROVE  FileInv'
<1>1. pos \in 0..Len(file) /\ Len(file) \in Nat /\ pos \in Nat
  BY DEF FileInv
<1>2. CASE LineInitialize \/ GzipInitialize \/ HashInitialize \/ CabinetInitialize
  BY <1>2 DEF FileInv, LineInitialize, GzipInitialize, HashInitialize, CabinetInitialize, Opened
<1>3. CASE InitializeFails \/ ReadFails
  BY <1>3 DEF FileInv, InitializeFails, ReadFails
<1>4. CASE ReadPart \/ ReadEnd
  <2>1. kind \in TextKinds /\ Chunk # <<>> /\ stage = "open" /\ pos' = pos + Len(Chunk)
        /\ UNCHANGED <<kind, file, stage, failed>>
    BY <1>4 DEF ReadPart, ReadEnd
  <2>2. PICK to \in Nat : ChunkTo(to)
    BY <2>1, ChunkIs
  <2>3. pos' = to /\ to \in 0..Len(file)
    BY <1>1, <2>1, <2>2 DEF ChunkTo
  <2> QED
    BY <2>1, <2>3 DEF FileInv
<1>5. CASE ReadUnterminated
  BY <1>5 DEF FileInv, ReadUnterminated
<1>6. CASE HashNext \/ CabinetNext
  <2>1. stage = "open" /\ pos < Len(file) /\ pos' = pos + 1 /\ UNCHANGED <<kind, file, stage, failed>>
    BY <1>6 DEF HashNext, CabinetNext, ReadRecord
  <2>2. pos' \in 0..Len(file)
    BY <1>1, <2>1
  <2> QED
    BY <2>1, <2>2 DEF FileInv
<1>7. CASE EndOfFile
  <2>1. stage' = "complete" /\ UNCHANGED <<kind, file, failed, pos>>
    BY <1>7 DEF EndOfFile
  <2>2. failed \/ pos = Len(file)
    BY <1>7, ChunkIs DEF EndOfFile
  <2> QED
    BY <2>1, <2>2 DEF FileInv
<1>8. CASE Terminated
  BY <1>8 DEF FileInv, Terminated, vars
<1> QED
  BY <1>2, <1>3, <1>4, <1>5, <1>6, <1>7, <1>8 DEF Next

\* A line that has come out stays out.
LEMMA LinesKept ==
  ASSUME FileInv, kind \in TextKinds, NEW stop \in Newlines, LineOut(stop),
         file' = file, pos' \in Nat, pos <= pos', stop \in Newlines',
         \A i \in Newlines' : i \in Newlines \/ i > pos,
         Newlines \subseteq Newlines',
         \A i \in 1..Cardinality(Newlines) : values'[i] = values[i]
  PROVE  LineOut(stop)'
<1>1. pos \in Nat
  BY DEF FileInv
<1>2. Newlines \subseteq 1..pos /\ Newlines \subseteq Nat /\ IsFiniteSet(Newlines)
  BY <1>1, NewlinesFinite
<1>3. Upto(Newlines', stop) = Upto(Newlines, stop)
  <2>1. stop \in 1..pos
    BY <1>2
  <2>2. \A i \in Newlines' : i <= stop => i \in Newlines
    BY <1>1, <2>1 DEF Newlines
  <2> QED
    BY <2>2 DEF Upto
<1>4. Cardinality(Upto(Newlines, stop)) \in 1..Cardinality(Newlines)
  BY <1>2, RankIn
<1>5. values'[Cardinality(Upto(Newlines', stop))] = values[Cardinality(Upto(Newlines, stop))]
  BY <1>3, <1>4
<1>6. PICK b \in 0..pos : LineFrom(b, stop) /\ values[Cardinality(Upto(Newlines, stop))] = SubSeq(file, b + 1, stop - 1)
  BY DEF LineOut
<1>7. LineFrom(b, stop)'
  <2>1. b \in {0} \cup Newlines' /\ b < stop
    BY <1>6 DEF LineFrom
  <2>2. \A i \in Newlines' : ~(b < i /\ i < stop)
    <3> SUFFICES ASSUME NEW i \in Newlines', b < i, i < stop PROVE FALSE
      OBVIOUS
    <3>1. i \in Nat /\ stop \in 1..pos
      BY <1>2 DEF Newlines
    <3>2. i \in Newlines
      BY <1>1, <3>1
    <3> QED
      BY <1>6, <3>2 DEF LineFrom
  <2> QED
    BY <2>1, <2>2 DEF LineFrom
<1>8. b \in 0..pos'
  BY <1>1
<1> QED
  BY <1>5, <1>6, <1>7, <1>8 DEF LineOut

LEMMA TextSame ==
  ASSUME FileInv, TextInv, UNCHANGED <<kind, file, pos, inLine, full_line, values>>,
         failed => failed', stage' = "complete" => ~inLine
  PROVE  TextInv'
<1> SUFFICES ASSUME kind \in TextKinds PROVE TextInv'
  BY DEF TextInv
<1>1. Newlines' = Newlines
  BY DEF Newlines
<1>2. \A stop : LineOut(stop) => LineOut(stop)'
  BY <1>1 DEF LineOut, LineFrom
<1>3. \A b : RestFrom(b) => RestFrom(b)'
  BY <1>1 DEF RestFrom, LineFrom
<1> QED
  BY <1>1, <1>2, <1>3 DEF TextInv

\* A chunk without a newline goes to the line that has begun.
LEMMA TextPart ==
  ASSUME FileInv, TextInv, ReadPart
  PROVE  TextInv'
<1>1. /\ kind \in TextKinds /\ Chunk # <<>> /\ Last(Chunk) # Newline /\ stage = "open"
      /\ pos' = pos + Len(Chunk) /\ inLine' = TRUE /\ full_line' = full_line \o Chunk
      /\ UNCHANGED <<kind, file, stage, failed, values>>
  BY DEF ReadPart
<1>2. pos \in Nat /\ pos \in 0..Len(file) /\ Len(file) \in Nat /\ file \in Seq(TextBytes)
  BY <1>1 DEF FileInv
<1>3. PICK to \in Nat : ChunkTo(to)
  BY <1>1, ChunkIs
<1>4. pos' = to /\ to \in pos + 1..Len(file)
  BY <1>1, <1>2, <1>3 DEF ChunkTo
<1>5. Newlines' = Newlines
  <2>1. \A i \in pos + 1..to : file[i] # Newline
    <3> SUFFICES ASSUME NEW i \in pos + 1..to PROVE file[i] # Newline
      OBVIOUS
    <3>1. i = to \/ i \in pos + 1..to - 1
      BY <1>2
    <3> QED
      BY <1>1, <1>3, <3>1 DEF ChunkTo
  <2>2. \A i \in 1..to : i \in 1..pos \/ i \in pos + 1..to
    BY <1>2
  <2>3. \A i \in 1..pos : i \in 1..to
    BY <1>2, <1>4
  <2> QED
    BY <1>1, <1>4, <2>1, <2>2, <2>3 DEF Newlines
<1>6. Newlines \subseteq Nat /\ Newlines \subseteq 1..pos
  BY <1>2, NewlinesFinite
<1>7. \A stop \in Newlines' : LineOut(stop)'
  <2> SUFFICES ASSUME NEW stop \in Newlines PROVE LineOut(stop)'
    BY <1>5
  <2>1. LineOut(stop)
    BY <1>1 DEF TextInv
  <2> QED
    BY <1>1, <1>2, <1>4, <1>5, <2>1, LinesKept
<1>8. \E b \in 0..pos' : RestFrom(b)'
  <2>1. PICK b \in 0..pos : RestFrom(b)
    BY <1>1 DEF TextInv
  <2>2. ~(failed \/ pos = Len(file))
    BY <1>1, <1>2, ChunkIs
  <2>3. Len(values) = Cardinality(Newlines) /\ full_line = SubSeq(file, b + 1, pos)
    <3>1. CASE b = pos /\ full_line = <<>> /\ Len(values) = Cardinality(Newlines)
      BY <1>2, <3>1
    <3> QED
      BY <2>1, <2>2, <3>1 DEF RestFrom
  <2>4. full_line' = SubSeq(file, b + 1, to)
    <3>1. SubSeq(file, b + 1, pos) \o SubSeq(file, pos + 1, to) = SubSeq(file, b + 1, to)
      BY <1>2, <1>4, <2>1, Joined
    <3> QED
      BY <1>1, <1>3, <2>3, <3>1 DEF ChunkTo
  <2>5. LineFrom(b, pos + 1)
    BY <2>1 DEF RestFrom
  <2>6. LineFrom(b, to + 1)'
    <3>1. \A i \in Newlines : i <= pos
      BY <1>2, <1>6
    <3> QED
      BY <1>2, <1>4, <1>5, <1>6, <2>5, <3>1 DEF LineFrom
  <2>7. b \in 0..to /\ b < to
    BY <1>2, <1>4
  <2>8. RestFrom(b)'
    BY <1>1, <1>4, <1>5, <2>3, <2>4, <2>6, <2>7 DEF RestFrom
  <2> QED
    BY <1>4, <2>7, <2>8
<1> QED
  BY <1>1, <1>7, <1>8 DEF TextInv

\* A chunk with one makes a value of that line.
LEMMA TextEnd ==
  ASSUME FileInv, TextInv, ReadEnd
  PROVE  TextInv'
<1>1. /\ kind \in TextKinds /\ Chunk # <<>> /\ Last(Chunk) = Newline /\ stage = "open"
      /\ pos' = pos + Len(Chunk) /\ inLine' = FALSE /\ full_line' = <<>>
      /\ values' = Append(values, Front(full_line \o Chunk))
      /\ UNCHANGED <<kind, file, stage, failed>>
  BY DEF ReadEnd
<1>2. pos \in Nat /\ pos \in 0..Len(file) /\ Len(file) \in Nat /\ file \in Seq(TextBytes)
  BY <1>1 DEF FileInv
<1>3. PICK to \in Nat : ChunkTo(to)
  BY <1>1, ChunkIs
<1>4. pos' = to /\ to \in pos + 1..Len(file) /\ file[to] = Newline
  BY <1>1, <1>2, <1>3 DEF ChunkTo
<1>5. /\ Newlines \subseteq Nat /\ Newlines \subseteq 1..pos /\ IsFiniteSet(Newlines)
      /\ Cardinality(Newlines) \in Nat
  BY <1>2, NewlinesFinite
<1>6. Newlines' = Newlines \cup {to} /\ to \notin Newlines
  <2>1. \A i \in pos + 1..to - 1 : file[i] # Newline
    BY <1>3 DEF ChunkTo
  <2>2. \A i \in 1..to : i \in 1..pos \/ i \in pos + 1..to - 1 \/ i = to
    BY <1>2
  <2>3. \A i \in 1..pos : i \in 1..to
    BY <1>2, <1>4
  <2>4. to \in 1..to /\ to \notin 1..pos
    BY <1>2, <1>4
  <2>5. Newlines' = {i \in 1..to : file[i] = Newline}
    BY <1>1, <1>4 DEF Newlines
  <2>6. \A i : i \in Newlines' <=> i \in Newlines \/ i = to
    BY <1>4, <2>1, <2>2, <2>3, <2>4, <2>5 DEF Newlines
  <2> QED
    BY <2>4, <2>6 DEF Newlines
<1>7. PICK b \in 0..pos : RestFrom(b)
  BY <1>1 DEF TextInv
<1>8. Len(values) = Cardinality(Newlines) /\ full_line = SubSeq(file, b + 1, pos)
  <2>1. ~(failed \/ pos = Len(file))
    BY <1>1, <1>2, ChunkIs
  <2>2. CASE b = pos /\ full_line = <<>> /\ Len(values) = Cardinality(Newlines)
    BY <1>2, <2>2
  <2> QED
    BY <1>7, <2>1, <2>2 DEF RestFrom
<1>9. Front(full_line \o Chunk) = SubSeq(file, b + 1, to - 1)
  <2>1. SubSeq(file, b + 1, pos) \o SubSeq(file, pos + 1, to) = SubSeq(file, b + 1, to)
    BY <1>2, <1>4, Joined
  <2>2. full_line \o Chunk = SubSeq(file, b + 1, to)
    BY <1>3, <1>8, <2>1 DEF ChunkTo
  <2>3. b < to /\ to <= Len(file) /\ b \in Nat
    BY <1>2, <1>4
  <2>4. Front(SubSeq(file, b + 1, to)) = SubSeq(file, b + 1, to - 1)
    BY <1>2, <2>3, JoinedFront
  <2> QED
    BY <2>2, <2>4
<1>10. /\ values \in Seq(Seq(TextBytes \cup {Garbage}))
       /\ values' \in Seq(Seq(TextBytes \cup {Garbage}))
       /\ Len(values') = Cardinality(Newlines) + 1
       /\ values'[Cardinality(Newlines) + 1] = SubSeq(file, b + 1, to - 1)
       /\ \A i \in 1..Cardinality(Newlines) : values'[i] = values[i]
  <2>1. values \in Seq(Seq(TextBytes \cup {Garbage}))
    BY <1>1 DEF TextInv
  <2>2. SubSeq(file, b + 1, to - 1) \in Seq(TextBytes \cup {Garbage})
    <3>1. file \in Seq(TextBytes \cup {Garbage})
      BY <1>2
    <3> QED
      BY <1>2, <1>4, <3>1
  <2>3. values' = Append(values, SubSeq(file, b + 1, to - 1))
    BY <1>1, <1>9
  <2> HIDE DEF TextBytes
  <2> QED
    BY <1>5, <1>8, <2>1, <2>2, <2>3
<1>11. LineFrom(b, pos + 1)
  BY <1>7 DEF RestFrom
<1>12. \A stop \in Newlines' : LineOut(stop)'
  <2>1. ASSUME NEW stop \in Newlines PROVE LineOut(stop)'
    <3>1. LineOut(stop)
      BY <1>1 DEF TextInv
    <3>2. \A i \in Newlines' : i \in Newlines \/ i > pos
      <4>1. to > pos
        BY <1>2, <1>4
      <4> QED
        BY <1>6, <4>1
    <3>3. stop \in Newlines' /\ Newlines \subseteq Newlines'
      BY <1>6
    <3>4. pos' \in Nat /\ pos <= pos'
      BY <1>2, <1>4
    <3> QED
      BY <1>1, <1>10, <3>1, <3>2, <3>3, <3>4, LinesKept
  <2>2. LineOut(to)'
    <3>1. Upto(Newlines', to) = Newlines'
      <4>1. \A i \in Newlines : i <= to
        BY <1>2, <1>4, <1>5
      <4>2. \A i \in Newlines' : i <= to
        BY <1>4, <1>6, <4>1
      <4> QED
        BY <4>2 DEF Upto
    <3>2. Cardinality(Newlines') = Cardinality(Newlines) + 1
      BY <1>5, <1>6, FS_AddElement
    <3>3. LineFrom(b, to)'
      <4>1. b \in {0} \cup Newlines' /\ b < to
        BY <1>2, <1>4, <1>6, <1>11 DEF LineFrom
      <4>2. \A i \in Newlines' : ~(b < i /\ i < to)
        <5> SUFFICES ASSUME NEW i \in Newlines', b < i, i < to PROVE FALSE
          OBVIOUS
        <5>1. i \in Newlines /\ i < pos + 1
          BY <1>2, <1>5, <1>6
        <5> QED
          BY <1>11, <5>1 DEF LineFrom
      <4> QED
        BY <4>1, <4>2 DEF LineFrom
    <3>4. b \in 0..pos'
      BY <1>2, <1>4
    <3> QED
      BY <1>1, <1>10, <3>1, <3>2, <3>3, <3>4 DEF LineOut
  <2> QED
    BY <1>6, <2>1, <2>2
<1>13. RestFrom(to)'
  <2>1. Cardinality(Newlines') = Cardinality(Newlines) + 1
    BY <1>5, <1>6, FS_AddElement
  <2>2. LineFrom(to, to + 1)'
    <3>1. \A i \in Newlines' : ~(to < i /\ i < to + 1)
      BY <1>2, <1>5, <1>6
    <3> QED
      BY <1>6, <3>1 DEF LineFrom
  <2> QED
    BY <1>1, <1>4, <1>10, <2>1, <2>2 DEF RestFrom
<1>14. to \in 0..pos'
  BY <1>4
<1> QED
  BY <1>1, <1>10, <1>12, <1>13, <1>14 DEF TextInv

\* The line the file ends in is the last value.
LEMMA TextUnterminated ==
  ASSUME FileInv, TextInv, ReadUnterminated
  PROVE  TextInv'
<1>1. /\ kind \in TextKinds /\ Chunk = <<>> /\ inLine /\ stage = "open"
      /\ inLine' = FALSE /\ full_line' = <<>>
      /\ UNCHANGED <<kind, file, stage, failed, pos>>
  BY DEF ReadUnterminated
<1>2. PICK tail \in {<<>>, <<Garbage>>} : values' = Append(values, full_line \o tail)
  BY DEF ReadUnterminated
<1>3. pos \in Nat /\ pos \in 0..Len(file) /\ Len(file) \in Nat /\ file \in Seq(TextBytes)
  BY <1>1 DEF FileInv
<1>4. Newlines' = Newlines /\ Cardinality(Newlines) \in Nat
  BY <1>1, <1>3, NewlinesFinite DEF Newlines
<1>5. PICK b \in 0..pos : RestFrom(b)
  BY <1>1 DEF TextInv
<1>6. /\ b < pos /\ full_line = SubSeq(file, b + 1, pos) /\ LineFrom(b, pos + 1)
      /\ Len(values) = Cardinality(Newlines)
  BY <1>1, <1>5 DEF RestFrom
<1>7. failed \/ pos = Len(file)
  BY <1>1, ChunkIs
<1>8. values \in Seq(Seq(TextBytes \cup {Garbage}))
  BY <1>1 DEF TextInv
<1>9. full_line \o tail \in Seq(TextBytes \cup {Garbage})
  <2>1. file \in Seq(TextBytes \cup {Garbage})
    BY <1>3
  <2>2. full_line \in Seq(TextBytes \cup {Garbage})
    BY <1>3, <1>6, <2>1
  <2>3. tail \in Seq(TextBytes \cup {Garbage})
    <3>1. <<>> \in Seq(TextBytes \cup {Garbage}) /\ <<Garbage>> \in Seq(TextBytes \cup {Garbage})
      OBVIOUS
    <3> QED
      BY <1>2, <3>1
  <2> HIDE DEF TextBytes
  <2> QED
    BY <2>2, <2>3
<1>10. /\ values' \in Seq(Seq(TextBytes \cup {Garbage}))
       /\ Len(values') = Cardinality(Newlines) + 1
       /\ values'[Len(values')] = SubSeq(file, b + 1, pos) \o tail
       /\ \A i \in 1..Cardinality(Newlines) : values'[i] = values[i]
  <2> HIDE DEF TextBytes
  <2>1. PICK line : line = full_line \o tail
    OBVIOUS
  <2>2. values' = Append(values, line) /\ line \in Seq(TextBytes \cup {Garbage})
    BY <1>2, <1>9, <2>1
  <2>3. /\ values' \in Seq(Seq(TextBytes \cup {Garbage}))
        /\ Len(values') = Cardinality(Newlines) + 1
        /\ values'[Len(values')] = line
        /\ \A i \in 1..Cardinality(Newlines) : values'[i] = values[i]
    BY <1>4, <1>6, <1>8, <2>2
  <2> QED
    BY <1>6, <2>1, <2>3
<1>11. \A stop \in Newlines' : LineOut(stop)'
  <2> SUFFICES ASSUME NEW stop \in Newlines PROVE LineOut(stop)'
    BY <1>4
  <2>1. LineOut(stop)
    BY <1>1 DEF TextInv
  <2> QED
    <3>1. pos' \in Nat /\ pos <= pos' /\ stop \in Newlines' /\ Newlines \subseteq Newlines'
      BY <1>1, <1>3, <1>4
    <3>2. \A i \in Newlines' : i \in Newlines \/ i > pos
      BY <1>4
    <3>3. \A i \in 1..Cardinality(Newlines) : values'[i] = values[i]
      BY <1>10
    <3> QED
      BY <1>1, <2>1, <3>1, <3>2, <3>3, LinesKept
<1>12. LineFrom(b, pos + 1)'
  BY <1>1, <1>4, <1>6 DEF LineFrom
<1>13. RestFrom(b)'
  BY <1>1, <1>4, <1>6, <1>7, <1>10, <1>12 DEF RestFrom
<1> QED
  BY <1>1, <1>5, <1>10, <1>11, <1>13 DEF TextInv

LEMMA TextStep ==
  ASSUME FileInv, TextInv, Next
  PROVE  TextInv'
<1>1. CASE LineInitialize \/ GzipInitialize \/ HashInitialize \/ CabinetInitialize
  BY <1>1, TextSame DEF LineInitialize, GzipInitialize, HashInitialize, CabinetInitialize, Opened
<1>2. CASE InitializeFails \/ ReadFails
  BY <1>2, TextSame DEF InitializeFails, ReadFails
<1>3. CASE HashNext \/ CabinetNext
  BY <1>3 DEF HashNext, CabinetNext, ReadRecord, TextInv, TextKinds
<1>4. CASE EndOfFile
  <2>1. CASE kind \in TextKinds
    BY <1>4, <2>1, TextSame DEF EndOfFile
  <2>2. CASE kind \notin TextKinds
    BY <1>4, <2>2 DEF EndOfFile, TextInv
  <2> QED
    BY <2>1, <2>2
<1>5. CASE Terminated
  <2>1. CASE kind \in TextKinds
    BY <1>5, <2>1, TextSame DEF Terminated, vars, TextInv
  <2>2. CASE kind \notin TextKinds
    BY <1>5, <2>2 DEF Terminated, vars, TextInv
  <2> QED
    BY <2>1, <2>2
<1> QED
  BY <1>1, <1>2, <1>3, <1>4, <1>5, TextPart, TextEnd, TextUnterminated DEF Next

LEMMA Share ==
  ASSUME NEW a \in Nat, NEW n \in Nat, n # 0
  PROVE  a \div n \in Nat /\ (a \div n) * n <= a
<1>1. a = n * (a \div n) + (a % n) /\ a % n \in 0..n - 1 /\ a \div n \in Int
  OBVIOUS
<1>2. a \div n >= 0
  OBVIOUS
<1>3. n * (a \div n) = (a \div n) * n
  BY <1>1
<1> QED
  BY <1>1, <1>2, <1>3

\* What tick makes of a size that is the length of the file.
LEMMA Ticked ==
  ASSUME ProgressFields, NEW more \in Nat, NEW p \in Tick(progress, more)
  PROVE  /\ p = [verbose_ |-> p.verbose_, size_ |-> p.size_, absolute_ |-> p.absolute_,
                 current_ |-> p.current_, current_percentage_ |-> p.current_percentage_,
                 current_sample_ |-> p.current_sample_, shown |-> p.shown]
         /\ p.size_ = progress.size_ /\ p.absolute_ = progress.absolute_
         /\ p.current_ = progress.current_ + more
         /\ progress.size_ # 0 =>
              LET percentage == (100 * (progress.current_ + more)) \div progress.size_
              IN  /\ p.shown \in {progress.shown, progress.current_percentage_, percentage}
                  /\ p.current_percentage_ \in {progress.current_percentage_, percentage}
<1> DEFINE ticked == [progress EXCEPT !.current_ = @ + more]
<1>1. ticked = [verbose_ |-> progress.verbose_, size_ |-> progress.size_,
                absolute_ |-> progress.absolute_, current_ |-> progress.current_ + more,
                current_percentage_ |-> progress.current_percentage_,
                current_sample_ |-> progress.current_sample_, shown |-> progress.shown]
  <2>1. PICK q : q = progress
    OBVIOUS
  <2>2. q = [verbose_ |-> q.verbose_, size_ |-> q.size_, absolute_ |-> q.absolute_,
             current_ |-> q.current_, current_percentage_ |-> q.current_percentage_,
             current_sample_ |-> q.current_sample_, shown |-> q.shown]
    BY <2>1 DEF ProgressFields
  <2>3. [q EXCEPT !.current_ = @ + more] =
          [verbose_ |-> q.verbose_, size_ |-> q.size_, absolute_ |-> q.absolute_,
           current_ |-> q.current_ + more, current_percentage_ |-> q.current_percentage_,
           current_sample_ |-> q.current_sample_, shown |-> q.shown]
    BY <2>2
  <2> QED
    BY <2>1, <2>3
<1>2. PICK percentage \in PercentagesOf(ticked) :
        p = IF ticked.verbose_ THEN [ticked EXCEPT !.shown = percentage]
            ELSE IF percentage <= ticked.current_percentage_ THEN ticked
            ELSE [ticked EXCEPT !.shown = ticked.current_percentage_,
                                !.current_percentage_ = percentage]
  BY Zenon DEF Tick
<1>3. progress.size_ # 0 => percentage = (100 * (progress.current_ + more)) \div progress.size_
  BY <1>1, <1>2 DEF PercentagesOf
<1>4. PICK q : q = ticked
  OBVIOUS
<1>5. CASE ticked.verbose_
  <2>1. p = [q EXCEPT !.shown = percentage]
    BY <1>2, <1>4, <1>5
  <2> HIDE DEF ticked
  <2> QED
    BY <1>1, <1>3, <1>4, <2>1
<1>6. CASE ~ticked.verbose_ /\ percentage <= ticked.current_percentage_
  <2>1. p = q
    BY <1>2, <1>4, <1>6
  <2> HIDE DEF ticked
  <2> QED
    BY <1>1, <1>4, <2>1
<1>7. CASE ~ticked.verbose_ /\ ~(percentage <= ticked.current_percentage_)
  <2>1. p = [q EXCEPT !.shown = q.current_percentage_, !.current_percentage_ = percentage]
    BY <1>2, <1>4, <1>7
  <2> HIDE DEF ticked
  <2> QED
    BY <1>1, <1>3, <1>4, <2>1
<1> QED
  BY <1>5, <1>6, <1>7

\* Neither what is shown nor the percentage kept runs ahead of the reading.
LEMMA CountTick ==
  ASSUME FileInv, SizeInv, ProgressFields, CountInv, stage = "open", kind # "gzip",
         NEW more \in Nat, progress' \in Tick(progress, more), pos' = pos + more,
         pos < Len(file), UNCHANGED <<kind, file, stage>>
  PROVE  SizeInv' /\ ProgressFields' /\ CountInv'
<1>1. pos \in Nat /\ Len(file) \in Nat /\ Len(file) # 0
  BY DEF FileInv
<1>2. PICK p : p = progress'
  OBVIOUS
<1>3. p \in Tick(progress, more)
  BY <1>2
<1>4. /\ p = [verbose_ |-> p.verbose_, size_ |-> p.size_, absolute_ |-> p.absolute_,
              current_ |-> p.current_, current_percentage_ |-> p.current_percentage_,
              current_sample_ |-> p.current_sample_, shown |-> p.shown]
      /\ p.size_ = progress.size_ /\ p.absolute_ = progress.absolute_
      /\ p.current_ = progress.current_ + more
      /\ progress.size_ # 0 =>
           LET percentage == (100 * (progress.current_ + more)) \div progress.size_
           IN  /\ p.shown \in {progress.shown, progress.current_percentage_, percentage}
               /\ p.current_percentage_ \in {progress.current_percentage_, percentage}
  BY <1>3, Ticked
<1>5. ProgressFields'
  BY <1>2, <1>4 DEF ProgressFields
<1>6. SizeInv'
  BY <1>2, <1>4 DEF SizeInv
<1>7. progress.current_ = pos /\ p.current_ = pos + more
  BY <1>4 DEF CountInv
<1>8. ASSUME progress.size_ # 0
      PROVE  /\ p.shown \in Nat /\ p.shown * Len(file) <= 100 * (pos + more)
             /\ p.current_percentage_ \in Nat
             /\ p.current_percentage_ * Len(file) <= 100 * (pos + more)
  <2>1. progress.size_ = Len(file)
    BY <1>8 DEF SizeInv
  <2>2. PICK percentage : percentage = (100 * (pos + more)) \div Len(file)
    OBVIOUS
  <2>3. percentage \in Nat /\ percentage * Len(file) <= 100 * (pos + more)
    <3>1. 100 * (pos + more) \in Nat
      BY <1>1
    <3> QED
      BY <1>1, <2>2, <3>1, Share
  <2>4. /\ p.shown \in {progress.shown, progress.current_percentage_, percentage}
        /\ p.current_percentage_ \in {progress.current_percentage_, percentage}
    BY <1>4, <1>7, <1>8, <2>1, <2>2
  <2>5. \A x \in {progress.shown, progress.current_percentage_} : x \in Nat /\ x * Len(file) <= 100 * pos
    BY <1>8 DEF CountInv
  <2>6. \A x \in {progress.shown, progress.current_percentage_} :
          x \in Nat /\ x * Len(file) <= 100 * (pos + more)
    <3> SUFFICES ASSUME NEW x \in {progress.shown, progress.current_percentage_}
                 PROVE  x \in Nat /\ x * Len(file) <= 100 * (pos + more)
      OBVIOUS
    <3>1. PICK m : m = x * Len(file)
      OBVIOUS
    <3>2. x \in Nat /\ m \in Nat /\ m <= 100 * pos
      BY <1>1, <2>5, <3>1
    <3> QED
      BY <1>1, <3>1, <3>2
  <2> QED
    BY <2>3, <2>4, <2>6
<1> QED
  BY <1>1, <1>2, <1>4, <1>5, <1>6, <1>7, <1>8 DEF CountInv

LEMMA CountAbsolute ==
  ASSUME FileInv, SizeInv, ProgressFields, CountInv, stage = "open", kind = "gzip",
         NEW more \in Nat, progress' = Absolute(progress, more), pos' = pos + more,
         UNCHANGED <<kind, file, stage>>
  PROVE  SizeInv' /\ ProgressFields' /\ CountInv'
<1>1. pos \in Nat /\ Len(file) \in Nat
  BY DEF FileInv
<1>2. PICK p, q : p = progress' /\ q = progress
  OBVIOUS
<1>3. q = [verbose_ |-> q.verbose_, size_ |-> q.size_, absolute_ |-> q.absolute_,
           current_ |-> q.current_, current_percentage_ |-> q.current_percentage_,
           current_sample_ |-> q.current_sample_, shown |-> q.shown]
  BY <1>2 DEF ProgressFields
<1>4. PICK sample : sample = q.current_sample_ + 1
  OBVIOUS
<1>5. PICK current : current = q.current_ + more
  OBVIOUS
<1>6. PICK added : added = [q EXCEPT !.current_ = current]
  OBVIOUS
<1>7. p = IF q.verbose_ THEN [added EXCEPT !.shown = current]
          ELSE [added EXCEPT !.current_sample_ = sample,
                             !.shown = IF sample % SampleRate = 0 THEN current ELSE @]
  BY <1>2, <1>4, <1>5, <1>6 DEF Absolute
<1>8. /\ p = [verbose_ |-> p.verbose_, size_ |-> p.size_, absolute_ |-> p.absolute_,
              current_ |-> p.current_, current_percentage_ |-> p.current_percentage_,
              current_sample_ |-> p.current_sample_, shown |-> p.shown]
      /\ p.size_ = q.size_ /\ p.absolute_ = q.absolute_ /\ p.current_ = current
      /\ p.shown \in {q.shown, current}
  <2>1. added = [verbose_ |-> q.verbose_, size_ |-> q.size_, absolute_ |-> q.absolute_,
                 current_ |-> current, current_percentage_ |-> q.current_percentage_,
                 current_sample_ |-> q.current_sample_, shown |-> q.shown]
    BY <1>3, <1>6
  <2>2. CASE q.verbose_
    BY <1>7, <2>1, <2>2
  <2>3. CASE ~q.verbose_
    <3>1. PICK x : x = IF sample % SampleRate = 0 THEN current ELSE added.shown
      OBVIOUS
    <3>2. x \in {q.shown, current}
      BY <2>1, <3>1
    <3>3. p = [added EXCEPT !.current_sample_ = sample, !.shown = x]
      BY <1>7, <2>3, <3>1
    <3> QED
      BY <2>1, <3>2, <3>3
  <2> QED
    BY <2>2, <2>3
<1>9. /\ q.current_ = pos /\ q.shown \in Nat /\ q.shown <= pos /\ q.size_ = 0
  BY <1>2 DEF CountInv, SizeInv
<1>10. p.current_ = pos' /\ p.shown \in Nat /\ p.shown <= pos' /\ p.size_ = 0
  BY <1>1, <1>5, <1>8, <1>9
<1>11. ProgressFields'
  BY <1>2, <1>8 DEF ProgressFields
<1>12. SizeInv'
  BY <1>2, <1>8 DEF SizeInv
<1> QED
  BY <1>2, <1>10, <1>11, <1>12 DEF CountInv

LEMMA CountOpened ==
  ASSUME FileInv, NEW size \in {Len(file), 0}, Opened(size),
         kind = "gzip" => size = 0, kind \in DbKinds => size = Len(file)
  PROVE  SizeInv' /\ ProgressFields' /\ CountInv'
<1>1. pos = 0 /\ Len(file) \in Nat
  BY DEF FileInv, Opened
<1>2. PICK verbose \in BOOLEAN : progress' = NewProgress(size, verbose)
  BY DEF Opened
<1>3. stage' = "open" /\ UNCHANGED <<kind, file, pos>>
  BY DEF Opened
<1>4. /\ progress'.size_ = size /\ progress'.absolute_ = (size = 0) /\ progress'.current_ = 0
      /\ progress'.current_percentage_ = 0 /\ progress'.shown = 0
  BY <1>2 DEF NewProgress
<1>5. ProgressFields'
  BY <1>2 DEF NewProgress, ProgressFields
<1>6. SizeInv'
  BY <1>3, <1>4 DEF SizeInv
<1>7. 0 * Len(file) <= 100 * pos
  BY <1>1
<1> QED
  BY <1>1, <1>3, <1>4, <1>5, <1>6, <1>7 DEF CountInv

LEMMA CountStep ==
  ASSUME FileInv, SizeInv, ProgressFields, CountInv, Next
  PROVE  SizeInv' /\ ProgressFields' /\ CountInv'
<1>1. CASE LineInitialize \/ GzipInitialize \/ HashInitialize \/ CabinetInitialize
  <2>1. PICK size \in {Len(file), 0} :
          Opened(size) /\ (kind = "gzip" => size = 0) /\ (kind \in DbKinds => size = Len(file))
    BY <1>1 DEF LineInitialize, GzipInitialize, HashInitialize, CabinetInitialize, DbKinds
  <2> QED
    BY <2>1, CountOpened
<1>2. CASE InitializeFails
  BY <1>2 DEF InitializeFails, SizeInv, ProgressFields, CountInv
<1>3. CASE ReadFails \/ ReadUnterminated \/ Terminated
  BY <1>3 DEF ReadFails, ReadUnterminated, Terminated, vars, SizeInv, ProgressFields, CountInv
<1>4. CASE ReadPart \/ ReadEnd
  <2>1. /\ kind \in TextKinds /\ Chunk # <<>> /\ stage = "open" /\ pos' = pos + Len(Chunk)
        /\ Report /\ UNCHANGED <<kind, file, stage>>
    BY <1>4 DEF ReadPart, ReadEnd
  <2>2. PICK to \in Nat : ChunkTo(to)
    BY <2>1, ChunkIs
  <2>3. pos < Len(file) /\ Len(Chunk) \in Nat
    <3>1. pos \in Nat
      BY DEF FileInv
    <3> QED
      BY <2>1, <2>2, <3>1, ChunkIs DEF ChunkTo
  <2>4. CASE kind = "line"
    BY <2>1, <2>3, <2>4, CountTick DEF Report
  <2>5. CASE kind = "gzip"
    BY <2>1, <2>3, <2>5, CountAbsolute DEF Report
  <2> QED
    BY <2>1, <2>4, <2>5 DEF TextKinds
<1>5. CASE HashNext \/ CabinetNext
  <2>1. /\ kind # "gzip" /\ stage = "open" /\ pos < Len(file) /\ pos' = pos + 1
        /\ progress' \in Tick(progress, 1) /\ UNCHANGED <<kind, file, stage>>
    BY <1>5 DEF HashNext, CabinetNext, ReadRecord
  <2> QED
    BY <2>1, CountTick
<1>6. CASE EndOfFile
  <2>1. /\ stage = "open" /\ stage' = "complete" /\ progress' = Done(progress)
        /\ UNCHANGED <<kind, file, pos>>
    BY <1>6 DEF EndOfFile
  <2>2. PICK p, q : p = progress' /\ q = progress
    OBVIOUS
  <2>3. q = [verbose_ |-> q.verbose_, size_ |-> q.size_, absolute_ |-> q.absolute_,
             current_ |-> q.current_, current_percentage_ |-> q.current_percentage_,
             current_sample_ |-> q.current_sample_, shown |-> q.shown]
    BY <2>2 DEF ProgressFields
  <2>4. p = [q EXCEPT !.shown = IF q.absolute_ THEN q.current_ ELSE 100]
    BY <2>1, <2>2 DEF Done
  <2>5. p = [verbose_ |-> q.verbose_, size_ |-> q.size_, absolute_ |-> q.absolute_,
             current_ |-> q.current_, current_percentage_ |-> q.current_percentage_,
             current_sample_ |-> q.current_sample_,
             shown |-> IF q.absolute_ THEN q.current_ ELSE 100]
    BY <2>3, <2>4
  <2>6. ProgressFields'
    BY <2>2, <2>5 DEF ProgressFields
  <2>7. SizeInv'
    BY <2>1, <2>2, <2>5 DEF SizeInv
  <2>8. q.current_ = pos /\ q.absolute_ = (q.size_ = 0)
    BY <2>1, <2>2 DEF CountInv, SizeInv
  <2>9. pos \in Nat /\ pos <= Len(file) /\ Len(file) \in Nat
    BY DEF FileInv
  <2>10. kind = "gzip" => q.size_ = 0
    BY <2>1, <2>2 DEF SizeInv
  <2>11. p.current_ = pos' /\ p.size_ = q.size_ /\ p.absolute_ = q.absolute_
         /\ p.shown = IF p.absolute_ THEN pos' ELSE 100
    BY <2>1, <2>5, <2>8
  <2>12. p.size_ = 0 => p.absolute_ = TRUE
    BY <2>8, <2>11
  <2>13. p.size_ = 0 => p.shown = pos'
    BY <2>11, <2>12
  <2>14. kind' = "gzip" => p.shown \in Nat /\ p.shown <= pos'
    BY <2>1, <2>9, <2>10, <2>11, <2>13
  <2>15. p.size_ = 0 /\ Len(file') = 0 => p.shown = 0
    BY <2>1, <2>9, <2>13
  <2> QED
    BY <2>1, <2>2, <2>6, <2>7, <2>11, <2>14, <2>15 DEF CountInv
<1> QED
  BY <1>1, <1>2, <1>3, <1>4, <1>5, <1>6 DEF Next

------------------------------------------------------------------------------
LEMMA IteratorInit ==
  Init => FileInv /\ TextInv /\ SizeInv /\ ProgressFields /\ CountInv
<1> SUFFICES ASSUME Init PROVE FileInv /\ TextInv /\ SizeInv /\ ProgressFields /\ CountInv
  OBVIOUS
<1>1. /\ kind \in TextKinds \cup DbKinds /\ file \in FilesOf(kind) /\ stage = "new" /\ failed = FALSE
      /\ pos = 0 /\ inLine = FALSE /\ full_line = <<>> /\ values = <<>>
      /\ progress = NewProgress(0, FALSE)
  BY DEF Init
<1>2. file \in Seq(IF kind \in TextKinds THEN TextBytes ELSE Records \cup {NoValue})
  <2>1. ASSUME NEW S, NEW n \in Nat, file \in BoundedSeq(S, n) PROVE file \in Seq(S)
    <3>1. PICK m \in 0..n : file \in [1..m -> S]
      BY <2>1 DEF BoundedSeq, SeqOf
    <3> QED
      BY <3>1
  <2>2. CASE kind \in TextKinds
    <3>1. kind # "hash" /\ kind # "cabinet"
      BY <2>2 DEF TextKinds
    <3>2. FilesOf(kind) = BoundedSeq(TextBytes, MaxLength)
      BY <2>2, <3>1 DEF FilesOf, TextBytes
    <3>3. file \in Seq(TextBytes)
      BY <1>1, <2>1, <3>2, IteratorAssumption
    <3> QED
      BY <2>2, <3>3
  <2>3. CASE kind = "hash"
    <3>1. file \in Seq(Records)
      BY <1>1, <2>1, <2>3, IteratorAssumption DEF FilesOf, TextKinds
    <3> QED
      BY <2>3, <3>1 DEF TextKinds
  <2>4. CASE kind = "cabinet"
    BY <1>1, <2>1, <2>4, IteratorAssumption DEF FilesOf, TextKinds
  <2> QED
    BY <1>1, <2>2, <2>3, <2>4 DEF DbKinds
<1>3. Len(file) \in Nat
  <2>1. PICK S : S = IF kind \in TextKinds THEN TextBytes ELSE Records \cup {NoValue}
    OBVIOUS
  <2> QED
    BY <1>2, <2>1
<1>4. FileInv
  <2>1. pos \in 0..Len(file)
    BY <1>1, <1>3
  <2> QED
    BY <1>1, <1>2, <2>1 DEF FileInv
<1>5. Newlines = {} /\ Cardinality(Newlines) = 0
  BY <1>1, FS_EmptySet DEF Newlines
<1>6. RestFrom(0)
  BY <1>1, <1>5 DEF RestFrom, LineFrom
<1>7. values \in Seq(Seq(TextBytes \cup {Garbage}))
  BY <1>1
<1>8. TextInv
  <2>1. 0 \in 0..pos
    BY <1>1
  <2> QED
    BY <1>1, <1>5, <1>6, <1>7, <2>1 DEF TextInv
<1> QED
  BY <1>1, <1>4, <1>8 DEF SizeInv, ProgressFields, CountInv, NewProgress

\* The text that was read has the newlines the invariant counts, and its lines
\* are the parts of the file between them.
LEMMA ReadText ==
  ASSUME FileInv, kind \in TextKinds
  PROVE  /\ NewlinesIn(Read) = Newlines
         /\ Read = <<>> <=> pos = 0
         /\ pos > 0 => Last(Read) = file[pos]
         /\ Len(Read) = pos
         /\ \A b \in Nat, stop \in 1..pos + 1 :
              LineFrom(b, stop) => LineTo(Read, stop) = SubSeq(file, b + 1, stop - 1)
<1>1. pos \in Nat /\ pos <= Len(file) /\ Len(file) \in Nat /\ file \in Seq(TextBytes)
  BY DEF FileInv
<1>2. /\ Read \in Seq(TextBytes) /\ Len(Read) = pos /\ DOMAIN Read = 1..pos
      /\ \A i \in 1..pos : Read[i] = file[i]
  BY <1>1 DEF Read
<1>3. NewlinesIn(Read) = Newlines
  BY <1>2 DEF NewlinesIn, Newlines
<1>4. Read = <<>> <=> pos = 0
  BY <1>1, <1>2
<1>5. pos > 0 => Last(Read) = file[pos]
  BY <1>1, <1>2 DEF Last
<1>6. ASSUME NEW b \in Nat, NEW stop \in 1..pos + 1, LineFrom(b, stop)
      PROVE  LineTo(Read, stop) = SubSeq(file, b + 1, stop - 1)
  <2> DEFINE S == {0} \cup {i \in Newlines : i < stop}
  <2>1. S \subseteq Nat
    BY <1>1, NewlinesFinite
  <2>2. b \in S /\ \A n \in S : b >= n
    <3>1. b \in S
      BY <1>6 DEF LineFrom
    <3>2. \A n \in S : ~(b < n)
      BY <1>6 DEF LineFrom
    <3>3. \A n \in S : n \in Nat
      BY <2>1
    <3> HIDE DEF S
    <3> QED
      BY <3>1, <3>2, <3>3
  <2>3. Max(S) = b
    <3> HIDE DEF S
    <3> QED
      <4>1. S \subseteq Int
        BY <2>1
      <4> QED
        BY <2>2, <4>1, MaxIs
  <2>4. LineTo(Read, stop) = SubSeq(Read, b + 1, stop - 1)
    BY <1>3, <2>3 DEF LineTo
  <2>5. SubSeq(Read, b + 1, stop - 1) = SubSeq(file, b + 1, stop - 1)
    <3>1. b < stop /\ stop - 1 <= pos /\ stop \in Nat
      BY <1>1, <1>6 DEF LineFrom
    <3>2. PICK s, t : s = SubSeq(Read, b + 1, stop - 1) /\ t = SubSeq(file, b + 1, stop - 1)
      OBVIOUS
    <3>3. /\ s \in Seq(TextBytes) /\ Len(s) = stop - 1 - b
          /\ \A i \in 1..stop - 1 - b : s[i] = Read[b + i]
      BY <1>1, <1>2, <3>1, <3>2
    <3>4. /\ t \in Seq(TextBytes) /\ Len(t) = stop - 1 - b
          /\ \A i \in 1..stop - 1 - b : t[i] = file[b + i]
      BY <1>1, <3>1, <3>2
    <3>5. \A i \in 1..stop - 1 - b : Read[b + i] = file[b + i]
      BY <1>1, <1>2, <3>1
    <3>6. PICK len : len = stop - 1 - b
      OBVIOUS
    <3>7. len \in Nat
      BY <3>1, <3>6
    <3>8. Len(s) = len /\ Len(t) = len /\ \A i \in 1..len : s[i] = t[i]
      BY <3>3, <3>4, <3>5, <3>6
    <3>9. s = t
      BY <3>3, <3>4, <3>7, <3>8
    <3> QED
      BY <3>2, <3>9
  <2> QED
    BY <2>4, <2>5
<1> QED
  BY <1>2, <1>3, <1>4, <1>5, <1>6

LEMMA LinesOut ==
  ASSUME FileInv, TextInv
  PROVE  TerminatedLinesExact
<1> SUFFICES ASSUME kind \in TextKinds PROVE TerminatedLinesExact
  BY DEF TerminatedLinesExact
<1>1. pos \in Nat /\ pos <= Len(file) /\ Len(file) \in Nat /\ file \in Seq(TextBytes)
  BY DEF FileInv
<1>2. /\ Newlines \subseteq 1..pos /\ Newlines \subseteq Nat /\ IsFiniteSet(Newlines)
      /\ Cardinality(Newlines) \in Nat
  BY <1>1, NewlinesFinite
<1>3. PICK b \in 0..pos : RestFrom(b)
  BY DEF TextInv
<1>4. LineFrom(b, pos + 1)
  BY <1>3 DEF RestFrom
<1>5. PICK n : n = Cardinality(Newlines)
  OBVIOUS
<1>6. PICK stops : stops = StopsOf(Read)
  OBVIOUS
<1>7. stops = Newlines \cup (IF b = pos THEN {} ELSE {pos + 1})
  <2>1. b = pos <=> Read = <<>> \/ Last(Read) = Newline
    <3>1. CASE pos = 0
      BY <1>1, <3>1, ReadText
    <3>2. CASE pos # 0
      <4>1. Read # <<>> /\ Last(Read) = file[pos]
        BY <1>1, <3>2, ReadText
      <4>2. pos \in Newlines <=> file[pos] = Newline
        BY <1>1, <3>2 DEF Newlines
      <4>3. b = pos <=> pos \in Newlines
        <5>1. b = pos => pos \in Newlines
          BY <1>4, <3>2 DEF LineFrom
        <5>2. pos \in Newlines => ~(b < pos)
          BY <1>1, <1>4 DEF LineFrom
        <5> QED
          BY <1>1, <5>1, <5>2
      <4> QED
        BY <4>1, <4>2, <4>3
    <3> QED
      BY <3>1, <3>2
  <2>2. NewlinesIn(Read) = Newlines /\ Len(Read) = pos
    BY ReadText
  <2> QED
    BY <1>6, <2>1, <2>2 DEF StopsOf
<1>8. pos + 1 \notin Newlines
  BY <1>1, <1>2
<1>9. /\ stops \subseteq Nat /\ stops \subseteq 1..pos + 1 /\ IsFiniteSet(stops)
      /\ Cardinality(stops) = IF b = pos THEN n ELSE n + 1
  <2>1. CASE b = pos
    BY <1>1, <1>2, <1>5, <1>7, <2>1
  <2>2. CASE b # pos
    <3>1. stops = Newlines \cup {pos + 1}
      BY <1>7, <2>2
    <3>2. IsFiniteSet(stops) /\ Cardinality(stops) = n + 1
      BY <1>2, <1>5, <1>8, <3>1, FS_AddElement
    <3> QED
      BY <1>1, <1>2, <2>2, <3>1, <3>2
  <2> QED
    BY <2>1, <2>2
<1>10. PICK lines : lines = LinesOf(Read)
  OBVIOUS
<1>11. DOMAIN lines = 1..Cardinality(stops) /\ Len(lines) = Cardinality(stops)
  <2>1. lines = [k \in 1..Cardinality(stops) |->
                   LineTo(Read, CHOOSE i \in stops : Cardinality(Upto(stops, i)) = k)]
    BY <1>6, <1>10 DEF LinesOf
  <2>2. Cardinality(stops) \in Nat
    BY <1>2, <1>5, <1>9
  <2> QED
    BY <2>1, <2>2
<1>12. ASSUME NEW k \in 1..Cardinality(stops)
       PROVE  \E i \in stops : Cardinality(Upto(stops, i)) = k /\ lines[k] = LineTo(Read, i)
  <2>1. PICK i : i = CHOOSE j \in stops : Cardinality(Upto(stops, j)) = k
    OBVIOUS
  <2>2. \E j \in stops : Cardinality(Upto(stops, j)) = k
    BY <1>9, RankOnto
  <2>3. i \in stops /\ Cardinality(Upto(stops, i)) = k
    BY <2>1, <2>2, Zenon
  <2>4. lines[k] = LineTo(Read, i)
    BY <1>6, <1>10, <2>1 DEF LinesOf
  <2> QED
    BY <2>3, <2>4
<1>13. Len(values) \in Nat /\ DOMAIN values = 1..Len(values) /\ Len(values) <= Cardinality(stops)
       /\ (stage = "complete" => Len(values) = Cardinality(stops))
  <2>1. Len(values) \in Nat /\ DOMAIN values = 1..Len(values) /\ (stage = "complete" => ~inLine)
    BY DEF TextInv
  <2> QED
    BY <1>2, <1>3, <1>5, <1>9, <2>1 DEF RestFrom
<1>14. ASSUME NEW k \in DOMAIN values
       PROVE  values[k] = lines[k] \/ (k = n + 1 /\ IsPrefix(lines[k], values[k]))
  <2>1. k \in 1..Cardinality(stops)
    BY <1>2, <1>5, <1>9, <1>13
  <2>2. PICK i \in stops : Cardinality(Upto(stops, i)) = k /\ lines[k] = LineTo(Read, i)
    BY <1>12, <2>1
  <2>3. CASE i \in Newlines
    <3>1. Upto(stops, i) = Upto(Newlines, i)
      <4>1. i <= pos /\ i \in Nat
        BY <1>2, <2>3
      <4>2. ~(pos + 1 <= i)
        BY <1>1, <4>1
      <4> QED
        BY <1>7, <4>2 DEF Upto
    <3>2. LineOut(i)
      BY <2>3 DEF TextInv
    <3>3. PICK a \in 0..pos : LineFrom(a, i) /\ values[k] = SubSeq(file, a + 1, i - 1)
      BY <2>2, <3>1, <3>2 DEF LineOut
    <3>4. i \in 1..pos + 1 /\ a \in Nat
      BY <1>9
    <3>5. LineTo(Read, i) = SubSeq(file, a + 1, i - 1)
      BY <3>3, <3>4, ReadText
    <3> QED
      BY <2>2, <3>3, <3>5
  <2>4. CASE i \notin Newlines
    <3>1. i = pos + 1 /\ b # pos
      BY <1>7, <2>4
    <3>2. Upto(stops, i) = stops
      <4>1. \A j \in stops : j <= i
        BY <1>1, <1>9, <3>1
      <4> QED
        BY <4>1 DEF Upto
    <3>3. k = n + 1
      BY <1>9, <2>2, <3>1, <3>2
    <3>4. Len(values) = n + 1
      BY <1>2, <1>5, <1>9, <1>13, <3>1, <3>3
    <3>5. PICK tail \in {<<>>, <<Garbage>>} : values[Len(values)] = SubSeq(file, b + 1, pos) \o tail
      <4>1. Len(values) # Cardinality(Newlines)
        BY <1>2, <1>5, <3>4
      <4> QED
        BY <1>3, <4>1, Zenon DEF RestFrom
    <3>6. pos + 1 \in 1..pos + 1 /\ b \in Nat /\ (pos + 1) - 1 = pos
      BY <1>1
    <3>7. lines[k] = SubSeq(file, b + 1, pos)
      BY <1>4, <2>2, <3>1, <3>6, ReadText
    <3>8. PICK line : line = SubSeq(file, b + 1, pos)
      OBVIOUS
    <3>9. line \in Seq(TextBytes \cup {Garbage}) /\ tail \in Seq(TextBytes \cup {Garbage})
      <4>1. line \in Seq(TextBytes \cup {Garbage})
        <5>1. file \in Seq(TextBytes \cup {Garbage})
          BY <1>1
        <5> QED
          BY <1>1, <3>6, <3>8, <5>1
      <4>2. <<>> \in Seq(TextBytes \cup {Garbage}) /\ <<Garbage>> \in Seq(TextBytes \cup {Garbage})
        OBVIOUS
      <4> QED
        BY <4>1, <4>2
    <3>10. IsPrefix(line, line \o tail)
      <4> HIDE DEF TextBytes
      <4>1. PICK whole : whole = line \o tail
        OBVIOUS
      <4>2. /\ whole \in Seq(TextBytes \cup {Garbage}) /\ Len(line) <= Len(whole)
            /\ \A j \in 1..Len(line) : whole[j] = line[j]
        BY <3>9, <4>1
      <4>3. SubSeq(whole, 1, Len(line)) = SubSeq(line, 1, Len(line))
        BY <3>9, <4>2
      <4> QED
        BY <4>1, <4>2, <4>3 DEF IsPrefix
    <3> QED
      BY <3>3, <3>4, <3>5, <3>7, <3>8, <3>10
  <2> QED
    BY <2>3, <2>4
<1>15. n = Cardinality(NewlinesIn(Read))
  BY <1>5, ReadText
<1> QED
  BY <1>10, <1>11, <1>13, <1>14, <1>15 DEF TerminatedLinesExact

LEMMA CountOut ==
  ASSUME FileInv, SizeInv, ProgressFields, CountInv
  PROVE  ProgressExact
<1> SUFFICES ASSUME stage \in {"open", "complete"}, ~(kind = "line" /\ progress.size_ # Len(file))
             PROVE  /\ progress.current_ = pos
                    /\ IF progress.absolute_ THEN progress.shown <= pos
                       ELSE stage = "open" => progress.shown * Len(file) <= 100 * pos
                    /\ stage = "complete" /\ ~failed =>
                         /\ pos = Len(file)
                         /\ progress.shown = IF progress.absolute_ THEN pos ELSE 100
  BY DEF ProgressExact
<1>1. pos \in Nat /\ pos <= Len(file) /\ Len(file) \in Nat
  BY DEF FileInv
<1>2. progress.current_ = pos
  BY DEF CountInv
<1>3. progress.absolute_ = (progress.size_ = 0)
  BY DEF SizeInv
<1>4. ASSUME progress.absolute_ PROVE progress.shown <= pos
  <2>1. progress.size_ = 0
    BY <1>3, <1>4
  <2>2. CASE kind = "gzip"
    BY <2>2 DEF CountInv
  <2>3. CASE kind # "gzip"
    <3>1. Len(file) = 0
      BY <2>1, <2>3 DEF FileInv, SizeInv, TextKinds
    <3>2. progress.shown = 0
      BY <2>1, <2>3, <3>1 DEF CountInv
    <3> QED
      BY <1>1, <3>2
  <2> QED
    BY <2>2, <2>3
<1>5. ASSUME ~progress.absolute_, stage = "open" PROVE progress.shown * Len(file) <= 100 * pos
  <2>1. progress.size_ # 0
    BY <1>3, <1>5
  <2> QED
    BY <1>5, <2>1 DEF CountInv
<1>6. ASSUME stage = "complete", ~failed
      PROVE  pos = Len(file) /\ progress.shown = IF progress.absolute_ THEN pos ELSE 100
  BY <1>6 DEF FileInv, CountInv
<1> QED
  BY <1>2, <1>4, <1>5, <1>6

\* However the lines fall on the buffer and wherever reading fails, every line
\* comes out whole and in its place, whatever the file and the size of the
\* buffer, and the console never shows more than was read.
THEOREM ReadingTheorem == Spec => []ReadingExact
<1>1. Init => IteratorIInv
  BY IteratorInit DEF IteratorIInv
<1>2. IteratorIInv /\ [Next]_vars => IteratorIInv'
  <2> SUFFICES ASSUME IteratorIInv, [Next]_vars PROVE IteratorIInv'
    OBVIOUS
  <2>1. CASE Next
    BY <2>1, FileStep, TextStep, CountStep DEF IteratorIInv
  <2>2. CASE UNCHANGED vars
    <3>1. FileInv'
      BY <2>2 DEF IteratorIInv, FileInv, vars
    <3>2. TextInv'
      <4>1. CASE kind \in TextKinds
        BY <2>2, <4>1, TextSame DEF vars, IteratorIInv, TextInv
      <4>2. CASE kind \notin TextKinds
        BY <2>2, <4>2 DEF vars, TextInv
      <4> QED
        BY <4>1, <4>2
    <3>3. SizeInv' /\ ProgressFields' /\ CountInv'
      BY <2>2 DEF IteratorIInv, SizeInv, ProgressFields, CountInv, vars
    <3> QED
      BY <3>1, <3>2, <3>3 DEF IteratorIInv
  <2> QED
    BY <2>1, <2>2
<1>3. IteratorIInv => ReadingExact
  BY LinesOut, CountOut DEF IteratorIInv, ReadingExact
<1> QED
  BY <1>1, <1>2, <1>3, PTL DEF Spec
=============================================================================
