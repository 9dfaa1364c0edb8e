---------------------------- MODULE Project_proofs ----------------------------
(***************************************************************************)
(* Proofs about a waf project: the sort of the methods of a task           *)
(* generator (MethodOrder), the posting of task generators (TaskGen) and   *)
(* the configuration tests (Configure).                                    *)
(***************************************************************************)
EXTENDS MethodOrder, TaskGen, Configure, FiniteSetTheorems, TLAPS

(* ----- the sort of the methods ----- *)

(***************************************************************************)
(* For any set of methods and any table that the decorators of the tools   *)
(* can fill, the sort gives every method once, each after those the table  *)
(* puts before it, or stops in front of a circle.                          *)
(*                                                                         *)
(* The inductive invariant says what the table still holds half way: the   *)
(* entries of the methods not yet sorted, and in them no method that was   *)
(* taken or is about to be.                                                *)
(***************************************************************************)

SortTypeOK ==
  /\ keys \subseteq Methods /\ table \in Tables
  /\ tmp \in Seq(Methods) /\ out \in Seq(keys)
  /\ DOMAIN prec \subseteq keys
  /\ \A x \in DOMAIN prec : prec[x] = table[x]

\* A method is taken once, and waits once to be taken.
TakenOnce ==
  /\ NoRepeats(tmp) /\ NoRepeats(out)
  /\ ElementsOf(tmp) \cap ElementsOf(out) = {}

\* What was taken or waits comes before nothing that is left; what is neither
\* is still listed.
NothingListed ==
  /\ (ElementsOf(tmp) \cup ElementsOf(out)) \cap Listed(prec) = {}
  /\ keys \subseteq ElementsOf(tmp) \cup ElementsOf(out) \cup Listed(prec)

\* The table has lost the entries of what was taken, and no other.
EntriesLeft ==
  \A x \in keys : x \in DOMAIN prec <=> (table[x] # <<>> /\ x \notin ElementsOf(out))

\* out has the last method first.
InOrder == \A i, j \in DOMAIN out : Precedes(out[i], out[j]) => j < i

SortIInv == SortTypeOK /\ TakenOnce /\ NothingListed /\ EntriesLeft /\ InOrder

------------------------------------------------------------------------------
\* A list of a set of methods is a sequence of them, each once.
LEMMA ListsAreSequences ==
  ASSUME NEW S \in SUBSET Methods, NEW s \in ListsOf(S)
  PROVE  s \in Seq(Methods) /\ NoRepeats(s) /\ ElementsOf(s) = S
<1>1. IsFiniteSet(S)
  BY TablesAssumption, FS_Subset
<1>2. Cardinality(S) \in Nat
  BY <1>1, FS_CardinalityType
<1>3. s \in [1..Cardinality(S) -> S] /\ NoRepeats(s) /\ ElementsOf(s) = S
  BY DEF ListsOf
<1> QED
  BY <1>2, <1>3

\* What a table lists, element by element.
LEMMA ListedBy ==
  ASSUME NEW p, NEW a
  PROVE  a \in Listed(p) <=> \E x \in DOMAIN p : a \in ElementsOf(p[x])
BY DEF Listed, ElementsOf

\* The methods of a sequence with one more, of its beginning, of two in a row.
LEMMA ElementsOfAppend ==
  ASSUME NEW S, NEW s \in Seq(S), NEW e \in S
  PROVE  ElementsOf(Append(s, e)) = ElementsOf(s) \cup {e}
<1> DEFINE u == Append(s, e)
<1>1. /\ Len(s) \in Nat /\ DOMAIN s = 1..Len(s) /\ DOMAIN u = 1..(Len(s) + 1)
      /\ u[Len(s) + 1] = e /\ \A i \in 1..Len(s) : u[i] = s[i]
  OBVIOUS
<1>2. ElementsOf(u) \subseteq ElementsOf(s) \cup {e}
  <2> SUFFICES ASSUME NEW i \in 1..(Len(s) + 1) PROVE u[i] \in ElementsOf(s) \cup {e}
    BY <1>1 DEF ElementsOf
  <2>1. CASE i \in 1..Len(s)
    BY <1>1, <2>1 DEF ElementsOf
  <2>2. CASE i = Len(s) + 1
    BY <1>1, <2>2
  <2> QED
    BY <1>1, <2>1, <2>2
<1>3. ElementsOf(s) \subseteq ElementsOf(u)
  <2> SUFFICES ASSUME NEW i \in 1..Len(s) PROVE s[i] \in ElementsOf(u)
    BY <1>1 DEF ElementsOf
  <2>1. i \in DOMAIN u /\ u[i] = s[i]
    BY <1>1
  <2> QED
    BY <2>1 DEF ElementsOf
<1>4. e \in ElementsOf(u)
  <2>1. Len(s) + 1 \in DOMAIN u
    BY <1>1
  <2> QED
    BY <1>1, <2>1 DEF ElementsOf
<1> QED
  BY <1>2, <1>3, <1>4

LEMMA WithoutLast ==
  ASSUME NEW s \in Seq(Methods), s # <<>>, NoRepeats(s)
  PROVE  LET rest == SubSeq(s, 1, Len(s) - 1)
         IN /\ rest \in Seq(Methods) /\ s[Len(s)] \in ElementsOf(s)
            /\ NoRepeats(rest) /\ ElementsOf(rest) = ElementsOf(s) \ {s[Len(s)]}
<1> DEFINE rest == SubSeq(s, 1, Len(s) - 1)
<1>1. Len(s) \in Nat \ {0} /\ DOMAIN s = 1..Len(s)
  OBVIOUS
<1>2. rest \in Seq(Methods) /\ Len(rest) = Len(s) - 1 /\ \A i \in 1..(Len(s) - 1) : rest[i] = s[i]
  BY <1>1
<1>3. DOMAIN rest = 1..(Len(s) - 1)
  BY <1>1, <1>2
<1>4. NoRepeats(rest)
  BY <1>1, <1>2, <1>3 DEF NoRepeats
<1>5. \A i \in 1..(Len(s) - 1) : s[i] # s[Len(s)]
  BY <1>1 DEF NoRepeats
<1>6. ElementsOf(rest) = ElementsOf(s) \ {s[Len(s)]}
  <2>1. ASSUME NEW i \in DOMAIN rest PROVE rest[i] \in ElementsOf(s) \ {s[Len(s)]}
    BY <1>1, <1>2, <1>3, <1>5 DEF ElementsOf
  <2>2. ASSUME NEW i \in DOMAIN s, s[i] # s[Len(s)] PROVE s[i] \in ElementsOf(rest)
    <3>1. i \in DOMAIN rest /\ rest[i] = s[i]
      BY <1>1, <1>2, <1>3, <2>2
    <3> QED
      BY <3>1 DEF ElementsOf
  <2> QED
    BY <2>1, <2>2 DEF ElementsOf
<1>7. s[Len(s)] \in ElementsOf(s)
  BY <1>1 DEF ElementsOf
<1> QED
  BY <1>2, <1>4, <1>6, <1>7

LEMMA TwoInARow ==
  ASSUME NEW s \in Seq(Methods), NEW t \in Seq(Methods), NoRepeats(s), NoRepeats(t),
         ElementsOf(s) \cap ElementsOf(t) = {}
  PROVE  /\ s \o t \in Seq(Methods) /\ NoRepeats(s \o t)
         /\ ElementsOf(s \o t) = ElementsOf(s) \cup ElementsOf(t)
<1> DEFINE u == s \o t
<1>1. u \in Seq(Methods) /\ Len(u) = Len(s) + Len(t) /\ Len(s) \in Nat /\ Len(t) \in Nat
  OBVIOUS
<1>2. /\ \A i \in 1..Len(s) : u[i] = s[i]
      /\ \A i \in (Len(s) + 1)..(Len(s) + Len(t)) : u[i] = t[i - Len(s)] /\ i - Len(s) \in 1..Len(t)
      /\ \A i \in 1..Len(t) : u[i + Len(s)] = t[i] /\ i + Len(s) \in (Len(s) + 1)..(Len(s) + Len(t))
  BY <1>1
<1>3. DOMAIN u = 1..(Len(s) + Len(t)) /\ DOMAIN s = 1..Len(s) /\ DOMAIN t = 1..Len(t)
  BY <1>1
<1>4. ElementsOf(u) \subseteq ElementsOf(s) \cup ElementsOf(t)
  BY <1>1, <1>2, <1>3 DEF ElementsOf
<1>5. ElementsOf(s) \subseteq ElementsOf(u)
  BY <1>1, <1>2, <1>3 DEF ElementsOf
<1>6. ElementsOf(t) \subseteq ElementsOf(u)
  <2> SUFFICES ASSUME NEW i \in 1..Len(t) PROVE t[i] \in ElementsOf(u)
    BY <1>3 DEF ElementsOf
  <2>1. i + Len(s) \in DOMAIN u /\ u[i + Len(s)] = t[i]
    BY <1>1, <1>2, <1>3
  <2> QED
    BY <2>1 DEF ElementsOf
<1>7. NoRepeats(u)
  <2> SUFFICES ASSUME NEW i \in DOMAIN u, NEW j \in DOMAIN u, u[i] = u[j] PROVE i = j
    BY DEF NoRepeats
  <2>1. CASE i <= Len(s) /\ j <= Len(s)
    BY <1>1, <1>2, <1>3, <2>1 DEF NoRepeats
  <2>2. CASE i > Len(s) /\ j > Len(s)
    BY <1>1, <1>2, <1>3, <2>2 DEF NoRepeats
  <2>3. CASE i <= Len(s) /\ j > Len(s)
    <3>1. u[i] \in ElementsOf(s) /\ u[j] \in ElementsOf(t)
      BY <1>1, <1>2, <1>3, <2>3 DEF ElementsOf
    <3> QED
      BY <3>1
  <2>4. CASE i > Len(s) /\ j <= Len(s)
    <3>1. u[j] \in ElementsOf(s) /\ u[i] \in ElementsOf(t)
      BY <1>1, <1>2, <1>3, <2>4 DEF ElementsOf
    <3> QED
      BY <3>1
  <2> QED
    BY <1>1, <1>3, <2>1, <2>2, <2>3, <2>4
<1> QED
  BY <1>1, <1>4, <1>5, <1>6, <1>7

------------------------------------------------------------------------------
\* The entries of the table are lists of methods.
LEMMA EntriesAreLists ==
  ASSUME SortTypeOK, NEW x \in keys
  PROVE  table[x] \in Seq(Methods) /\ NoRepeats(table[x]) /\ ElementsOf(table[x]) \subseteq Methods
<1>1. table[x] \in Seq(Methods) /\ NoRepeats(table[x])
  BY TablesAssumption DEF SortTypeOK
<1>2. ElementsOf(table[x]) \subseteq Methods
  BY <1>1 DEF ElementsOf
<1> QED
  BY <1>1, <1>2

\* Who comes before a method that has not been taken is still listed.
LEMMA PrecedingListed ==
  ASSUME SortIInv, NEW a, NEW b \in keys, b \notin ElementsOf(out), Precedes(a, b)
  PROVE  a \in Listed(prec)
<1>1. PICK i \in DOMAIN table[b] : table[b][i] = a
  BY DEF Precedes
<1>2. table[b] # <<>>
  <2>1. table[b] \in Seq(Methods)
    BY EntriesAreLists DEF SortIInv
  <2> QED
    BY <1>1, <2>1
<1>3. b \in DOMAIN prec /\ prec[b] = table[b]
  BY <1>2 DEF SortIInv, EntriesLeft, SortTypeOK
<1>4. a \in ElementsOf(prec[b])
  BY <1>1, <1>3 DEF ElementsOf
<1> QED
  BY <1>3, <1>4, ListedBy

\* The first lists satisfy the invariant.
LEMMA SortStarts == SortInit => SortIInv
<1> SUFFICES ASSUME SortInit PROVE SortIInv
  OBVIOUS
<1>1. keys \subseteq Methods /\ table \in Tables /\ out = <<>>
  BY DEF SortInit
<1>2. DOMAIN prec = {k \in keys : table[k] # <<>>} /\ \A x \in DOMAIN prec : prec[x] = table[x]
  BY DEF SortInit, Restricted
<1>3. tmp \in Seq(Methods) /\ NoRepeats(tmp) /\ ElementsOf(tmp) = keys \ Listed(prec)
  <2>1. keys \ Listed(prec) \in SUBSET Methods
    BY <1>1
  <2>2. tmp \in ListsOf(keys \ Listed(prec))
    BY DEF SortInit
  <2> QED
    BY <2>1, <2>2, ListsAreSequences
<1>4. out \in Seq(keys) /\ DOMAIN out = {} /\ ElementsOf(out) = {}
  BY <1>1 DEF ElementsOf
<1>5. SortTypeOK
  BY <1>1, <1>2, <1>3, <1>4 DEF SortTypeOK
<1>6. TakenOnce
  BY <1>3, <1>4 DEF TakenOnce, NoRepeats
<1>7. NothingListed
  BY <1>3, <1>4 DEF NothingListed
<1>8. EntriesLeft
  BY <1>2, <1>4 DEF EntriesLeft
<1>9. InOrder
  BY <1>4 DEF InOrder
<1> QED
  BY <1>5, <1>6, <1>7, <1>8, <1>9 DEF SortIInv

\* Taking the last method of the list keeps the invariant.
LEMMA PopKeeps == ASSUME SortIInv, Pop PROVE SortIInv'
<1> DEFINE e    == tmp[Len(tmp)]
           rest == SubSeq(tmp, 1, Len(tmp) - 1)
           left == [x \in DOMAIN prec \ {e} |-> prec[x]]
           new  == BeforeIt(prec, e) \ Listed(left)
<1>1. /\ tmp # <<>> /\ keys' = keys /\ table' = table /\ prec' = left
      /\ out' = IF e \in keys THEN Append(out, e) ELSE out
  BY DEF Pop
<1>2. PICK next \in ListsOf(new) : tmp' = rest \o next
  BY DEF Pop
<1>3. /\ rest \in Seq(Methods) /\ e \in ElementsOf(tmp)
      /\ NoRepeats(rest) /\ ElementsOf(rest) = ElementsOf(tmp) \ {e}
  BY <1>1, WithoutLast DEF SortIInv, SortTypeOK, TakenOnce
<1>4. e \in Methods /\ e \notin ElementsOf(out) /\ e \notin Listed(prec)
  <2>1. ElementsOf(tmp) \subseteq Methods
    BY DEF SortIInv, SortTypeOK, ElementsOf
  <2> QED
    BY <1>3, <2>1 DEF SortIInv, TakenOnce, NothingListed
<1>5. DOMAIN left = DOMAIN prec \ {e} /\ \A x \in DOMAIN left : left[x] = prec[x]
  OBVIOUS
<1>6. BeforeIt(prec, e) \subseteq Methods /\ BeforeIt(prec, e) \subseteq Listed(prec)
  <2>1. CASE e \in DOMAIN prec
    <3>1. BeforeIt(prec, e) = ElementsOf(prec[e]) /\ prec[e] = table[e] /\ e \in keys
      BY <2>1 DEF BeforeIt, SortIInv, SortTypeOK
    <3>2. ElementsOf(table[e]) \subseteq Methods
      BY <3>1, EntriesAreLists DEF SortIInv
    <3> QED
      BY <2>1, <3>1, <3>2, ListedBy
  <2>2. CASE e \notin DOMAIN prec
    BY <2>2 DEF BeforeIt
  <2> QED
    BY <2>1, <2>2
<1>7. Listed(left) \subseteq Listed(prec) /\ Listed(prec) \subseteq Listed(left) \cup BeforeIt(prec, e)
  <2>1. ASSUME NEW a \in Listed(left) PROVE a \in Listed(prec)
    BY <1>5, ListedBy
  <2>2. ASSUME NEW a \in Listed(prec) PROVE a \in Listed(left) \cup BeforeIt(prec, e)
    <3>1. PICK x \in DOMAIN prec : a \in ElementsOf(prec[x])
      BY ListedBy
    <3>2. CASE x = e
      BY <3>1, <3>2 DEF BeforeIt
    <3>3. CASE x # e
      BY <1>5, <3>1, <3>3, ListedBy
    <3> QED
      BY <3>2, <3>3
  <2> QED
    BY <2>1, <2>2
<1>8. /\ next \in Seq(Methods) /\ NoRepeats(next) /\ ElementsOf(next) = new
      /\ new \cap (ElementsOf(tmp) \cup ElementsOf(out)) = {}
  <2>1. new \in SUBSET Methods
    BY <1>6
  <2>2. next \in Seq(Methods) /\ NoRepeats(next) /\ ElementsOf(next) = new
    BY <1>2, <2>1, ListsAreSequences
  <2>3. new \subseteq Listed(prec)
    BY <1>6
  <2> QED
    BY <2>2, <2>3 DEF SortIInv, NothingListed
<1>9. /\ tmp' \in Seq(Methods) /\ NoRepeats(tmp')
      /\ ElementsOf(tmp') = (ElementsOf(tmp) \ {e}) \cup new
  <2>1. ElementsOf(rest) \cap ElementsOf(next) = {}
    BY <1>3, <1>8
  <2>2. /\ rest \o next \in Seq(Methods) /\ NoRepeats(rest \o next)
        /\ ElementsOf(rest \o next) = ElementsOf(rest) \cup ElementsOf(next)
    BY <1>3, <1>8, <2>1, TwoInARow
  <2>3. ElementsOf(tmp') = ElementsOf(rest \o next) /\ (NoRepeats(rest \o next) => NoRepeats(tmp'))
    BY <1>2 DEF ElementsOf, NoRepeats
  <2> QED
    BY <1>2, <1>3, <1>8, <2>2, <2>3
<1>10. out \in Seq(keys) /\ NoRepeats(out)
  BY DEF SortIInv, SortTypeOK, TakenOnce
<1>11. ElementsOf(out') = ElementsOf(out) \cup ({e} \cap keys)
  <2>1. CASE e \in keys
    <3>1. ElementsOf(Append(out, e)) = ElementsOf(out) \cup {e}
      BY <1>10, <2>1, ElementsOfAppend
    <3>2. ElementsOf(out') = ElementsOf(Append(out, e))
      BY <1>1, <2>1 DEF ElementsOf
    <3> QED
      BY <2>1, <3>1, <3>2
  <2>2. CASE e \notin keys
    BY <1>1, <2>2 DEF ElementsOf
  <2> QED
    BY <2>1, <2>2
<1>12. out' \in Seq(keys) /\ NoRepeats(out')
  <2>1. CASE e \in keys
    <3>1. /\ Len(out) \in Nat /\ DOMAIN out = 1..Len(out) /\ DOMAIN out' = 1..(Len(out) + 1)
          /\ out' \in Seq(keys) /\ out'[Len(out) + 1] = e /\ \A i \in 1..Len(out) : out'[i] = out[i]
      BY <1>1, <1>10, <2>1
    <3>2. \A i \in 1..Len(out) : out[i] # e
      BY <1>4, <3>1 DEF ElementsOf
    <3> QED
      BY <1>10, <3>1, <3>2 DEF NoRepeats
  <2>2. CASE e \notin keys
    BY <1>1, <1>10, <2>2 DEF NoRepeats
  <2> QED
    BY <2>1, <2>2
<1>13. SortTypeOK'
  <2>1. DOMAIN prec' \subseteq keys' /\ \A x \in DOMAIN prec' : prec'[x] = table'[x]
    BY <1>1, <1>5 DEF SortIInv, SortTypeOK
  <2>2. keys' \subseteq Methods /\ table' \in Tables
    BY <1>1 DEF SortIInv, SortTypeOK
  <2> QED
    BY <1>1, <1>9, <1>12, <2>1, <2>2 DEF SortTypeOK
<1>14. TakenOnce'
  BY <1>3, <1>4, <1>8, <1>9, <1>11, <1>12 DEF SortIInv, TakenOnce
<1>15. NothingListed'
  <2>1. Listed(prec') = Listed(left)
    BY <1>1
  <2>2. (ElementsOf(tmp') \cup ElementsOf(out')) \cap Listed(left) = {}
    BY <1>4, <1>7, <1>9, <1>11 DEF SortIInv, NothingListed
  <2>3. keys \subseteq ElementsOf(tmp') \cup ElementsOf(out') \cup Listed(left)
    BY <1>7, <1>9, <1>11 DEF SortIInv, NothingListed
  <2> QED
    BY <1>1, <2>1, <2>2, <2>3 DEF NothingListed
<1>16. EntriesLeft'
  <2>1. \A x \in keys : x \in DOMAIN left <=> (table[x] # <<>> /\ x \notin ElementsOf(out'))
    BY <1>5, <1>11 DEF SortIInv, EntriesLeft
  <2>2. \A x \in keys' : x \in DOMAIN prec' <=> (table'[x] # <<>> /\ x \notin ElementsOf(out'))
    BY <1>1, <2>1
  <2>3. ElementsOf(out)' = ElementsOf(out')
    BY DEF ElementsOf
  <2> QED
    BY <2>2, <2>3 DEF EntriesLeft
<1>17. InOrder'
  <2>1. \A a, b : Precedes(a, b)' <=> Precedes(a, b)
    BY <1>1 DEF Precedes
  <2>2. CASE e \notin keys
    BY <1>1, <2>2 DEF SortIInv, InOrder, Precedes
  <2>3. CASE e \in keys
    <3>1. /\ Len(out) \in Nat /\ DOMAIN out = 1..Len(out) /\ DOMAIN out' = 1..(Len(out) + 1)
          /\ out'[Len(out) + 1] = e /\ \A i \in 1..Len(out) : out'[i] = out[i]
      BY <1>1, <1>10, <2>3
    <3>2. \A i \in 1..Len(out) : ~Precedes(out[i], e)
      <4> SUFFICES ASSUME NEW i \in 1..Len(out), Precedes(out[i], e) PROVE FALSE
        OBVIOUS
      <4>1. out[i] \in ElementsOf(out)
        BY <3>1 DEF ElementsOf
      <4>2. out[i] \in Listed(prec)
        BY <1>4, <2>3, PrecedingListed
      <4> QED
        BY <4>1, <4>2 DEF SortIInv, NothingListed
    <3>3. ~Precedes(e, e)
      BY <1>4, <2>3, PrecedingListed
    <3>4. ASSUME NEW i \in DOMAIN out', NEW j \in DOMAIN out', Precedes(out'[i], out'[j]) PROVE j < i
      <4>1. CASE j = Len(out) + 1
        BY <3>1, <3>2, <3>3, <3>4, <4>1
      <4>2. CASE j \in 1..Len(out) /\ i = Len(out) + 1
        BY <3>1, <4>2
      <4>3. CASE j \in 1..Len(out) /\ i \in 1..Len(out)
        BY <3>1, <3>4, <4>3 DEF SortIInv, InOrder
      <4> QED
        BY <3>1, <4>1, <4>2, <4>3
    <3> QED
      BY <1>1, <3>4 DEF InOrder, Precedes
  <2> QED
    BY <2>2, <2>3
<1> QED
  BY <1>13, <1>14, <1>15, <1>16, <1>17 DEF SortIInv

\* What is left when the list is empty is a circle; else everything is sorted.
LEMMA SortEnds == SortIInv => SortedInOrder
<1> SUFFICES ASSUME SortIInv, Sorted PROVE IF DOMAIN prec # {} THEN \E S \in SUBSET keys : Circular(S)
               ELSE /\ NoRepeats(out) /\ ElementsOf(out) = keys
                    /\ \A i, j \in DOMAIN out : Precedes(out[i], out[j]) => j < i
  BY DEF SortedInOrder
<1>1. ElementsOf(tmp) = {}
  BY DEF Sorted, ElementsOf
<1>2. CASE DOMAIN prec # {}
  <2>1. DOMAIN prec \in SUBSET keys
    BY DEF SortIInv, SortTypeOK
  <2>2. ASSUME NEW a \in DOMAIN prec PROVE \E b \in DOMAIN prec : Precedes(a, b)
    <3>1. a \in Listed(prec)
      BY <1>1, <2>1 DEF SortIInv, EntriesLeft, NothingListed
    <3>2. PICK b \in DOMAIN prec : a \in ElementsOf(prec[b])
      BY <3>1, ListedBy
    <3>3. prec[b] = table[b]
      BY DEF SortIInv, SortTypeOK
    <3> QED
      BY <3>2, <3>3 DEF ElementsOf, Precedes
  <2>3. Circular(DOMAIN prec)
    BY <1>2, <2>2 DEF Circular
  <2> QED
    BY <1>2, <2>1, <2>3
<1>3. CASE DOMAIN prec = {}
  <2>1. Listed(prec) = {}
    BY <1>3 DEF Listed
  <2>2. ElementsOf(out) \subseteq keys
    BY DEF SortIInv, SortTypeOK, ElementsOf
  <2>3. ElementsOf(out) = keys
    BY <1>1, <2>1, <2>2 DEF SortIInv, NothingListed
  <2> QED
    BY <1>3, <2>3 DEF SortIInv, TakenOnce, InOrder
<1> QED
  BY <1>2, <1>3

\* The sort of task_gen.apply keeps the invariant, for any set of methods and
\* any tables of the decorators.
THEOREM SortInvariant == SortSpec => []SortIInv
<1>1. ASSUME SortIInv, [Pop]_sortvars PROVE SortIInv'
  <2>1. CASE Pop
    BY <1>1, <2>1, PopKeeps
  <2>2. CASE UNCHANGED sortvars
    <3>1. keys' = keys /\ prec' = prec /\ tmp' = tmp /\ out' = out /\ table' = table
      BY <2>2 DEF sortvars
    <3>2. SortTypeOK'
      BY <1>1, <3>1 DEF SortIInv, SortTypeOK
    <3>3. TakenOnce'
      BY <1>1, <3>1 DEF SortIInv, TakenOnce, NoRepeats, ElementsOf
    <3>4. NothingListed'
      BY <1>1, <3>1 DEF SortIInv, NothingListed, ElementsOf, Listed
    <3>5. EntriesLeft'
      BY <1>1, <3>1 DEF SortIInv, EntriesLeft, ElementsOf
    <3>6. InOrder'
      BY <1>1, <3>1 DEF SortIInv, InOrder, Precedes
    <3> QED
      BY <3>2, <3>3, <3>4, <3>5, <3>6 DEF SortIInv
  <2> QED
    BY <1>1, <2>1, <2>2
<1> QED
  BY <1>1, SortStarts, PTL DEF SortSpec

\* The methods of a generator run once each and in the order the tools asked
\* for, or apply raises just when that order goes round in a circle.
THEOREM MethodsSorted == SortSpec => []SortedInOrder
BY SortInvariant, SortEnds, PTL

------------------------------------------------------------------------------
(* ----- the generators ----- *)

(***************************************************************************)
(* For any declarations that do not use each other in a circle, and for    *)
(* any order of methods that the table allows, each generator of a         *)
(* sequence waits for all tasks of the one before it, a command waits for  *)
(* all tasks of what it depends on, and nothing is added to a generator    *)
(* that is posted.                                                         *)
(*                                                                         *)
(* Every step pushes a generator, goes on with the one on top of the       *)
(* stack, or posts that one, and the invariant has a part for each: what   *)
(* is on the stack uses what is above it, what the methods still to run    *)
(* will make, and what the orders have set so far.                         *)
(***************************************************************************)

IsSeq(s) == s \in Seq(Elements(s))

\* The generators that posting g may post.
Uses(g) ==
  Elements(project[g].uselib_local) \cup Elements(project[g].add_objects)
    \cup Elements(project[g].dependencies)

InSequence(g) == "seq" \in Features(g)
IsCommand(g)  == "command" \in Features(g)

\* A generator that has something to make.
Makes(g) == project[g].rule \/ project[g].source # <<>> \/ IsCommand(g) \/ Linked(g)

Ranks == {rank \in [Ids -> 0..Len(project)] : \A g \in Ids : \A y \in Uses(g) : rank[y] < rank[g]}
Rank  == CHOOSE rank \in Ranks : TRUE

\* The declarations the orders can be kept for: lists of generators that do not
\* use each other in a circle, a sequence of generators that no other uses (one
\* that is posted early is out of its order), and commands that make nothing
\* else and follow generators that make something.
WellFormed ==
  /\ IsSeq(project)
  /\ \A g \in Ids :
       /\ Features(g) \subseteq DOMAIN Traits
       /\ project[g].uselib_local \in Seq(Ids)
       /\ project[g].add_objects \in Seq(Ids)
       /\ project[g].dependencies \in Seq(Ids)
       /\ IsSeq(project[g].source) /\ IsSeq(project[g].hidden_inputs)
       /\ project[g].rule \in BOOLEAN
       /\ \A y \in Uses(g) : ~InSequence(y)
       /\ IsCommand(g) =>
            /\ Features(g) \subseteq {"command", "seq"}
            /\ ~project[g].rule /\ project[g].source = <<>>
            /\ \A y \in Elements(project[g].dependencies) : Makes(y)
  /\ Ranks # {}

FrameSet ==
  [gen : Ids, todo : SUBSET AllMethods, removed : SUBSET AllMethods, method : Calls \cup {"none"},
   names : Seq(Ids), seen : SUBSET Ids]

\* The generators on the stack are not posted, and each is used by the next.
StackInv ==
  /\ stack \in Seq(FrameSet)
  /\ \A i \in DOMAIN stack : ~gens[stack[i].gen].posted
  /\ \A i, j \in DOMAIN stack : i < j => Rank[stack[i].gen] < Rank[stack[j].gen]
  /\ \A i \in DOMAIN stack : InSequence(stack[i].gen) => i = Len(stack)

GensInv ==
  /\ DOMAIN gens = Ids
  /\ \A g \in Ids : "posted" \in DOMAIN gens[g] /\ gens[g].posted \in BOOLEAN

Started(g) == gens[g].posted \/ \E i \in DOMAIN stack : stack[i].gen = g

TasksInv ==
  /\ IsSeq(tasks)
  /\ \A t \in DOMAIN tasks :
       {"gen", "after"} \subseteq DOMAIN tasks[t] /\ tasks[t].gen \in Ids /\ Started(tasks[t].gen)

\* The tasks of g wait for all tasks of y, and y has all it will have.
Waits(g, y) ==
  /\ gens[y].posted /\ TasksOf(y) # {}
  /\ \A t \in TasksOf(g) : TasksOf(y) \subseteq tasks[t].after

\* What a generator has to make is made by one of the methods still to run, or
\* there is a task.
MadeBy(g, todo, removed) ==
  TasksOf(g) = {} =>
    /\ project[g].rule => "exec_rule" \in todo
    /\ project[g].source # <<>> => "apply_core" \in todo /\ "apply_core" \notin removed
    /\ IsCommand(g) => "apply_cmd_output" \in todo
    /\ Linked(g) => "apply_link" \in todo

FrameInv(f) ==
  /\ f.todo \subseteq Keys(f.gen) /\ f.method \in Keys(f.gen) \cup {"none"}
  /\ f.method = "none" => f.names = <<>>
  /\ \A y \in Elements(f.names) : Rank[y] < Rank[f.gen] /\ ~InSequence(y)
  /\ f.removed \subseteq {"apply_core", "default_link_install"}
  /\ MadeBy(f.gen, f.todo, f.removed)
  /\ IsCommand(f.gen) =>
       IF "apply_cmd_output" \in f.todo THEN f.method = "none" /\ TasksOf(f.gen) = {}
       ELSE \A y \in Elements(project[f.gen].dependencies) : y \in Elements(f.names) \/ Waits(f.gen, y)
  /\ InSequence(f.gen) /\ "sequence_order" \notin f.todo => f.todo = {} /\ f.method = "none"

PostedInv ==
  \A g \in Ids : gens[g].posted =>
    /\ Makes(g) => TasksOf(g) # {}
    /\ IsCommand(g) => \A y \in Elements(project[g].dependencies) : Waits(g, y)

Members == {g \in Ids : InSequence(g) /\ ~project[g].seq_start}

\* The member of the sequence has its place in it.
Passed(g) ==
  gens[g].posted \/ \E i \in DOMAIN stack : stack[i].gen = g /\ "sequence_order" \notin stack[i].todo

\* Members are posted in the order of their declaration, prev is the last of
\* them, and the tasks of each wait for those of the one before.
SequenceInv ==
  /\ \A g \in Ids : InSequence(g) /\ Started(g) => \A h \in Ids : h < g => gens[h].posted
  /\ IF prev = 0 THEN \A g \in Members : ~Passed(g)
     ELSE prev \in Members /\ Passed(prev) /\ \A g \in Members : Passed(g) => g <= prev
  /\ \A g, h \in Members :
       Passed(h) /\ g < h /\ (\A x \in Members : ~(g < x /\ x < h)) =>
         \A t \in TasksOf(h) : TasksOf(g) \subseteq tasks[t].after

GenInv ==
  /\ WellFormed /\ StackInv /\ GensInv /\ TasksInv
  /\ \A i \in DOMAIN stack : FrameInv(stack[i])
  /\ PostedInv /\ SequenceInv

------------------------------------------------------------------------------
\* Lists: their places, and what one is that begins, ends or goes on with others.
LEMMA SeqShape ==
  ASSUME NEW s, IsSeq(s)
  PROVE  Len(s) \in Nat /\ DOMAIN s = 1..Len(s) /\ s = [i \in 1..Len(s) |-> s[i]]
BY DEF IsSeq

LEMMA SeqFrom ==
  ASSUME NEW n \in Nat, NEW f, f = [i \in 1..n |-> f[i]]
  PROVE  IsSeq(f) /\ Len(f) = n
<1>1. DOMAIN f = 1..n
  OBVIOUS
<1>2. f \in [1..n -> Elements(f)]
  BY <1>1 DEF Elements
<1>3. f \in Seq(Elements(f))
  BY <1>2
<1> QED
  BY <1>2, <1>3 DEF IsSeq

LEMMA ElementsIn ==
  ASSUME NEW S, NEW s \in Seq(S)
  PROVE  /\ Elements(s) \subseteq S
         /\ s = <<>> => Elements(s) = {}
         /\ s # <<>> => Head(s) \in Elements(s) /\ Tail(s) \in Seq(S)
                        /\ Elements(Tail(s)) \subseteq Elements(s)
                        /\ Elements(s) \subseteq Elements(Tail(s)) \cup {Head(s)}
<1>1. Len(s) \in Nat /\ DOMAIN s = 1..Len(s) /\ \A i \in 1..Len(s) : s[i] \in S
  OBVIOUS
<1>2. Elements(s) \subseteq S
  BY <1>1 DEF Elements
<1>3. s = <<>> => Elements(s) = {}
  BY DEF Elements
<1>4. ASSUME s # <<>>
      PROVE  /\ Head(s) \in Elements(s) /\ Tail(s) \in Seq(S)
             /\ Elements(Tail(s)) \subseteq Elements(s)
             /\ Elements(s) \subseteq Elements(Tail(s)) \cup {Head(s)}
  <2>1. Len(s) > 0 /\ Head(s) = s[1] /\ 1 \in DOMAIN s
    BY <1>1, <1>4
  <2>2. PICK t : t = Tail(s)
    OBVIOUS
  <2>3. t \in Seq(S) /\ Len(t) = Len(s) - 1 /\ \A i \in 1..(Len(s) - 1) : t[i] = s[i + 1]
    BY <1>1, <1>4, <2>1, <2>2
  <2>4. DOMAIN t = 1..(Len(s) - 1)
    BY <2>3
  <2>5. Elements(t) \subseteq Elements(s)
    <3> SUFFICES ASSUME NEW i \in 1..(Len(s) - 1) PROVE t[i] \in Elements(s)
      BY <2>4 DEF Elements
    <3>1. i + 1 \in 1..Len(s) /\ t[i] = s[i + 1]
      BY <1>1, <2>3
    <3> QED
      BY <1>1, <3>1 DEF Elements
  <2>6. Elements(s) \subseteq Elements(t) \cup {s[1]}
    <3> SUFFICES ASSUME NEW i \in 1..Len(s), i # 1 PROVE s[i] \in Elements(t)
      BY <1>1 DEF Elements
    <3>1. i - 1 \in 1..(Len(s) - 1) /\ t[i - 1] = s[(i - 1) + 1] /\ (i - 1) + 1 = i
      BY <1>1, <2>3
    <3> QED
      BY <2>4, <3>1 DEF Elements
  <2> QED
    BY <2>1, <2>2, <2>3, <2>5, <2>6 DEF Elements
<1> QED
  BY <1>2, <1>3, <1>4

LEMMA ElementsOfBoth ==
  ASSUME NEW S, NEW s \in Seq(S), NEW t \in Seq(S)
  PROVE  s \o t \in Seq(S) /\ Elements(s \o t) = Elements(s) \cup Elements(t)
<1>1. PICK u : u = s \o t
  OBVIOUS
<1>2. u \in Seq(S) /\ Len(u) = Len(s) + Len(t) /\ Len(s) \in Nat /\ Len(t) \in Nat
  BY <1>1
<1>3. DOMAIN u = 1..(Len(s) + Len(t)) /\ DOMAIN s = 1..Len(s) /\ DOMAIN t = 1..Len(t)
  BY <1>2
<1>4. /\ \A i \in 1..Len(s) : u[i] = s[i] /\ i \in 1..(Len(s) + Len(t))
      /\ \A i \in (Len(s) + 1)..(Len(s) + Len(t)) : u[i] = t[i - Len(s)] /\ i - Len(s) \in 1..Len(t)
      /\ \A i \in 1..Len(t) : u[i + Len(s)] = t[i] /\ i + Len(s) \in 1..(Len(s) + Len(t))
  BY <1>1, <1>2
<1>5. Elements(u) \subseteq Elements(s) \cup Elements(t)
  <2> SUFFICES ASSUME NEW i \in 1..(Len(s) + Len(t)) PROVE u[i] \in Elements(s) \cup Elements(t)
    BY <1>3 DEF Elements
  <2>1. CASE i \in 1..Len(s)
    BY <1>3, <1>4, <2>1 DEF Elements
  <2>2. CASE i \in (Len(s) + 1)..(Len(s) + Len(t))
    BY <1>3, <1>4, <2>2 DEF Elements
  <2> QED
    BY <1>2, <2>1, <2>2
<1>6. Elements(s) \subseteq Elements(u)
  BY <1>3, <1>4 DEF Elements
<1>7. Elements(t) \subseteq Elements(u)
  BY <1>3, <1>4 DEF Elements
<1> QED
  BY <1>1, <1>2, <1>5, <1>6, <1>7

\* The places up to one: their number grows with the place, and each number up
\* to that of all is one of theirs.
UpToPlace(S, i) == {j \in S : j <= i}

LEMMA PlacesGrow ==
  ASSUME NEW S, S \subseteq Nat, IsFiniteSet(S), NEW i \in S, NEW j \in S, i < j
  PROVE  Cardinality(UpToPlace(S, i)) # Cardinality(UpToPlace(S, j))
<1>1. UpToPlace(S, j) \in SUBSET S /\ UpToPlace(S, i) \in SUBSET UpToPlace(S, j)
  <2>1. \A k \in S : k \in Nat /\ i \in Nat /\ j \in Nat
    OBVIOUS
  <2>2. \A k \in S : k <= i => k <= j
    BY <2>1
  <2> QED
    BY <2>2 DEF UpToPlace
<1>2. j \in UpToPlace(S, j) /\ j \notin UpToPlace(S, i)
  BY DEF UpToPlace
<1>3. IsFiniteSet(UpToPlace(S, j))
  BY <1>1, FS_Subset
<1>4. Cardinality(UpToPlace(S, j)) = Cardinality(UpToPlace(S, i)) => UpToPlace(S, j) = UpToPlace(S, i)
  BY <1>1, <1>3, FS_Subset
<1> QED
  BY <1>2, <1>4

LEMMA PlaceOf ==
  ASSUME NEW S, S \subseteq Nat, IsFiniteSet(S), NEW n \in 1..Cardinality(S)
  PROVE  \E i \in S : Cardinality(UpToPlace(S, i)) = n
<1> SUFFICES ASSUME \A i \in S : Cardinality(UpToPlace(S, i)) # n PROVE FALSE
  OBVIOUS
<1> DEFINE c == Cardinality(S)
<1> DEFINE f == [i \in S |-> Cardinality(UpToPlace(S, i))]
<1> DEFINE T == (1..c) \ {n}
<1>1. c \in Nat
  BY FS_CardinalityType
<1>2. IsFiniteSet(1..c) /\ Cardinality(1..c) = c
  BY <1>1, FS_Interval
<1>3. IsFiniteSet(T) /\ Cardinality(T) = c - 1
  BY <1>2, FS_RemoveElement
<1>4. ASSUME NEW i \in S PROVE f[i] \in T
  <2>1. UpToPlace(S, i) \in SUBSET S /\ i \in UpToPlace(S, i)
    BY DEF UpToPlace
  <2>2. IsFiniteSet(UpToPlace(S, i)) /\ Cardinality(UpToPlace(S, i)) <= c
    BY <2>1, FS_Subset
  <2>3. Cardinality(UpToPlace(S, i)) \in Nat /\ Cardinality(UpToPlace(S, i)) # 0
    BY <2>1, <2>2, FS_CardinalityType, FS_EmptySet
  <2> QED
    BY <1>1, <2>2, <2>3
<1>5. f \in [S -> T]
  BY <1>4
<1>6. Cardinality(T) < Cardinality(S)
  BY <1>1, <1>3
<1>7. PICK i, j \in S : i # j /\ f[i] = f[j]
  <2> HIDE DEF f, T
  <2> QED
    BY <1>3, <1>5, <1>6, FS_PigeonHole
<1>8. i < j \/ j < i
  BY <1>7
<1> QED
  BY <1>7, <1>8, PlacesGrow

\* What a list has at some of its places is a list of these elements.
LEMMA AtIs ==
  ASSUME NEW S, NEW s \in Seq(S), NEW places \in SUBSET DOMAIN s
  PROVE  At(s, places) \in Seq(S) /\ Elements(At(s, places)) \subseteq {s[i] : i \in places}
<1>1. Len(s) \in Nat /\ DOMAIN s = 1..Len(s)
  OBVIOUS
<1>2. IsFiniteSet(DOMAIN s)
  BY <1>1, FS_Interval
<1>3. IsFiniteSet(places) /\ places \subseteq Nat
  BY <1>1, <1>2, FS_Subset
<1>4. PICK n : n = Cardinality(places)
  OBVIOUS
<1>5. n \in Nat
  BY <1>3, <1>4, FS_CardinalityType
<1> DEFINE place(k) == CHOOSE i \in places : Cardinality(UpToPlace(places, i)) = k
<1>6. At(s, places) = [k \in 1..n |-> s[place(k)]]
  BY <1>4 DEF At, UpToPlace
<1>7. ASSUME NEW k \in 1..n PROVE place(k) \in places
  <2>1. \E i \in places : Cardinality(UpToPlace(places, i)) = k
    BY <1>3, <1>4, PlaceOf
  <2> QED
    BY <2>1, Zenon
<1> HIDE DEF place
<1>8. PICK t : t = [k \in 1..n |-> s[place(k)]]
  OBVIOUS
<1>9. \A k \in 1..n : s[place(k)] \in S /\ s[place(k)] \in {s[i] : i \in places}
  BY <1>1, <1>7
<1>10. t \in [1..n -> S] /\ DOMAIN t = 1..n
  BY <1>8, <1>9
<1>11. t \in Seq(S)
  BY <1>5, <1>10
<1>12. Elements(t) \subseteq {s[i] : i \in places}
  BY <1>8, <1>9, <1>10 DEF Elements
<1> QED
  BY <1>6, <1>8, <1>11, <1>12

------------------------------------------------------------------------------
(* ----- the steps: a generator is pushed, the top goes on, or is posted ----- *)

FramesInv == \A i \in DOMAIN stack : FrameInv(stack[i])

OnStack(g) == \E i \in DOMAIN stack : stack[i].gen = g

Push(y) ==
  /\ y \in Ids /\ ~Started(y)
  /\ stack' = <<Frame(y)>> \o stack
  /\ \A i \in DOMAIN stack : Rank[y] < Rank[stack[i].gen]
  /\ IF stack = <<>> THEN \A h \in Ids : h < y => gens[h].posted ELSE ~InSequence(y)
  /\ UNCHANGED <<project, gens, tasks, prev>>

\* Tasks are only made for g, and wait for ever more.
Grow(g) ==
  /\ IsSeq(tasks') /\ DOMAIN tasks \subseteq DOMAIN tasks'
  /\ \A t \in DOMAIN tasks' : {"gen", "after"} \subseteq DOMAIN tasks'[t]
  /\ \A t \in DOMAIN tasks : tasks'[t].gen = tasks[t].gen /\ tasks[t].after \subseteq tasks'[t].after
  /\ \A t \in DOMAIN tasks' : t \in DOMAIN tasks \/ tasks'[t].gen = g

\* What the top makes of its generator does not touch the others.
OnlyMine(g) ==
  /\ DOMAIN gens' = DOMAIN gens
  /\ \A h \in DOMAIN gens : h # g => gens'[h] = gens[h]
  /\ "posted" \in DOMAIN gens'[g] /\ gens'[g].posted = gens[g].posted

GoOn(X) ==
  /\ stack # <<>> /\ X \in FrameSet /\ X.gen = G
  /\ stack' = <<X>> \o Tail(stack)
  /\ X.todo \subseteq Top.todo
  /\ Grow(G) /\ OnlyMine(G)
  /\ ~(Top.todo = {} /\ Top.method = "none")
  /\ \/ prev' = prev /\ ("sequence_order" \in X.todo <=> "sequence_order" \in Top.todo)
     \/ /\ "sequence_order" \in Top.todo /\ "sequence_order" \notin X.todo
        /\ InSequence(G) /\ SequenceOrder
  /\ UNCHANGED project

PostTop ==
  /\ stack # <<>> /\ Top.todo = {} /\ Top.method = "none"
  /\ gens' = [gens EXCEPT ![G].posted = TRUE]
  /\ stack' = Tail(stack)
  /\ UNCHANGED <<project, tasks, prev>>

------------------------------------------------------------------------------
LEMMA StackShape ==
  ASSUME StackInv
  PROVE  /\ Len(stack) \in Nat /\ DOMAIN stack = 1..Len(stack)
         /\ \A i \in DOMAIN stack : stack[i] \in FrameSet
         /\ stack = <<>> <=> DOMAIN stack = {}
         /\ stack # <<>> => 1 \in DOMAIN stack /\ Len(stack) >= 1
<1>1. stack \in Seq(FrameSet)
  BY DEF StackInv
<1>2. Len(stack) \in Nat /\ DOMAIN stack = 1..Len(stack)
  BY <1>1
<1>3. \A i \in DOMAIN stack : stack[i] \in FrameSet
  BY <1>1
<1>4. stack # <<>> => Len(stack) >= 1
  BY <1>1
<1> QED
  BY <1>2, <1>3, <1>4

\* The stack after each kind of step.
LEMMA PushedStack ==
  ASSUME NEW S, stack \in Seq(S), NEW X \in S, stack' = <<X>> \o stack
  PROVE  /\ stack' \in Seq(S) /\ Len(stack') = Len(stack) + 1 /\ DOMAIN stack' = 1..(Len(stack) + 1)
         /\ stack'[1] = X /\ \A i \in 1..Len(stack) : stack'[i + 1] = stack[i]
         /\ \A i \in 2..(Len(stack) + 1) : i - 1 \in 1..Len(stack) /\ stack'[i] = stack[i - 1]
<1>1. PICK old : old = stack
  OBVIOUS
<1>2. PICK new : new = stack'
  OBVIOUS
<1>3. old \in Seq(S) /\ new = <<X>> \o old
  BY <1>1, <1>2
<1>4. new \in Seq(S) /\ Len(new) = Len(old) + 1 /\ Len(old) \in Nat
  BY <1>3
<1>5. new[1] = X /\ \A i \in 1..Len(old) : new[i + 1] = old[i]
  BY <1>3, <1>4
<1>6. \A i \in 2..(Len(old) + 1) : i - 1 \in 1..Len(old) /\ new[i] = old[i - 1]
  BY <1>3, <1>4
<1>7. DOMAIN new = 1..(Len(old) + 1)
  BY <1>4
<1> QED
  BY <1>1, <1>2, <1>4, <1>5, <1>6, <1>7

LEMMA PoppedStack ==
  ASSUME NEW S, stack \in Seq(S), stack # <<>>
  PROVE  /\ Tail(stack) \in Seq(S) /\ Len(Tail(stack)) = Len(stack) - 1
         /\ DOMAIN Tail(stack) = 1..(Len(stack) - 1)
         /\ \A i \in 1..(Len(stack) - 1) : Tail(stack)[i] = stack[i + 1]
         /\ Len(stack) \in Nat /\ Len(stack) >= 1
<1>1. PICK old : old = stack
  OBVIOUS
<1>2. PICK new : new = Tail(old)
  OBVIOUS
<1>3. Len(old) \in Nat /\ Len(old) >= 1
  BY <1>1
<1>4. new \in Seq(S) /\ Len(new) = Len(old) - 1 /\ \A i \in 1..(Len(old) - 1) : new[i] = old[i + 1]
  BY <1>1, <1>2, <1>3
<1>5. DOMAIN new = 1..(Len(old) - 1)
  BY <1>3, <1>4
<1> QED
  BY <1>1, <1>2, <1>3, <1>4, <1>5

LEMMA ReplacedTop ==
  ASSUME NEW S, stack \in Seq(S), stack # <<>>, NEW X \in S, stack' = <<X>> \o Tail(stack)
  PROVE  /\ stack' \in Seq(S) /\ Len(stack') = Len(stack) /\ DOMAIN stack' = DOMAIN stack
         /\ stack'[1] = X /\ \A i \in DOMAIN stack : i # 1 => stack'[i] = stack[i]
<1>1. PICK old : old = stack
  OBVIOUS
<1>2. PICK rest : rest = Tail(stack)
  OBVIOUS
<1>3. PICK new : new = stack'
  OBVIOUS
<1>4. /\ rest \in Seq(S) /\ Len(rest) = Len(old) - 1 /\ Len(old) \in Nat /\ Len(old) >= 1
      /\ \A i \in 1..(Len(old) - 1) : rest[i] = old[i + 1]
  BY <1>1, <1>2, PoppedStack
<1>5. new = <<X>> \o rest
  BY <1>2, <1>3
<1>6. new \in Seq(S) /\ Len(new) = Len(old)
  BY <1>4, <1>5
<1>7. new[1] = X /\ \A i \in 2..Len(old) : new[i] = rest[i - 1]
  BY <1>4, <1>5
<1>8. \A i \in 2..Len(old) : i - 1 \in 1..(Len(old) - 1) /\ (i - 1) + 1 = i
  BY <1>4
<1>9. \A i \in 2..Len(old) : new[i] = old[i]
  BY <1>4, <1>7, <1>8
<1>10. DOMAIN new = 1..Len(old) /\ DOMAIN old = 1..Len(old)
  BY <1>1, <1>4, <1>6
<1>11. \A i \in DOMAIN old : i # 1 => i \in 2..Len(old)
  BY <1>4, <1>10
<1> QED
  BY <1>1, <1>3, <1>6, <1>7, <1>9, <1>10, <1>11

\* No generator is on the stack twice.
LEMMA OncePerStack ==
  ASSUME WellFormed, StackInv, NEW i \in DOMAIN stack, NEW j \in DOMAIN stack,
         stack[i].gen = stack[j].gen
  PROVE  i = j
<1>1. i \in Nat /\ j \in Nat
  BY StackShape
<1>2. Rank[stack[i].gen] \in Nat
  <2>1. stack[i].gen \in Ids
    BY StackShape DEF FrameSet
  <2>2. Rank \in [Ids -> 0..Len(project)]
    BY DEF Rank, Ranks, WellFormed
  <2>3. Len(project) \in Nat
    BY SeqShape DEF WellFormed
  <2> QED
    BY <2>1, <2>2, <2>3
<1>3. \A k, l \in DOMAIN stack : k < l => Rank[stack[k].gen] < Rank[stack[l].gen]
  BY DEF StackInv
<1> QED
  BY <1>1, <1>2, <1>3

------------------------------------------------------------------------------
(* ----- what a step of the top keeps ----- *)

LEMMA TopIs ==
  ASSUME StackInv, stack # <<>>
  PROVE  /\ 1 \in DOMAIN stack /\ Top \in FrameSet /\ G \in Ids
         /\ ~gens[G].posted /\ OnStack(G)
<1>1. 1 \in DOMAIN stack
  BY StackShape
<1> QED
  BY <1>1, StackShape DEF Top, G, OnStack, StackInv, FrameSet

LEMMA TasksKept ==
  ASSUME NEW g, Grow(g), NEW y
  PROVE  TasksOf(y) \subseteq TasksOf(y)' /\ (y # g => TasksOf(y)' = TasksOf(y))
BY DEF Grow, TasksOf

LEMMA WaitsKept ==
  ASSUME NEW g, Grow(g), ~gens[g].posted, NEW h, TasksOf(h)' = TasksOf(h),
         NEW y, gens'[y].posted = gens[y].posted, Waits(h, y)
  PROVE  Waits(h, y)'
<1>1. y # g /\ TasksOf(y)' = TasksOf(y)
  BY TasksKept DEF Waits
<1>2. gens'[y].posted /\ TasksOf(y)' # {}
  BY <1>1 DEF Waits
<1>3. \A t \in TasksOf(h) : TasksOf(y) \subseteq tasks[t].after /\ tasks[t].after \subseteq tasks'[t].after
  BY DEF Waits, Grow, TasksOf
<1> QED
  BY <1>1, <1>2, <1>3 DEF Waits

LEMMA GoOnShape ==
  ASSUME GenInv, NEW X, GoOn(X)
  PROVE  /\ stack' \in Seq(FrameSet) /\ Len(stack') = Len(stack) /\ DOMAIN stack' = DOMAIN stack
         /\ stack'[1] = X /\ stack[1].gen = X.gen /\ 1 \in DOMAIN stack
         /\ \A i \in DOMAIN stack : i # 1 => stack'[i] = stack[i]
         /\ \A i \in DOMAIN stack : stack'[i].gen = stack[i].gen
         /\ Ids' = Ids /\ DOMAIN gens' = Ids
         /\ \A g \in Ids : "posted" \in DOMAIN gens'[g] /\ gens'[g].posted = gens[g].posted
         /\ \A g \in Ids : Started(g)' <=> Started(g)
<1>1. /\ stack' \in Seq(FrameSet) /\ Len(stack') = Len(stack) /\ DOMAIN stack' = DOMAIN stack
      /\ stack'[1] = X /\ \A i \in DOMAIN stack : i # 1 => stack'[i] = stack[i]
  <2>1. /\ stack \in Seq(FrameSet) /\ stack # <<>> /\ X \in FrameSet
        /\ stack' = <<X>> \o Tail(stack)
    BY DEF GoOn, GenInv, StackInv
  <2> QED
    BY <2>1, ReplacedTop
<1>2. stack[1].gen = X.gen /\ 1 \in DOMAIN stack
  BY TopIs DEF GoOn, G, Top, GenInv
<1>3. \A i \in DOMAIN stack : stack'[i].gen = stack[i].gen
  BY <1>1, <1>2
<1>4. Ids' = Ids
  BY DEF GoOn, Ids
<1>5. DOMAIN gens' = Ids /\ \A g \in Ids : "posted" \in DOMAIN gens'[g] /\ gens'[g].posted = gens[g].posted
  BY DEF GoOn, OnlyMine, GenInv, GensInv
<1>6. \A g \in Ids : Started(g)' <=> Started(g)
  BY <1>1, <1>3, <1>5 DEF Started
<1> QED
  BY <1>1, <1>2, <1>3, <1>4, <1>5, <1>6

\* The declarations do not change.
LEMMA Declared ==
  ASSUME UNCHANGED project
  PROVE  /\ Ids' = Ids /\ Rank' = Rank /\ WellFormed' <=> WellFormed
         /\ Members' = Members
         /\ \A g : /\ Keys(g)' = Keys(g) /\ (Linked(g)' <=> Linked(g)) /\ (Makes(g)' <=> Makes(g))
                   /\ (InSequence(g)' <=> InSequence(g)) /\ (IsCommand(g)' <=> IsCommand(g))
<1>1. /\ Ids' = Ids /\ \A g : Features(g)' = Features(g) /\ Uses(g)' = Uses(g)
  BY DEF Ids, Features, Uses
<1>2. \A g : /\ Keys(g)' = Keys(g) /\ (Linked(g)' <=> Linked(g))
             /\ (InSequence(g)' <=> InSequence(g)) /\ (IsCommand(g)' <=> IsCommand(g))
  BY <1>1 DEF Keys, Linked, InSequence, IsCommand
<1>3. \A g : Makes(g)' <=> Makes(g)
  BY <1>2 DEF Makes
<1>4. Ranks' = Ranks
  BY <1>1 DEF Ranks
<1>5. Rank' = Rank
  BY <1>4 DEF Rank
<1>6. Members' = Members
  BY <1>1, <1>2 DEF Members
<1>7. WellFormed' <=> WellFormed
  BY <1>1, <1>2, <1>3, <1>4 DEF WellFormed
<1> QED
  BY <1>1, <1>2, <1>3, <1>5, <1>6, <1>7

LEMMA OtherFrameKept ==
  ASSUME NEW g, NEW f, f.gen # g, Grow(g), ~gens[g].posted, UNCHANGED project,
         \A y \in Ids : gens'[y].posted = gens[y].posted, WellFormed, f.gen \in Ids, FrameInv(f)
  PROVE  FrameInv(f)'
<1>1. TasksOf(f.gen)' = TasksOf(f.gen)
  BY TasksKept
<1>2. Keys(f.gen)' = Keys(f.gen) /\ Rank' = Rank /\ Ids' = Ids /\ \A h : /\ (InSequence(h)' <=> InSequence(h)) /\ (IsCommand(h)' <=> IsCommand(h)) /\ (Linked(h)' <=> Linked(h))
  BY Declared
<1>3. MadeBy(f.gen, f.todo, f.removed)' <=> MadeBy(f.gen, f.todo, f.removed)
  BY <1>1, <1>2 DEF MadeBy
<1>4. \A y \in Elements(project[f.gen].dependencies) : Waits(f.gen, y) => Waits(f.gen, y)'
  <2>1. \A y \in Elements(project[f.gen].dependencies) : y \in Ids
    BY ElementsIn DEF WellFormed
  <2> QED
    BY <1>1, <2>1, WaitsKept
<1> QED
  BY <1>1, <1>2, <1>3, <1>4 DEF FrameInv

LEMMA GoOnKeeps ==
  ASSUME GenInv, NEW X, GoOn(X), FrameInv(X)'
  PROVE  GenInv'
<1> USE DEF GenInv
<1>1. /\ stack' \in Seq(FrameSet) /\ Len(stack') = Len(stack) /\ DOMAIN stack' = DOMAIN stack
      /\ stack'[1] = X /\ stack[1].gen = X.gen /\ 1 \in DOMAIN stack
      /\ \A i \in DOMAIN stack : i # 1 => stack'[i] = stack[i]
      /\ \A i \in DOMAIN stack : stack'[i].gen = stack[i].gen
  BY GoOnShape
<1>2. /\ Ids' = Ids /\ DOMAIN gens' = Ids
      /\ \A g \in Ids : "posted" \in DOMAIN gens'[g] /\ gens'[g].posted = gens[g].posted
      /\ \A g \in Ids : Started(g)' <=> Started(g)
  BY GoOnShape
<1>3. /\ Rank' = Rank /\ WellFormed' /\ Members' = Members
      /\ \A g : /\ (Makes(g)' <=> Makes(g)) /\ (InSequence(g)' <=> InSequence(g))
                /\ (IsCommand(g)' <=> IsCommand(g))
  BY Declared DEF GoOn
<1>4. G \in Ids /\ ~gens[G].posted /\ X.gen = G /\ Grow(G)
  BY TopIs DEF GoOn
<1>15. PICK me : me = G
  OBVIOUS
<1>5. \A i \in DOMAIN stack : stack[i].gen \in Ids /\ (i # 1 => stack[i].gen # G)
  <2>1. \A i \in DOMAIN stack : stack[i].gen \in Ids
    BY StackShape DEF FrameSet
  <2> QED
    BY <1>1, <1>4, <2>1, OncePerStack
<1>6. StackInv'
  <2>1. FrameSet' = FrameSet
    BY <1>2 DEF FrameSet
  <2> QED
    BY <1>1, <1>2, <1>3, <1>5, <2>1 DEF StackInv
<1>7. GensInv'
  BY <1>2 DEF GensInv
<1>8. TasksInv'
  <2>1. Started(G)
    BY <1>1, <1>4 DEF Started
  <2>2. ASSUME NEW t \in DOMAIN tasks', NEW g, g = tasks'[t].gen
        PROVE  g \in Ids /\ Started(g)'
    <3>1. g \in Ids /\ Started(g)
      BY <1>4, <2>1, <2>2 DEF Grow, TasksInv
    <3> QED
      BY <1>2, <3>1
  <2>3. \A t \in DOMAIN tasks' : tasks'[t].gen \in Ids' /\ Started(tasks[t].gen)'
    <3> SUFFICES ASSUME NEW t \in DOMAIN tasks'
                 PROVE  tasks'[t].gen \in Ids' /\ Started(tasks[t].gen)'
      OBVIOUS
    <3>1. PICK g : g = tasks'[t].gen
      OBVIOUS
    <3> QED
      BY <1>2, <2>2, <3>1
  <2> QED
    BY <1>4, <2>3 DEF TasksInv, Grow
<1>9. \A i \in DOMAIN stack' : FrameInv(stack[i])'
  <2> SUFFICES ASSUME NEW i \in DOMAIN stack' PROVE FrameInv(stack[i])'
    OBVIOUS
  <2>1. PICK f : f = stack'[i]
    OBVIOUS
  <2>2. CASE i = 1
    BY <1>1, <2>2
  <2>3. CASE i # 1
    <3>1. f = stack[i] /\ f.gen \in Ids /\ f.gen # G /\ FrameInv(f)
      BY <1>1, <1>5, <2>1, <2>3
    <3>2. FrameInv(f)'
      BY <1>2, <1>4, <3>1, OtherFrameKept DEF GoOn
    <3> QED
      BY <2>1, <3>2
  <2> QED
    BY <2>2, <2>3
<1>10. PostedInv'
  <2> SUFFICES ASSUME NEW g \in Ids, gens[g].posted
               PROVE  /\ Makes(g) => TasksOf(g)' # {}
                      /\ IsCommand(g) => \A y \in Elements(project[g].dependencies) : Waits(g, y)'
    BY <1>2, <1>3 DEF PostedInv, GoOn
  <2>1. g # G /\ TasksOf(g)' = TasksOf(g)
    BY <1>4, TasksKept
  <2>2. \A y \in Elements(project[g].dependencies) : y \in Ids
    BY ElementsIn DEF WellFormed
  <2>3. IsCommand(g) => \A y \in Elements(project[g].dependencies) : Waits(g, y)'
    BY <1>2, <1>4, <2>1, <2>2, WaitsKept DEF PostedInv
  <2> QED
    BY <2>1, <2>3 DEF PostedInv
<1>11. \A g \in Members : g \in Ids /\ InSequence(g)
  BY DEF Members
<1>12. FrameInv(Top)
  BY <1>1 DEF Top
<1>13. CASE prev' = prev /\ ("sequence_order" \in X.todo <=> "sequence_order" \in Top.todo)
  <2>1. \A g \in Ids : Passed(g)' <=> Passed(g)
    BY <1>1, <1>2, <1>13 DEF Passed, Top
  <2>2. ASSUME NEW h \in Members, Passed(h) PROVE h # G
    <3> SUFFICES ASSUME h = G PROVE FALSE
      OBVIOUS
    <3>1. PICK i \in DOMAIN stack : stack[i].gen = G /\ "sequence_order" \notin stack[i].todo
      BY <1>4, <2>2 DEF Passed
    <3>2. i = 1
      BY <1>5, <3>1
    <3> QED
      BY <1>11, <1>12, <3>1, <3>2 DEF FrameInv, GoOn, Top, G
  <2>3. ASSUME NEW g \in Members, NEW h \in Members, Passed(h), g < h,
               \A x \in Members : ~(g < x /\ x < h)
        PROVE  \A t \in TasksOf(h)' : TasksOf(g)' \subseteq tasks'[t].after
    <3>1. gens[g].posted
      BY <1>11, <2>3 DEF SequenceInv, Passed, Started
    <3>2. TasksOf(g)' = TasksOf(g) /\ TasksOf(h)' = TasksOf(h)
      BY <1>4, <2>2, <2>3, <3>1, TasksKept
    <3>3. \A t \in TasksOf(h) : TasksOf(g) \subseteq tasks[t].after
      BY <2>3 DEF SequenceInv
    <3>4. \A t \in TasksOf(h) : tasks[t].after \subseteq tasks'[t].after
      BY <1>4 DEF Grow, TasksOf
    <3> QED
      BY <3>2, <3>3, <3>4
  <2>4. \A g \in Ids : (InSequence(g) /\ Started(g))' => \A h \in Ids : h < g => gens'[h].posted
    BY <1>2, <1>3 DEF SequenceInv
  <2>5. IF prev' = 0 THEN \A g \in Members : ~Passed(g)'
        ELSE prev' \in Members /\ Passed(prev)' /\ \A g \in Members : Passed(g)' => g <= prev'
    <3>1. PICK p : p = prev
      OBVIOUS
    <3>2. p # 0 => p \in Members /\ Passed(p) /\ (Passed(p)' <=> Passed(p))
      BY <1>11, <2>1, <3>1 DEF SequenceInv
    <3> QED
      BY <1>11, <1>13, <2>1, <3>1, <3>2 DEF SequenceInv
  <2>6. SequenceInv'
    BY <1>2, <1>3, <1>11, <2>1, <2>3, <2>4, <2>5 DEF SequenceInv
  <2> QED
    BY <1>3, <1>6, <1>7, <1>8, <1>9, <1>10, <2>6
<1>14. CASE /\ "sequence_order" \in Top.todo /\ "sequence_order" \notin X.todo
            /\ InSequence(G) /\ SequenceOrder
  <2>1. ~Passed(G)
    <3> SUFFICES ASSUME Passed(G) PROVE FALSE
      OBVIOUS
    <3>1. PICK i \in DOMAIN stack : stack[i].gen = G /\ "sequence_order" \notin stack[i].todo
      BY <1>4 DEF Passed
    <3>2. i = 1
      BY <1>5, <3>1
    <3> QED
      BY <1>14, <3>1, <3>2 DEF Top
  <2>2. \A g \in Ids : Passed(g)' <=> (Passed(g) \/ g = G)
    BY <1>1, <1>2, <1>4, <1>5, <1>14 DEF Passed, Top
  <2>3. \A h \in Ids : h < G => gens[h].posted
    BY <1>1, <1>4, <1>14 DEF SequenceInv, Started
  <2>4. \A g \in Ids : (InSequence(g) /\ Started(g))' => \A h \in Ids : h < g => gens'[h].posted
    BY <1>2, <1>3 DEF SequenceInv
  <2>5. ASSUME NEW g \in Members, NEW h \in Members, h # G, Passed(h), g < h,
               \A x \in Members : ~(g < x /\ x < h)
        PROVE  \A t \in TasksOf(h)' : TasksOf(g)' \subseteq tasks'[t].after
    <3>1. gens[g].posted
      BY <1>11, <2>5 DEF SequenceInv, Passed, Started
    <3>2. TasksOf(g)' = TasksOf(g) /\ TasksOf(h)' = TasksOf(h)
      BY <1>4, <2>5, <3>1, TasksKept
    <3>3. \A t \in TasksOf(h) : TasksOf(g) \subseteq tasks[t].after
      BY <2>5 DEF SequenceInv
    <3>4. \A t \in TasksOf(h) : tasks[t].after \subseteq tasks'[t].after
      BY <1>4 DEF Grow, TasksOf
    <3> QED
      BY <3>2, <3>3, <3>4
  <2>6. CASE project[G].seq_start
    <3>1. prev' = prev /\ G \notin Members
      BY <1>14, <2>6 DEF SequenceOrder, It, Members
    <3>2. IF prev' = 0 THEN \A g \in Members : ~Passed(g)'
          ELSE prev' \in Members /\ Passed(prev)' /\ \A g \in Members : Passed(g)' => g <= prev'
      <4>1. PICK p : p = prev
        OBVIOUS
      <4>2. p # 0 => p \in Members /\ Passed(p) /\ (Passed(p)' <=> Passed(p))
        BY <1>11, <2>2, <3>1, <4>1 DEF SequenceInv
      <4> QED
        BY <1>11, <2>2, <3>1, <4>1, <4>2 DEF SequenceInv
    <3>3. SequenceInv'
      BY <1>2, <1>3, <1>11, <2>2, <2>4, <2>5, <3>1, <3>2 DEF SequenceInv
    <3> QED
      BY <1>3, <1>6, <1>7, <1>8, <1>9, <1>10, <3>3
  <2>7. CASE ~project[G].seq_start
    <3>1. prev' = G /\ G \in Members
      BY <1>4, <1>14, <2>7 DEF SequenceOrder, It, Members
    <3>2. \A g \in Members : Passed(g) => g <= prev /\ prev \in Members /\ Passed(prev)
      BY DEF SequenceInv
    <3>3. Ids \subseteq Nat
      BY SeqShape DEF Ids, WellFormed
    <3>4. prev # 0 => prev < G
      <4> SUFFICES ASSUME prev # 0, ~(prev < G) PROVE FALSE
        BY Zenon
      <4>1. prev \in Members /\ Passed(prev)
        BY DEF SequenceInv
      <4>2. prev # G
        BY <2>1, <4>1
      <4>3. G < prev
        <5>1. G \in Nat /\ prev \in Nat
          BY <1>4, <1>11, <3>3, <4>1
        <5> QED
          BY <4>2, <5>1
      <4>4. gens[G].posted
        BY <1>4, <1>11, <4>1, <4>3 DEF SequenceInv, Passed, Started
      <4> QED
        BY <1>4, <4>4
    <3>5. ASSUME NEW g \in Members, Passed(g) PROVE g <= me
      <4>1. g \in Nat /\ me \in Nat /\ g <= prev /\ prev \in Nat /\ prev # 0
        BY <1>4, <1>11, <1>15, <3>2, <3>3, <3>5 DEF SequenceInv
      <4> QED
        BY <1>15, <3>4, <4>1
    <3>6. me # 0 /\ me <= me /\ Passed(me)' /\ prev' = me
      BY <1>4, <1>15, <2>2, <3>1, <3>3, SeqShape DEF Ids, WellFormed
    <3>7. IF prev' = 0 THEN \A g \in Members : ~Passed(g)'
          ELSE prev' \in Members /\ Passed(prev)' /\ \A g \in Members : Passed(g)' => g <= prev'
      BY <1>11, <1>15, <2>2, <3>1, <3>5, <3>6
    <3>8. ASSUME NEW g \in Members, g < me, \A x \in Members : ~(g < x /\ x < me)
          PROVE  \A t \in TasksOf(me)' : TasksOf(g)' \subseteq tasks'[t].after
      <4>1. Passed(g)
        BY <1>11, <1>15, <2>3, <3>8 DEF Passed
      <4>2. g <= prev /\ prev \in Members /\ Passed(prev) /\ prev # 0
        BY <3>2, <4>1 DEF SequenceInv
      <4>3. g = prev
        <5>1. g \in Nat /\ prev \in Nat
          BY <1>11, <3>3, <4>2
        <5> QED
          BY <1>15, <3>4, <3>8, <4>2, <5>1
      <4>4. TasksOf(g)' = TasksOf(g)
        BY <1>4, <2>1, <4>1, TasksKept
      <4>5. tasks' = [t \in DOMAIN tasks |->
                        IF tasks[t].gen # me THEN tasks[t]
                        ELSE [tasks[t] EXCEPT !.after = @ \cup {u \in DOMAIN tasks : tasks[u].gen = prev}]]
        BY <1>14, <1>15, <2>7, <4>2 DEF SequenceOrder, It
      <4>6. ASSUME NEW t \in TasksOf(me)' PROVE TasksOf(g) \subseteq tasks'[t].after
        <5>1. t \in DOMAIN tasks' /\ tasks'[t].gen = me
          BY <4>6 DEF TasksOf
        <5>2. t \in DOMAIN tasks /\ tasks[t].gen = me /\ "after" \in DOMAIN tasks[t]
          BY <1>4, <4>5, <5>1 DEF Grow, TasksInv
        <5> QED
          BY <4>3, <4>5, <5>2 DEF TasksOf
      <4> QED
        BY <4>4, <4>6
    <3>9. SequenceInv'
      <4>1. ASSUME NEW g \in Members, NEW h \in Members, Passed(h)', g < h,
                   \A x \in Members : ~(g < x /\ x < h)
            PROVE  \A t \in TasksOf(h)' : TasksOf(g)' \subseteq tasks'[t].after
        <5>1. CASE h = me
          BY <3>8, <4>1, <5>1
        <5>2. CASE h # me
          BY <1>11, <1>15, <2>2, <2>5, <4>1, <5>2
        <5> QED
          BY <5>1, <5>2
      <4> QED
        BY <1>2, <1>3, <2>4, <3>7, <4>1 DEF SequenceInv
    <3> QED
      BY <1>3, <1>6, <1>7, <1>8, <1>9, <1>10, <3>9
  <2> QED
    BY <2>6, <2>7
<1> QED
  BY <1>13, <1>14 DEF GoOn

------------------------------------------------------------------------------
(* ----- the methods of a generator ----- *)

LEMMA TraitsAre ==
  /\ DOMAIN Traits = {"cc", "cxx", "cprogram", "cshlib", "cstaticlib", "command", "subst", "copy",
                      "seq", "always"}
  /\ Traits["always"] = {"apply_core", "exec_rule"} /\ Traits["seq"] = {"sequence_order"}
  /\ Traits["command"] = {"init_cmd_output", "apply_cmd_output"}
  /\ \A x \in LinkTypes : x \in DOMAIN Traits /\ "apply_link" \in Traits[x]
  /\ \A x \in DOMAIN Traits : "sequence_order" \in Traits[x] => x = "seq"
BY DEF Traits, LinkTypes

LEMMA KeysOf ==
  ASSUME WellFormed, NEW g \in Ids
  PROVE  /\ Keys(g) \subseteq AllMethods
         /\ {"apply_core", "exec_rule"} \subseteq Keys(g)
         /\ IsCommand(g) => /\ "apply_cmd_output" \in Keys(g) /\ ~Linked(g)
                            /\ Keys(g) \subseteq {"apply_core", "exec_rule", "init_cmd_output",
                                                  "apply_cmd_output", "sequence_order", "process_obj_files"}
         /\ Linked(g) => "apply_link" \in Keys(g)
         /\ InSequence(g) <=> "sequence_order" \in Keys(g)
<1>1. Features(g) \cup {"always"} \subseteq DOMAIN Traits
  BY TraitsAre DEF WellFormed
<1>2. PICK own : /\ own \subseteq {"process_obj_files"}
                 /\ Keys(g) = (UNION {Traits[x] : x \in Features(g) \cup {"always"}}) \cup own
  BY DEF Keys
<1>3. \A x \in Features(g) \cup {"always"} : Traits[x] \subseteq Keys(g)
  BY <1>2
<1>4. Keys(g) \subseteq AllMethods
  BY <1>1, <1>2 DEF AllMethods
<1>5. {"apply_core", "exec_rule"} \subseteq Keys(g)
  BY <1>3, TraitsAre
<1>6. Linked(g) => "apply_link" \in Keys(g)
  BY <1>3, TraitsAre DEF Linked
<1>7. InSequence(g) <=> "sequence_order" \in Keys(g)
  <2>1. InSequence(g) => "sequence_order" \in Keys(g)
    BY <1>3, TraitsAre DEF InSequence
  <2>2. ASSUME "sequence_order" \in Keys(g) PROVE InSequence(g)
    <3>1. "sequence_order" \notin own
      BY <1>2
    <3>2. PICK x \in Features(g) \cup {"always"} : "sequence_order" \in Traits[x]
      BY <1>2, <2>2, <3>1
    <3>3. x \in DOMAIN Traits
      BY <1>1
    <3>4. x = "seq"
      BY <3>2, <3>3, TraitsAre
    <3>5. "seq" # "always"
      OBVIOUS
    <3> QED
      BY <3>4, <3>5 DEF InSequence
  <2> QED
    BY <2>1, <2>2
<1>8. ASSUME IsCommand(g)
      PROVE  /\ "apply_cmd_output" \in Keys(g) /\ ~Linked(g)
             /\ Keys(g) \subseteq {"apply_core", "exec_rule", "init_cmd_output", "apply_cmd_output",
                                   "sequence_order", "process_obj_files"}
  <2>1. "command" \in Features(g) /\ Features(g) \subseteq {"command", "seq"}
    BY <1>8 DEF IsCommand, WellFormed
  <2>2. ~Linked(g)
    BY <2>1 DEF Linked, LinkTypes
  <2>3. "apply_cmd_output" \in Keys(g)
    BY <1>3, <2>1, TraitsAre
  <2>4. \A x \in Features(g) \cup {"always"} :
          Traits[x] \subseteq {"apply_core", "exec_rule", "init_cmd_output", "apply_cmd_output",
                              "sequence_order"}
    <3> SUFFICES ASSUME NEW x \in {"command", "seq", "always"}
                 PROVE  Traits[x] \subseteq {"apply_core", "exec_rule", "init_cmd_output",
                                            "apply_cmd_output", "sequence_order"}
      BY <2>1
    <3> QED
      BY TraitsAre
  <2>5. Keys(g) \subseteq {"apply_core", "exec_rule", "init_cmd_output", "apply_cmd_output",
                          "sequence_order", "process_obj_files"}
    BY <1>2, <2>4
  <2> QED
    BY <2>2, <2>3, <2>5
<1> QED
  BY <1>4, <1>5, <1>6, <1>7, <1>8

------------------------------------------------------------------------------
(* ----- a generator is pushed ----- *)

LEMMA FrameIs ==
  ASSUME WellFormed, NEW y \in Ids
  PROVE  /\ Frame(y) \in FrameSet /\ Frame(y).gen = y /\ Frame(y).todo = Keys(y)
         /\ Frame(y).removed = {} /\ Frame(y).method = "none" /\ Frame(y).names = <<>>
BY KeysOf DEF Frame, FrameSet

\* Whatever is posted next, its frame has everything still to do.
LEMMA NewFrame ==
  ASSUME GenInv, NEW y \in Ids, ~Started(y)
  PROVE  FrameInv(Frame(y))
<1> USE DEF GenInv
<1>1. PICK f : f = Frame(y)
  OBVIOUS
<1>2. f.gen = y /\ f.todo = Keys(y) /\ f.removed = {} /\ f.method = "none" /\ f.names = <<>>
  BY <1>1, FrameIs
<1>3. TasksOf(y) = {}
  BY DEF TasksInv, TasksOf
<1>4. MadeBy(y, Keys(y), {})
  BY KeysOf DEF MadeBy
<1>5. Elements(f.names) = {}
  BY <1>2 DEF Elements
<1>6. /\ IsCommand(y) => "apply_cmd_output" \in Keys(y)
      /\ InSequence(y) => "sequence_order" \in Keys(y)
  BY KeysOf
<1>7. FrameInv(f)
  BY <1>2, <1>3, <1>4, <1>5, <1>6 DEF FrameInv
<1> QED
  BY <1>1, <1>7

LEMMA PushKeeps ==
  ASSUME GenInv, NEW y, Push(y)
  PROVE  GenInv'
<1> USE DEF GenInv
<1>1. y \in Ids /\ ~Started(y) /\ UNCHANGED <<project, gens, tasks, prev>>
  BY DEF Push
<1>2. PICK f : f = Frame(y)
  OBVIOUS
<1>3. f \in FrameSet /\ f.gen = y /\ f.todo = Keys(y)
  BY <1>1, <1>2, FrameIs
<1>4. /\ stack' \in Seq(FrameSet) /\ Len(stack') = Len(stack) + 1 /\ DOMAIN stack' = 1..(Len(stack) + 1)
      /\ stack'[1] = f /\ \A i \in 1..Len(stack) : stack'[i + 1] = stack[i]
      /\ \A i \in 2..(Len(stack) + 1) : i - 1 \in 1..Len(stack) /\ stack'[i] = stack[i - 1]
  BY <1>2, <1>3, PushedStack DEF Push, StackInv
<1>5. Len(stack) \in Nat /\ DOMAIN stack = 1..Len(stack)
  BY StackShape
<1>6. \A i \in DOMAIN stack : stack[i].gen \in Ids /\ Rank[y] < Rank[stack[i].gen]
  BY StackShape DEF FrameSet, Push
<1>7. /\ Ids' = Ids /\ Rank' = Rank /\ WellFormed' /\ Members' = Members
      /\ \A g : /\ (Makes(g)' <=> Makes(g)) /\ (InSequence(g)' <=> InSequence(g))
                /\ (IsCommand(g)' <=> IsCommand(g))
  BY <1>1, Declared
<1>8. \A g : Started(g)' <=> Started(g) \/ g = y
  <2> SUFFICES ASSUME NEW g PROVE Started(g)' <=> Started(g) \/ g = y
    OBVIOUS
  <2>1. Started(g) => Started(g)'
    <3>1. \A i \in DOMAIN stack : i + 1 \in DOMAIN stack' /\ stack'[i + 1] = stack[i]
      BY <1>4, <1>5
    <3> QED
      BY <1>1, <3>1 DEF Started
  <2>2. g = y => Started(g)'
    BY <1>3, <1>4, <1>5 DEF Started
  <2>3. Started(g)' => Started(g) \/ g = y
    <3>1. \A i \in DOMAIN stack' : i = 1 \/ (i - 1 \in DOMAIN stack /\ stack'[i] = stack[i - 1])
      BY <1>4, <1>5
    <3> QED
      BY <1>1, <1>3, <1>4, <3>1 DEF Started
  <2> QED
    BY <2>1, <2>2, <2>3
<1>9. \A g \in Members : Passed(g)' <=> Passed(g)
  <2> SUFFICES ASSUME NEW g \in Members PROVE Passed(g)' <=> Passed(g)
    OBVIOUS
  <2>1. Passed(g) => Passed(g)'
    <3>1. \A i \in DOMAIN stack : i + 1 \in DOMAIN stack' /\ stack'[i + 1] = stack[i]
      BY <1>4, <1>5
    <3> QED
      BY <1>1, <3>1 DEF Passed
  <2>2. f.gen = g => "sequence_order" \in f.todo
    BY <1>3, KeysOf DEF Members
  <2>3. Passed(g)' => Passed(g)
    <3>1. \A i \in DOMAIN stack' : i = 1 \/ (i - 1 \in DOMAIN stack /\ stack'[i] = stack[i - 1])
      BY <1>4, <1>5
    <3> QED
      BY <1>1, <1>4, <2>2, <3>1 DEF Passed
  <2> QED
    BY <2>1, <2>3
<1>10. StackInv'
  <2>1. FrameSet' = FrameSet
    BY <1>7 DEF FrameSet
  <2>2. \A i \in DOMAIN stack' : ~gens'[stack'[i].gen].posted
    <3> SUFFICES ASSUME NEW i \in DOMAIN stack' PROVE ~gens'[stack'[i].gen].posted
      OBVIOUS
    <3>1. CASE i = 1
      BY <1>1, <1>3, <1>4, <3>1 DEF Started
    <3>2. CASE i # 1
      <4>1. i \in 2..(Len(stack) + 1)
        BY <1>4, <1>5, <3>2
      <4> QED
        BY <1>1, <1>4, <1>5, <4>1 DEF StackInv
    <3> QED
      BY <3>1, <3>2
  <2>3. ASSUME NEW i \in DOMAIN stack', NEW j \in DOMAIN stack', i < j
        PROVE  Rank[stack'[i].gen] < Rank[stack'[j].gen]
    <3>1. j \in 2..(Len(stack) + 1)
      BY <1>4, <1>5, <2>3
    <3>2. j - 1 \in DOMAIN stack /\ stack'[j] = stack[j - 1]
      BY <1>4, <1>5, <3>1
    <3>3. CASE i = 1
      BY <1>3, <1>4, <1>6, <3>2, <3>3
    <3>4. CASE i # 1
      <4>1. i \in 2..(Len(stack) + 1)
        BY <1>4, <1>5, <3>4
      <4>2. i - 1 \in DOMAIN stack /\ stack'[i] = stack[i - 1] /\ i - 1 < j - 1
        BY <1>4, <1>5, <2>3, <3>1, <4>1
      <4> QED
        BY <3>2, <4>2 DEF StackInv
    <3> QED
      BY <3>3, <3>4
  <2>4. ASSUME NEW i \in DOMAIN stack', InSequence(stack'[i].gen)
        PROVE  i = Len(stack) + 1
    <3>1. CASE i = 1
      <4>1. InSequence(y)
        BY <1>3, <1>4, <2>4, <3>1
      <4>2. stack = <<>>
        BY <4>1 DEF Push
      <4> QED
        BY <3>1, <4>2
    <3>2. CASE i # 1
      <4>1. i \in 2..(Len(stack) + 1)
        BY <1>4, <1>5, <3>2
      <4>2. i - 1 \in DOMAIN stack /\ stack'[i] = stack[i - 1]
        BY <1>4, <1>5, <4>1
      <4>3. i - 1 = Len(stack)
        BY <2>4, <4>2 DEF StackInv
      <4> QED
        BY <1>5, <4>1, <4>3
    <3> QED
      BY <3>1, <3>2
  <2>5. \A i \in DOMAIN stack' : InSequence(stack[i].gen)' => i = Len(stack')
    <3> SUFFICES ASSUME NEW i \in DOMAIN stack', InSequence(stack[i].gen)' PROVE i = Len(stack')
      OBVIOUS
    <3>1. PICK g : g = stack'[i].gen
      OBVIOUS
    <3>2. InSequence(g)
      BY <1>7, <3>1
    <3> QED
      BY <1>4, <2>4, <3>1, <3>2
  <2> QED
    BY <1>4, <1>7, <2>1, <2>2, <2>3, <2>5 DEF StackInv
<1>11. GensInv'
  BY <1>1, <1>7 DEF GensInv
<1>12. TasksInv'
  <2>1. ASSUME NEW t \in DOMAIN tasks' PROVE Started(tasks[t].gen)'
    <3>1. PICK g : g = tasks[t].gen
      OBVIOUS
    <3>2. Started(g)' /\ g = tasks'[t].gen
      BY <1>1, <1>8, <2>1, <3>1 DEF TasksInv
    <3> QED
      BY <3>2
  <2> QED
    BY <1>1, <1>7, <2>1 DEF TasksInv
<1>13. \A g, y1 : /\ TasksOf(g)' = TasksOf(g) /\ (Waits(g, y1)' <=> Waits(g, y1))
  BY <1>1 DEF Waits, TasksOf
<1>14. \A frame : FrameInv(frame)' <=> FrameInv(frame)
  BY <1>1, <1>7, <1>13, Declared DEF FrameInv, MadeBy
<1>15. \A i \in DOMAIN stack' : FrameInv(stack[i])'
  <2> SUFFICES ASSUME NEW i \in DOMAIN stack' PROVE FrameInv(stack[i])'
    OBVIOUS
  <2>1. PICK frame : frame = stack'[i]
    OBVIOUS
  <2>2. CASE i = 1
    BY <1>1, <1>2, <1>4, <1>14, <2>1, <2>2, NewFrame
  <2>3. CASE i # 1
    <3>1. i \in 2..(Len(stack) + 1)
      BY <1>4, <1>5, <2>3
    <3>2. i - 1 \in DOMAIN stack /\ frame = stack[i - 1]
      BY <1>4, <1>5, <2>1, <3>1
    <3>3. FrameInv(frame)
      BY <3>2
    <3> QED
      BY <1>14, <2>1, <3>3
  <2> QED
    BY <2>2, <2>3
<1>16. PostedInv'
  BY <1>1, <1>7, <1>13 DEF PostedInv
<1>17. SequenceInv'
  <2>1. ASSUME NEW g \in Ids, InSequence(g), Started(g)'
        PROVE  \A h \in Ids : h < g => gens[h].posted
    <3>1. CASE Started(g)
      BY <2>1, <3>1 DEF SequenceInv
    <3>2. CASE g = y
      <4>1. stack = <<>>
        BY <2>1, <3>2 DEF Push
      <4> QED
        BY <3>2, <4>1 DEF Push
    <3> QED
      BY <1>8, <2>1, <3>1, <3>2
  <2>2. IF prev' = 0 THEN \A g \in Members : ~Passed(g)'
        ELSE prev' \in Members /\ Passed(prev)' /\ \A g \in Members : Passed(g)' => g <= prev'
    <3>1. PICK p : p = prev
      OBVIOUS
    <3>2. p # 0 => p \in Members /\ Passed(p) /\ (Passed(p)' <=> Passed(p))
      BY <1>9, <3>1 DEF SequenceInv
    <3> QED
      BY <1>1, <1>9, <3>1, <3>2 DEF SequenceInv
  <2> QED
    BY <1>1, <1>7, <1>9, <1>13, <2>1, <2>2 DEF SequenceInv
<1> QED
  BY <1>7, <1>10, <1>11, <1>12, <1>15, <1>16, <1>17

------------------------------------------------------------------------------
(* ----- a generator is posted ----- *)

LEMMA PostTopKeeps ==
  ASSUME GenInv, PostTop
  PROVE  GenInv'
<1> USE DEF GenInv
<1>1. UNCHANGED <<project, tasks, prev>> /\ stack # <<>> /\ Top.todo = {} /\ Top.method = "none"
  BY DEF PostTop
<1>2. PICK me : me = G
  OBVIOUS
<1>3. me \in Ids /\ 1 \in DOMAIN stack /\ ~gens[me].posted /\ stack[1].gen = me
  BY <1>1, <1>2, TopIs DEF G, Top
<1>4. /\ Tail(stack) \in Seq(FrameSet) /\ DOMAIN Tail(stack) = 1..(Len(stack) - 1)
      /\ Len(Tail(stack)) = Len(stack) - 1
      /\ \A i \in 1..(Len(stack) - 1) : Tail(stack)[i] = stack[i + 1]
      /\ Len(stack) \in Nat /\ Len(stack) >= 1
  BY <1>1, PoppedStack DEF StackInv
<1>5. DOMAIN stack = 1..Len(stack) /\ \A i \in DOMAIN stack : stack[i].gen \in Ids
  BY StackShape DEF FrameSet
<1>6. \A i \in DOMAIN stack' : i + 1 \in DOMAIN stack /\ i + 1 # 1 /\ stack'[i] = stack[i + 1]
  BY <1>4, <1>5 DEF PostTop
<1>7. \A i \in DOMAIN stack : i # 1 => i - 1 \in DOMAIN stack' /\ stack'[i - 1] = stack[i]
  <2> SUFFICES ASSUME NEW i \in DOMAIN stack, i # 1
               PROVE  i - 1 \in DOMAIN stack' /\ stack'[i - 1] = stack[i]
    OBVIOUS
  <2>1. i - 1 \in 1..(Len(stack) - 1) /\ (i - 1) + 1 = i
    BY <1>4, <1>5
  <2> QED
    BY <1>4, <2>1 DEF PostTop
<1>8. \A i \in DOMAIN stack : i # 1 => stack[i].gen # me
  BY <1>3, OncePerStack
<1>9. /\ Ids' = Ids /\ Rank' = Rank /\ WellFormed' /\ Members' = Members
      /\ \A g : /\ (Makes(g)' <=> Makes(g)) /\ (InSequence(g)' <=> InSequence(g))
                /\ (IsCommand(g)' <=> IsCommand(g))
  BY <1>1, Declared
<1>10. /\ DOMAIN gens' = Ids
       /\ \A g \in Ids : "posted" \in DOMAIN gens'[g] /\ (gens'[g].posted <=> gens[g].posted \/ g = me)
       /\ \A g \in Ids : gens'[g].posted \in BOOLEAN
  <2>1. /\ DOMAIN gens' = DOMAIN gens
        /\ \A g \in Ids : gens'[g] = IF g = me THEN [gens[g] EXCEPT !.posted = TRUE] ELSE gens[g]
    BY <1>2 DEF PostTop, GensInv
  <2> QED
    BY <2>1 DEF GensInv
<1>11. \A g \in Ids : Started(g)' <=> Started(g)
  <2> SUFFICES ASSUME NEW g \in Ids PROVE Started(g)' <=> Started(g)
    OBVIOUS
  <2>1. CASE g = me
    BY <1>3, <1>10, <2>1 DEF Started
  <2>2. CASE g # me
    <3>1. (\E i \in DOMAIN stack : stack[i].gen = g) => \E i \in DOMAIN stack' : stack'[i].gen = g
      BY <1>3, <1>7, <2>2
    <3>2. (\E i \in DOMAIN stack' : stack'[i].gen = g) => \E i \in DOMAIN stack : stack[i].gen = g
      BY <1>6
    <3> QED
      BY <1>10, <2>2, <3>1, <3>2 DEF Started
  <2> QED
    BY <2>1, <2>2
<1>12. \A g \in Ids : Passed(g)' <=> Passed(g)
  <2> SUFFICES ASSUME NEW g \in Ids PROVE Passed(g)' <=> Passed(g)
    OBVIOUS
  <2>1. CASE g = me
    <3>1. "sequence_order" \notin stack[1].todo
      BY <1>1 DEF Top
    <3> QED
      BY <1>3, <1>10, <2>1, <3>1 DEF Passed
  <2>2. CASE g # me
    <3>1. (\E i \in DOMAIN stack : stack[i].gen = g /\ "sequence_order" \notin stack[i].todo)
            => \E i \in DOMAIN stack' : stack'[i].gen = g /\ "sequence_order" \notin stack'[i].todo
      BY <1>3, <1>7, <2>2
    <3>2. (\E i \in DOMAIN stack' : stack'[i].gen = g /\ "sequence_order" \notin stack'[i].todo)
            => \E i \in DOMAIN stack : stack[i].gen = g /\ "sequence_order" \notin stack[i].todo
      BY <1>6
    <3> QED
      BY <1>10, <2>2, <3>1, <3>2 DEF Passed
  <2> QED
    BY <2>1, <2>2
<1>13. StackInv'
  <2>1. FrameSet' = FrameSet
    BY <1>9 DEF FrameSet
  <2>2. \A i \in DOMAIN stack' : ~gens'[stack'[i].gen].posted
    BY <1>5, <1>6, <1>8, <1>10 DEF StackInv
  <2>3. ASSUME NEW i \in DOMAIN stack', NEW j \in DOMAIN stack', i < j
        PROVE  Rank[stack'[i].gen] < Rank[stack'[j].gen]
    <3>1. i \in Nat /\ j \in Nat /\ i + 1 < j + 1
      BY <1>4, <2>3 DEF PostTop
    <3> QED
      BY <1>6, <3>1 DEF StackInv
  <2>4. \A i \in DOMAIN stack' : InSequence(stack[i].gen)' => i = Len(stack')
    <3> SUFFICES ASSUME NEW i \in DOMAIN stack', InSequence(stack[i].gen)' PROVE i = Len(stack')
      OBVIOUS
    <3>1. PICK g : g = stack'[i].gen
      OBVIOUS
    <3>2. InSequence(g)
      BY <1>9, <3>1
    <3>3. InSequence(stack[i + 1].gen)
      BY <1>6, <3>1, <3>2
    <3>4. i + 1 = Len(stack)
      BY <1>6, <3>3 DEF StackInv
    <3>5. i \in 1..(Len(stack) - 1)
      BY <1>4 DEF PostTop
    <3> QED
      BY <1>4, <3>4, <3>5 DEF PostTop
  <2>5. stack' \in Seq(FrameSet)
    BY <1>4 DEF PostTop
  <2> QED
    BY <1>9, <2>1, <2>2, <2>3, <2>4, <2>5 DEF StackInv
<1>14. GensInv'
  BY <1>9, <1>10 DEF GensInv
<1>15. TasksInv'
  <2>1. ASSUME NEW t \in DOMAIN tasks' PROVE tasks'[t].gen \in Ids' /\ Started(tasks[t].gen)'
    <3>1. PICK g : g = tasks[t].gen
      OBVIOUS
    <3>2. g \in Ids /\ Started(g)' /\ g = tasks'[t].gen
      BY <1>1, <1>11, <2>1, <3>1 DEF TasksInv
    <3> QED
      BY <1>9, <3>2
  <2> QED
    BY <1>1, <2>1 DEF TasksInv
<1>16. \A g, y : TasksOf(g)' = TasksOf(g) /\ (y \in Ids /\ Waits(g, y) => Waits(g, y)')
  BY <1>1, <1>10 DEF Waits, TasksOf
<1>17. \A g \in Ids : \A y \in Elements(project[g].dependencies) : y \in Ids
  BY ElementsIn DEF WellFormed
<1>18. ASSUME NEW f, f.gen \in Ids, FrameInv(f) PROVE FrameInv(f)'
  <2>1. /\ Keys(f.gen)' = Keys(f.gen)
        /\ MadeBy(f.gen, f.todo, f.removed)' <=> MadeBy(f.gen, f.todo, f.removed)
    BY <1>1, <1>9, <1>16, Declared DEF MadeBy
  <2>2. \A y \in Elements(project[f.gen].dependencies) : Waits(f.gen, y) => Waits(f.gen, y)'
    BY <1>16, <1>17, <1>18
  <2> QED
    BY <1>1, <1>9, <1>16, <1>18, <2>1, <2>2 DEF FrameInv
<1>19. \A i \in DOMAIN stack' : FrameInv(stack[i])'
  <2> SUFFICES ASSUME NEW i \in DOMAIN stack' PROVE FrameInv(stack[i])'
    OBVIOUS
  <2>1. PICK f : f = stack'[i]
    OBVIOUS
  <2>2. f.gen \in Ids /\ FrameInv(f)
    BY <1>5, <1>6, <2>1
  <2>3. FrameInv(f)'
    BY <1>18, <2>2
  <2> QED
    BY <2>1, <2>3
<1>20. PostedInv'
  <2> SUFFICES ASSUME NEW g \in Ids, gens'[g].posted
               PROVE  /\ Makes(g) => TasksOf(g) # {}
                      /\ IsCommand(g) => \A y \in Elements(project[g].dependencies) : Waits(g, y)'
    BY <1>1, <1>9, <1>16 DEF PostedInv
  <2>1. CASE gens[g].posted
    BY <1>16, <1>17, <2>1 DEF PostedInv
  <2>2. CASE g = me
    <3>1. FrameInv(Top) /\ Top.gen = me
      BY <1>3 DEF Top
    <3>2. Elements(Top.names) = {}
      BY <1>1, <3>1 DEF FrameInv, Elements
    <3>3. Makes(me) => TasksOf(me) # {}
      BY <1>1, <3>1 DEF FrameInv, MadeBy, Makes
    <3>4. IsCommand(me) => \A y \in Elements(project[me].dependencies) : Waits(me, y)
      BY <1>1, <3>1, <3>2 DEF FrameInv
    <3> QED
      BY <1>16, <1>17, <2>2, <3>3, <3>4
  <2> QED
    BY <1>10, <2>1, <2>2
<1>21. SequenceInv'
  <2>1. \A g \in Ids : InSequence(g)' /\ Started(g)' => \A h \in Ids : h < g => gens'[h].posted
    BY <1>9, <1>10, <1>11 DEF SequenceInv
  <2>2. \A g \in Members : g \in Ids
    BY DEF Members
  <2>3. IF prev' = 0 THEN \A g \in Members : ~Passed(g)'
        ELSE prev' \in Members /\ Passed(prev)' /\ \A g \in Members : Passed(g)' => g <= prev'
    <3>1. PICK p : p = prev
      OBVIOUS
    <3>2. p # 0 => p \in Members /\ Passed(p) /\ (Passed(p)' <=> Passed(p))
      BY <1>12, <2>2, <3>1 DEF SequenceInv
    <3> QED
      BY <1>1, <1>12, <2>2, <3>1, <3>2 DEF SequenceInv
  <2> QED
    BY <1>1, <1>9, <1>12, <1>16, <2>1, <2>2, <2>3 DEF SequenceInv
<1> QED
  BY <1>9, <1>13, <1>14, <1>15, <1>19, <1>20, <1>21

------------------------------------------------------------------------------
(* ----- what the methods do to the tasks and to the generators ----- *)

LEMMA GrowSame ==
  ASSUME TasksInv, NEW g, tasks' = tasks
  PROVE  Grow(g) /\ \A y : TasksOf(y)' = TasksOf(y)
BY DEF TasksInv, Grow, TasksOf

LEMMA GrowMore ==
  ASSUME TasksInv, NEW g, NEW new, IsSeq(new), tasks' = tasks \o new,
         \A i \in DOMAIN new : {"gen", "after"} \subseteq DOMAIN new[i] /\ new[i].gen = g
  PROVE  Grow(g) /\ (new # <<>> => TasksOf(g)' # {}) /\ (new = <<>> => tasks' = tasks)
<1>1. PICK old : old = tasks
  OBVIOUS
<1>2. PICK all : all = tasks'
  OBVIOUS
<1> DEFINE S == Elements(old) \cup Elements(new)
<1>3. old \in Seq(S) /\ new \in Seq(S)
  <2>1. old \in Seq(Elements(old)) /\ new \in Seq(Elements(new))
    BY <1>1 DEF IsSeq, TasksInv
  <2>2. /\ Len(old) \in Nat /\ DOMAIN old = 1..Len(old) /\ old = [i \in 1..Len(old) |-> old[i]]
        /\ Len(new) \in Nat /\ DOMAIN new = 1..Len(new) /\ new = [i \in 1..Len(new) |-> new[i]]
    BY <1>1, SeqShape DEF TasksInv
  <2>3. \A i \in 1..Len(old) : old[i] \in S
    BY <2>2 DEF Elements
  <2>4. \A i \in 1..Len(new) : new[i] \in S
    BY <2>2 DEF Elements
  <2> HIDE DEF S
  <2>5. ASSUME NEW s, NEW n \in Nat, s = [i \in 1..n |-> s[i]], \A i \in 1..n : s[i] \in S
        PROVE  s \in Seq(S)
    <3>1. s \in [1..n -> S]
      BY <2>5
    <3> QED
      BY <3>1
  <2> QED
    BY <2>2, <2>3, <2>4, <2>5
<1> HIDE DEF S
<1>4. /\ all = old \o new /\ all \in Seq(S)
      /\ Len(old) \in Nat /\ Len(new) \in Nat /\ Len(all) = Len(old) + Len(new)
      /\ DOMAIN old = 1..Len(old) /\ DOMAIN new = 1..Len(new)
  BY <1>1, <1>2, <1>3
<1>5. /\ \A i \in 1..Len(old) : all[i] = old[i]
      /\ \A i \in (Len(old) + 1)..(Len(old) + Len(new)) : all[i] = new[i - Len(old)] /\ i - Len(old) \in 1..Len(new)
  BY <1>3, <1>4
<1>6. DOMAIN all = 1..(Len(old) + Len(new)) /\ all = [i \in 1..(Len(old) + Len(new)) |-> all[i]]
  <2>1. all \in Seq(S)
    BY <1>4
  <2>2. Len(all) \in Nat /\ DOMAIN all = 1..Len(all) /\ all = [i \in 1..Len(all) |-> all[i]]
    BY <2>1
  <2> QED
    BY <1>4, <2>2
<1>7. IsSeq(all)
  BY <1>4, <1>6, SeqFrom
<1>8. \A t \in DOMAIN all : \/ t \in DOMAIN old /\ all[t] = old[t]
                            \/ t \notin DOMAIN old /\ {"gen", "after"} \subseteq DOMAIN all[t] /\ all[t].gen = g
  <2> SUFFICES ASSUME NEW t \in DOMAIN all
               PROVE  \/ t \in DOMAIN old /\ all[t] = old[t]
                      \/ t \notin DOMAIN old /\ {"gen", "after"} \subseteq DOMAIN all[t] /\ all[t].gen = g
    OBVIOUS
  <2>1. CASE t \in 1..Len(old)
    BY <1>4, <1>5, <2>1
  <2>2. CASE t \in (Len(old) + 1)..(Len(old) + Len(new))
    <3>1. all[t] = new[t - Len(old)] /\ t - Len(old) \in DOMAIN new
      BY <1>4, <1>5, <2>2
    <3>2. t \notin DOMAIN old
      BY <1>4, <2>2
    <3> QED
      BY <3>1, <3>2
  <2> QED
    BY <1>4, <1>6, <2>1, <2>2
<1>9. DOMAIN old \subseteq DOMAIN all
  BY <1>4, <1>6
<1>10. Grow(g)
  BY <1>1, <1>2, <1>7, <1>8, <1>9 DEF Grow, TasksInv
<1>11. ASSUME new # <<>> PROVE TasksOf(g)' # {}
  <2>1. Len(new) > 0
    BY <1>3, <1>4, <1>11
  <2>2. Len(old) + 1 \in DOMAIN all /\ Len(old) + 1 \notin DOMAIN old
    BY <1>4, <1>6, <2>1
  <2>3. all[Len(old) + 1].gen = g
    BY <1>8, <2>2
  <2> QED
    BY <1>2, <2>2, <2>3 DEF TasksOf
<1>12. new = <<>> => all = old
  BY <1>3, <1>4
<1> QED
  BY <1>1, <1>2, <1>10, <1>11, <1>12

LEMMA GrowOne ==
  ASSUME TasksInv, NEW g, NEW x, {"gen", "after"} \subseteq DOMAIN x, x.gen = g,
         tasks' = Append(tasks, x)
  PROVE  Grow(g) /\ TasksOf(g)' # {}
<1>1. PICK new : new = <<x>>
  OBVIOUS
<1>2. new = [i \in 1..1 |-> new[i]] /\ DOMAIN new = 1..1 /\ new # <<>> /\ new[1] = x
  BY <1>1
<1>3. IsSeq(new)
  BY <1>2, SeqFrom
<1>4. tasks' = tasks \o new
  <2>1. PICK old : old = tasks
    OBVIOUS
  <2>2. old \in Seq(Elements(old)) /\ Len(old) \in Nat
    BY <2>1, SeqShape DEF TasksInv, IsSeq
  <2>3. Append(old, x) = old \o <<x>>
    <3> DEFINE S == Elements(old) \cup {x}
    <3>1. old \in Seq(S)
      BY <2>2
    <3> QED
      BY <3>1
  <2> QED
    BY <1>1, <2>1, <2>3
<1>5. \A i \in DOMAIN new : {"gen", "after"} \subseteq DOMAIN new[i] /\ new[i].gen = g
  BY <1>2
<1> QED
  BY <1>2, <1>3, <1>4, <1>5, GrowMore

\* Tasks that are changed keep their generator and what they wait for.
LEMMA GrowChanged ==
  ASSUME TasksInv, NEW g, tasks' = [t \in DOMAIN tasks |-> tasks'[t]],
         \A t \in DOMAIN tasks : /\ {"gen", "after"} \subseteq DOMAIN tasks'[t]
                                 /\ tasks'[t].gen = tasks[t].gen
                                 /\ tasks[t].after \subseteq tasks'[t].after
  PROVE  Grow(g) /\ \A y : TasksOf(y)' = TasksOf(y)
<1>1. Len(tasks) \in Nat /\ DOMAIN tasks = 1..Len(tasks)
  BY SeqShape DEF TasksInv
<1>2. PICK all : all = tasks'
  OBVIOUS
<1>3. PICK n \in Nat : n = Len(tasks)
  BY <1>1
<1>4. all = [t \in 1..n |-> all[t]]
  BY <1>1, <1>2, <1>3
<1>5. IsSeq(all) /\ DOMAIN all = 1..n
  BY <1>4, SeqFrom
<1> QED
  BY <1>1, <1>2, <1>3, <1>5 DEF Grow, TasksOf

\* Of one task, something that it is or has is changed.
LEMMA GrowInputs ==
  ASSUME TasksInv, NEW g, NEW k, NEW inputs, tasks' = [tasks EXCEPT ![k].inputs = inputs]
  PROVE  Grow(g) /\ \A y : TasksOf(y)' = TasksOf(y)
<1>1. \A t \in DOMAIN tasks : tasks'[t] = IF t = k THEN [tasks[t] EXCEPT !.inputs = inputs] ELSE tasks[t]
  BY DEF TasksInv
<1>2. tasks' = [t \in DOMAIN tasks |-> tasks'[t]]
  OBVIOUS
<1>3. \A t \in DOMAIN tasks : /\ {"gen", "after"} \subseteq DOMAIN tasks'[t]
                              /\ tasks'[t].gen = tasks[t].gen
                              /\ tasks[t].after \subseteq tasks'[t].after
  BY <1>1 DEF TasksInv
<1> QED
  BY <1>2, <1>3, GrowChanged

LEMMA GrowAfter ==
  ASSUME TasksInv, NEW g, NEW k, NEW more, tasks' = [tasks EXCEPT ![k].after = @ \cup more]
  PROVE  Grow(g) /\ \A y : TasksOf(y)' = TasksOf(y)
<1>1. \A t \in DOMAIN tasks :
        tasks'[t] = IF t = k THEN [tasks[t] EXCEPT !.after = @ \cup more] ELSE tasks[t]
  BY DEF TasksInv
<1>2. tasks' = [t \in DOMAIN tasks |-> tasks'[t]]
  OBVIOUS
<1>3. \A t \in DOMAIN tasks : /\ {"gen", "after"} \subseteq DOMAIN tasks'[t]
                              /\ tasks'[t].gen = tasks[t].gen
                              /\ tasks[t].after \subseteq tasks'[t].after
  BY <1>1 DEF TasksInv
<1> QED
  BY <1>2, <1>3, GrowChanged

LEMMA GrowAfterAll ==
  ASSUME TasksInv, NEW g, NEW h, NEW more,
         tasks' = [t \in DOMAIN tasks |-> IF tasks[t].gen # h THEN tasks[t]
                                          ELSE [tasks[t] EXCEPT !.after = @ \cup more]]
  PROVE  /\ Grow(g) /\ \A y : TasksOf(y)' = TasksOf(y)
         /\ \A t \in TasksOf(h) : more \subseteq tasks'[t].after
<1>1. \A t \in DOMAIN tasks :
        tasks'[t] = IF tasks[t].gen # h THEN tasks[t] ELSE [tasks[t] EXCEPT !.after = @ \cup more]
  OBVIOUS
<1>2. tasks' = [t \in DOMAIN tasks |-> tasks'[t]]
  OBVIOUS
<1>3. \A t \in DOMAIN tasks : /\ {"gen", "after"} \subseteq DOMAIN tasks'[t]
                              /\ tasks'[t].gen = tasks[t].gen
                              /\ tasks[t].after \subseteq tasks'[t].after
  BY <1>1 DEF TasksInv
<1>4. \A t \in TasksOf(h) : more \subseteq tasks'[t].after
  BY <1>1 DEF TasksOf, TasksInv
<1> QED
  BY <1>2, <1>3, <1>4, GrowChanged

LEMMA TaskIs ==
  ASSUME NEW g, NEW class, NEW inputs, NEW outputs
  PROVE  LET x == Task(g, class, inputs, outputs)
         IN  {"gen", "after"} \subseteq DOMAIN x /\ x.gen = g
BY DEF Task

LEMMA OnlyMineSame ==
  ASSUME GensInv, NEW g \in Ids, gens' = gens
  PROVE  OnlyMine(g)
BY DEF GensInv, OnlyMine

\* A generator whose variables are changed, but for posted.
LEMMA OnlyMineChanged ==
  ASSUME GensInv, NEW g \in Ids, NEW new, gens' = [gens EXCEPT ![g] = new],
         "posted" \in DOMAIN new, new.posted = gens[g].posted
  PROVE  OnlyMine(g)
BY DEF GensInv, OnlyMine

LEMMA AllMethodsAre ==
  AllMethods = {"apply_core", "exec_rule", "default_cc", "add_extra_flags", "apply_type_vars",
                "apply_lib_vars", "apply_incpaths", "init_cc", "apply_obj_vars_cc", "apply_defines_cc",
                "init_cxx", "apply_obj_vars_cxx", "apply_defines_cxx", "apply_verif", "apply_link",
                "default_link_install", "apply_objdeps", "apply_obj_vars", "vars_target_cprogram",
                "vars_target_cshlib", "apply_implib", "apply_vnum", "init_cmd_output",
                "apply_cmd_output", "apply_subst", "apply_copy", "sequence_order", "process_obj_files"}
<1> DEFINE c == {"default_cc", "add_extra_flags", "apply_type_vars", "apply_lib_vars", "apply_incpaths"}
<1> DEFINE link == {"apply_verif", "apply_link", "default_link_install", "apply_objdeps", "apply_obj_vars"}
<1>1. /\ Traits["cc"] = c \cup {"init_cc", "apply_obj_vars_cc", "apply_defines_cc"}
      /\ Traits["cxx"] = c \cup {"init_cxx", "apply_obj_vars_cxx", "apply_defines_cxx"}
      /\ Traits["cprogram"] = link \cup {"vars_target_cprogram"}
      /\ Traits["cshlib"] = link \cup {"vars_target_cshlib", "apply_implib", "apply_vnum"}
      /\ Traits["cstaticlib"] = link
      /\ Traits["subst"] = {"apply_subst"} /\ Traits["copy"] = {"apply_copy"}
  BY DEF Traits
<1>2. \A m : m \in UNION {Traits[x] : x \in DOMAIN Traits} <=> \E x \in DOMAIN Traits : m \in Traits[x]
  OBVIOUS
<1>3. \A m : m \in AllMethods <=> m = "process_obj_files" \/ \E x \in DOMAIN Traits : m \in Traits[x]
  BY <1>2 DEF AllMethods
<1>4. \A m : (\E x \in DOMAIN Traits : m \in Traits[x]) <=>
         \/ m \in Traits["cc"] \/ m \in Traits["cxx"] \/ m \in Traits["cprogram"] \/ m \in Traits["cshlib"]
         \/ m \in Traits["cstaticlib"] \/ m \in Traits["command"] \/ m \in Traits["subst"]
         \/ m \in Traits["copy"] \/ m \in Traits["seq"] \/ m \in Traits["always"]
  BY TraitsAre
<1> QED
  BY <1>1, <1>3, <1>4, TraitsAre

------------------------------------------------------------------------------
(* ----- a method runs ----- *)

LEMMA EnvChanged ==
  ASSUME GensInv, NEW g \in Ids, NEW e, gens' = [gens EXCEPT ![g].env = e]
  PROVE  OnlyMine(g)
<1>1. gens' = [gens EXCEPT ![g] = [gens[g] EXCEPT !.env = e]]
  OBVIOUS
<1> QED
  BY <1>1 DEF GensInv, OnlyMine

LEMMA OnlyEnvIs ==
  ASSUME GenInv, NEW me \in Ids, me = G, NEW m, OnlyEnv(m)
  PROVE  tasks' = tasks /\ OnlyMine(me)
<1> USE DEF GenInv
<1>1. tasks' = tasks
  BY DEF OnlyEnv
<1>3. \A e : SetEnv(e) => OnlyMine(me)
  BY EnvChanged DEF SetEnv
<1>4. Me = gens[me]
  BY DEF Me
<1>5. CASE Init_cc(m)
  <2>1. PICK a, b, c : gens' = [gens EXCEPT ![me].type_vars = a, ![me].flag_vars = b, ![me].mappings = c]
    BY <1>5 DEF Init_cc
  <2> QED
    BY <1>1, <2>1 DEF GensInv, OnlyMine
<1>6. CASE ApplyTypeVars
  <2>1. PICK a, b : gens' = [gens EXCEPT ![me].env = a, ![me].uselib = b]
    BY <1>6 DEF ApplyTypeVars
  <2> QED
    BY <1>1, <2>1 DEF GensInv, OnlyMine
<1>7. CASE AddExtraFlags \/ ApplyIncpaths \/ ApplyObjVars \/ ApplyIncFlags(m) \/ ApplyDefines(m)
  BY <1>1, <1>3, <1>7 DEF AddExtraFlags, ApplyIncpaths, ApplyObjVars, ApplyIncFlags, ApplyDefines
<1> QED
  BY <1>5, <1>6, <1>7 DEF OnlyEnv

\* A list of tasks is added, one for each element of s, made for g.
AddsEach(g, s, new) ==
  /\ IsSeq(s) /\ new = [i \in DOMAIN s |-> new[i]] /\ tasks' = tasks \o new
  /\ \A i \in DOMAIN s : {"gen", "after"} \subseteq DOMAIN new[i] /\ new[i].gen = g

LEMMA GrowEach ==
  ASSUME TasksInv, NEW g, NEW s, NEW new, AddsEach(g, s, new)
  PROVE  Grow(g) /\ (s # <<>> => TasksOf(g)' # {}) /\ (s = <<>> => tasks' = tasks)
<1> USE DEF AddsEach
<1>1. Len(s) \in Nat /\ DOMAIN s = 1..Len(s) /\ s = [i \in 1..Len(s) |-> s[i]]
  BY SeqShape
<1>2. IsSeq(new) /\ DOMAIN new = DOMAIN s /\ Len(new) = Len(s)
  BY <1>1, SeqFrom
<1>3. new = <<>> <=> s = <<>>
  <2>1. s = <<>> => DOMAIN new = {}
    BY <1>2
  <2>2. new = <<>> => DOMAIN s = {}
    BY <1>2
  <2>3. s \in Seq(Elements(s)) /\ new \in Seq(Elements(new))
    BY <1>2 DEF IsSeq
  <2>4. DOMAIN s = {} => s = <<>>
    BY <2>3
  <2>5. DOMAIN new = {} => new = <<>>
    BY <2>3
  <2> QED
    BY <2>1, <2>2, <2>4, <2>5
<1> QED
  BY <1>2, <1>3, GrowMore

LEMMA EffectIs ==
  ASSUME GenInv, NEW me \in Ids, me = G, NEW m, Effect(m)
  PROVE  /\ Grow(me) /\ OnlyMine(me)
         /\ (m = "exec_rule" /\ project[me].rule) \/ m = "apply_link"
              \/ (m \in {"apply_core", "apply_subst", "apply_copy"} /\ project[me].source # <<>>)
              => TasksOf(me)' # {}
         /\ (m \in {"init_cmd_output", "process_obj_files", "sequence_order"} \/ (m = "exec_rule" /\ ~project[me].rule)
              \/ (m = "apply_core" /\ project[me].source = <<>>))
              => TasksOf(me)' = TasksOf(me)
<1> USE DEF GenInv
<1>1. Me = gens[me] /\ It = project[me]
  BY DEF Me, It
<1>2. IsSeq(project[me].source)
  BY DEF WellFormed
<1>3. gens' = gens => OnlyMine(me)
  BY OnlyMineSame
<1>4. CASE m = "apply_core" /\ ApplyCore
  <2>1. PICK new : /\ new = [i \in DOMAIN project[me].source |->
                               Task(me, Hook(project[me].source[i]), <<SourceNode(project[me].source[i])>>,
                                    <<Object(me, project[me].source[i])>>)]
                   /\ tasks' = tasks \o new
                   /\ gens' = [gens EXCEPT ![me].compiled = @ \o Created(new)]
    BY <1>1, <1>4 DEF ApplyCore
  <2>2. \A i \in DOMAIN project[me].source : {"gen", "after"} \subseteq DOMAIN new[i] /\ new[i].gen = me
    BY <2>1, TaskIs
  <2>3. OnlyMine(me)
    <3>1. PICK c : gens' = [gens EXCEPT ![me].compiled = c]
      BY <2>1
    <3> QED
      BY <3>1 DEF GensInv, OnlyMine
  <2>4. new = [i \in DOMAIN project[me].source |-> new[i]]
    BY <2>1
  <2>5. /\ Grow(me) /\ (project[me].source # <<>> => TasksOf(me)' # {})
        /\ project[me].source = <<>> => tasks' = tasks
    <3>1. PICK s : s = project[me].source
      OBVIOUS
    <3>2. TasksInv /\ AddsEach(me, s, new)
      BY <1>2, <2>1, <2>2, <2>4, <3>1 DEF AddsEach
    <3>3. Grow(me) /\ (s # <<>> => TasksOf(me)' # {}) /\ (s = <<>> => tasks' = tasks)
      BY <3>2, GrowEach
    <3> QED
      BY <3>1, <3>3
  <2> QED
    BY <1>4, <2>3, <2>5, GrowSame
<1>5. CASE m = "apply_link" /\ ApplyLink
  <2>1. PICK kind, inputs : tasks' = Append(tasks, Task(me, kind, inputs, <<Target(me)>>))
    BY <1>1, <1>5 DEF ApplyLink
  <2>2. PICK l : gens' = [gens EXCEPT ![me].link = l]
    BY <1>1, <1>5 DEF ApplyLink
  <2>3. OnlyMine(me)
    BY <2>2 DEF GensInv, OnlyMine
  <2> QED
    BY <1>5, <2>1, <2>3, GrowOne, TaskIs
<1>6. CASE m = "exec_rule" /\ ExecRule
  <2>1. gens' = gens
    BY <1>6 DEF ExecRule
  <2>2. CASE project[me].rule
    <3>1. PICK inputs : tasks' = Append(tasks, Task(me, "rule", inputs, <<Target(me)>>))
      BY <1>1, <1>6, <2>2 DEF ExecRule
    <3> QED
      BY <1>3, <1>6, <2>1, <2>2, <3>1, GrowOne, TaskIs
  <2>3. CASE ~project[me].rule
    <3>1. tasks' = tasks
      BY <1>1, <1>6, <2>3 DEF ExecRule
    <3> QED
      BY <1>3, <1>6, <2>1, <2>3, <3>1, GrowSame
  <2> QED
    BY <2>2, <2>3
<1>7. CASE m \in {"apply_subst", "apply_copy"} /\ ApplyEach
  <2>1. PICK new : /\ new = [i \in DOMAIN project[me].source |->
                               Task(me, "copy", <<SourceNode(project[me].source[i])>>,
                                    <<Object(me, project[me].source[i])>>)]
                   /\ tasks' = tasks \o new /\ gens' = gens
    BY <1>1, <1>7 DEF ApplyEach
  <2>2. \A i \in DOMAIN project[me].source : {"gen", "after"} \subseteq DOMAIN new[i] /\ new[i].gen = me
    BY <2>1, TaskIs
  <2>3. new = [i \in DOMAIN project[me].source |-> new[i]]
    BY <2>1
  <2>4. Grow(me) /\ (project[me].source # <<>> => TasksOf(me)' # {})
    <3>1. PICK s : s = project[me].source
      OBVIOUS
    <3>2. TasksInv /\ AddsEach(me, s, new)
      BY <1>2, <2>1, <2>2, <2>3, <3>1 DEF AddsEach
    <3>3. Grow(me) /\ (s # <<>> => TasksOf(me)' # {})
      BY <3>2, GrowEach
    <3> QED
      BY <3>1, <3>3
  <2> QED
    BY <1>3, <1>7, <2>1, <2>4
<1>8. CASE m = "process_obj_files" /\ ProcessObjFiles
  <2>1. PICK k, inputs : tasks' = [tasks EXCEPT ![k].inputs = inputs]
    BY <1>8 DEF ProcessObjFiles
  <2>2. gens' = gens
    BY <1>8 DEF ProcessObjFiles
  <2> QED
    BY <1>3, <1>8, <2>1, <2>2, GrowInputs
<1>9. CASE m = "default_link_install" /\ DefaultLinkInstall
  BY <1>3, <1>9, GrowSame DEF DefaultLinkInstall
<1>10. CASE m = "apply_vnum" /\ ApplyVnum
  <2>1. CASE project[me].vnum
    <3>1. PICK inputs, outputs : tasks' = Append(tasks, Task(me, "vnum", inputs, outputs))
      BY <1>1, <1>10, <2>1 DEF ApplyVnum
    <3>2. PICK e : gens' = [gens EXCEPT ![me].env = e]
      BY <1>1, <1>10, <2>1 DEF ApplyVnum, SetEnv
    <3> QED
      <4>1. Grow(me)
        BY <3>1, GrowOne, TaskIs
      <4>2. OnlyMine(me)
        BY <3>2, EnvChanged
      <4> QED
        BY <1>10, <4>1, <4>2
  <2>2. CASE ~project[me].vnum
    BY <1>1, <1>3, <1>10, <2>2, GrowSame DEF ApplyVnum
  <2> QED
    BY <2>1, <2>2
<1>11. CASE m = "sequence_order" /\ SequenceOrder
  <2>1. gens' = gens
    BY <1>11 DEF SequenceOrder
  <2>2. CASE tasks' = tasks
    BY <1>3, <1>11, <2>1, <2>2, GrowSame
  <2>3. CASE tasks' # tasks
    <3>1. PICK more : tasks' = [t \in DOMAIN tasks |-> IF tasks[t].gen # me THEN tasks[t]
                                     ELSE [tasks[t] EXCEPT !.after = @ \cup more]]
      BY <1>11, <2>3 DEF SequenceOrder
    <3> QED
      BY <1>3, <1>11, <2>1, <3>1, GrowAfterAll
  <2> QED
    BY <2>2, <2>3
<1>12. CASE m \in Nothing /\ UNCHANGED <<gens, tasks, installs>>
  <2>1. m \notin {"exec_rule", "apply_link", "apply_core", "apply_subst", "apply_copy"}
    BY <1>12 DEF Nothing
  <2> QED
    BY <1>3, <1>12, <2>1, GrowSame
<1>13. CASE OnlyEnv(m)
  <2>1. m \notin {"exec_rule", "apply_link", "apply_core", "apply_subst", "apply_copy"}
    BY <1>13 DEF OnlyEnv, CFlags, IncFlags, DefFlags
  <2> QED
    BY <1>13, <2>1, OnlyEnvIs, GrowSame
<1> QED
  BY <1>4, <1>5, <1>6, <1>7, <1>8, <1>9, <1>10, <1>11, <1>12, <1>13 DEF Effect

TopStep == \E X : GoOn(X) /\ FrameInv(X)'

LEMMA RemovesAre ==
  ASSUME NEW m
  PROVE  /\ Removes(m) \subseteq {"apply_core", "default_link_install"}
         /\ "apply_core" \in Removes(m) => (m = "exec_rule" /\ It.rule) \/ m \in {"apply_subst", "apply_copy"}
<1>1. CASE m = "exec_rule" /\ It.rule
  BY <1>1 DEF Removes
<1>2. CASE m \in {"apply_subst", "apply_copy"}
  BY <1>2 DEF Removes
<1>3. CASE m = "apply_vnum" /\ It.vnum
  BY <1>3 DEF Removes
<1>4. CASE /\ ~(m = "exec_rule" /\ It.rule) /\ m \notin {"apply_subst", "apply_copy"}
           /\ ~(m = "apply_vnum" /\ It.vnum)
  BY <1>4 DEF Removes
<1> QED
  BY <1>1, <1>2, <1>3, <1>4

\* What the top waits for it goes on to wait for, if it makes no more tasks.
LEMMA MineWait ==
  ASSUME GenInv, NEW me \in Ids, Grow(me), OnlyMine(me), ~gens[me].posted, TasksOf(me)' = TasksOf(me),
         NEW y \in Elements(project[me].dependencies), Waits(me, y)
  PROVE  Waits(me, y)'
<1>1. y \in Ids
  BY ElementsIn DEF GenInv, WellFormed
<1>2. gens'[y].posted = gens[y].posted
  BY <1>1 DEF OnlyMine, GenInv, GensInv
<1> QED
  BY <1>2, WaitsKept

LEMMA RunMethodGoesOn ==
  ASSUME GenInv, NEW m \in AllMethods, RunMethod(m)
  PROVE  TopStep
<1> USE DEF GenInv
<1>1. /\ stack # <<>> /\ Top.method = "none" /\ m \in Top.todo /\ m \notin Calls /\ project' = project
      /\ m = "sequence_order" => Top.todo = {m}
      /\ m # "sequence_order" => prev' = prev
  BY DEF RunMethod, Ready
<1>2. PICK me : me = G
  OBVIOUS
<1>3. me \in Ids /\ Top \in FrameSet /\ Top.gen = me /\ ~gens[me].posted /\ FrameInv(Top)
  BY <1>1, <1>2, TopIs DEF G, Top
<1>4. It = project[me] /\ project[me].rule \in BOOLEAN
  BY <1>2, <1>3 DEF It, WellFormed
<1>5. PICK X : X = [Top EXCEPT !.todo = @ \ {m}, !.removed = @ \cup (Removes(m) \cap Top.todo)]
  OBVIOUS
<1>6. /\ X \in FrameSet /\ X.gen = me /\ X.todo = Top.todo \ {m} /\ X.method = "none" /\ X.names = Top.names
      /\ X.removed \subseteq Top.removed \cup Removes(m)
  BY <1>1, <1>3, <1>5 DEF FrameSet
<1>7. stack' = <<X>> \o Tail(stack)
  BY <1>5 DEF RunMethod
<1>8. m \in Top.removed => UNCHANGED <<gens, tasks, installs>>
  BY DEF RunMethod
<1>9. m \notin Top.removed => Effect(m)
  BY DEF RunMethod
<1>10. m \in Top.removed => m \in {"apply_core", "default_link_install"}
  BY <1>3 DEF FrameInv
<1>11. Grow(me) /\ OnlyMine(me)
  <2>1. CASE m \in Top.removed
    BY <1>3, <1>8, <2>1, GrowSame, OnlyMineSame
  <2>2. CASE m \notin Top.removed
    BY <1>2, <1>3, <1>9, <2>2, EffectIs
  <2> QED
    BY <2>1, <2>2
<1>12. TasksOf(me) \subseteq TasksOf(me)'
  BY <1>11, TasksKept
<1>13. GoOn(X)
  <2>1. CASE m = "sequence_order"
    <3>1. SequenceOrder
      BY <1>9, <1>10, <2>1 DEF Effect, OnlyEnv, Nothing, CFlags, IncFlags, DefFlags
    <3>2. InSequence(me)
      BY <1>1, <1>3, <2>1, KeysOf DEF FrameInv
    <3> QED
      BY <1>1, <1>2, <1>6, <1>7, <1>11, <2>1, <3>1, <3>2 DEF GoOn
  <2>2. CASE m # "sequence_order"
    BY <1>1, <1>2, <1>6, <1>7, <1>11, <2>2 DEF GoOn
  <2> QED
    BY <2>1, <2>2
<1>14. ASSUME TasksOf(me)' = {}
       PROVE  /\ ~(m = "exec_rule" /\ project[me].rule) /\ m # "apply_link"
              /\ ~(m = "apply_core" /\ m \notin Top.removed /\ project[me].source # <<>>)
              /\ ~(m \in {"apply_subst", "apply_copy"} /\ project[me].source # <<>>)
  BY <1>2, <1>3, <1>9, <1>10, <1>14, EffectIs
<1>15. MadeBy(me, X.todo, X.removed)'
  <2> SUFFICES ASSUME TasksOf(me)' = {}
               PROVE  /\ project[me].rule => "exec_rule" \in X.todo
                      /\ project[me].source # <<>> => "apply_core" \in X.todo /\ "apply_core" \notin X.removed
                      /\ IsCommand(me) => "apply_cmd_output" \in X.todo
                      /\ Linked(me) => "apply_link" \in X.todo
    BY <1>1, Declared DEF MadeBy
  <2>1. /\ project[me].rule => "exec_rule" \in Top.todo
        /\ project[me].source # <<>> => "apply_core" \in Top.todo /\ "apply_core" \notin Top.removed
        /\ IsCommand(me) => "apply_cmd_output" \in Top.todo
        /\ Linked(me) => "apply_link" \in Top.todo
    BY <1>3, <1>12 DEF FrameInv, MadeBy
  <2>2. project[me].rule => "exec_rule" \in X.todo
    BY <1>6, <1>14, <2>1
  <2>3. ASSUME project[me].source # <<>>
        PROVE  "apply_core" \in X.todo /\ "apply_core" \notin X.removed
    <3>1. "apply_core" \notin Removes(m)
      BY <1>4, <1>14, <2>3, RemovesAre
    <3> QED
      BY <1>6, <1>14, <2>1, <2>3, <3>1
  <2>4. IsCommand(me) => "apply_cmd_output" \in X.todo
    BY <1>1, <1>6, <2>1 DEF Calls
  <2>5. Linked(me) => "apply_link" \in X.todo
    BY <1>6, <1>14, <2>1
  <2> QED
    BY <2>2, <2>3, <2>4, <2>5
<1>16. ASSUME IsCommand(me) PROVE TasksOf(me)' = TasksOf(me)
  <2>1. CASE m \in Top.removed
    BY <1>8, <2>1 DEF TasksOf
  <2>2. CASE m \notin Top.removed
    <3>1. m \in {"apply_core", "exec_rule", "init_cmd_output", "sequence_order", "process_obj_files"}
      BY <1>1, <1>3, <1>16, KeysOf DEF FrameInv, Calls
    <3>2. ~project[me].rule /\ project[me].source = <<>>
      BY <1>3, <1>16 DEF WellFormed
    <3> QED
      BY <1>2, <1>3, <1>9, <2>2, <3>1, <3>2, EffectIs
  <2> QED
    BY <2>1, <2>2
<1>17. FrameInv(X)'
  <2>1. X.todo \subseteq Keys(me)
    BY <1>3, <1>6 DEF FrameInv
  <2>2. X.names = <<>> /\ Elements(X.names) = {}
    BY <1>1, <1>3, <1>6 DEF FrameInv, Elements
  <2>3. X.removed \subseteq {"apply_core", "default_link_install"}
    BY <1>3, <1>6, RemovesAre DEF FrameInv
  <2>4. IsCommand(me) =>
          IF "apply_cmd_output" \in X.todo THEN TasksOf(me)' = {}
          ELSE \A y \in Elements(project[me].dependencies) : Waits(me, y)'
    <3> SUFFICES ASSUME IsCommand(me)
                 PROVE  IF "apply_cmd_output" \in X.todo THEN TasksOf(me)' = {}
                        ELSE \A y \in Elements(project[me].dependencies) : Waits(me, y)'
      OBVIOUS
    <3>1. "apply_cmd_output" \in X.todo <=> "apply_cmd_output" \in Top.todo
      BY <1>1, <1>6 DEF Calls
    <3>2. IF "apply_cmd_output" \in Top.todo THEN TasksOf(me) = {}
          ELSE \A y \in Elements(project[me].dependencies) : y \in Elements(Top.names) \/ Waits(me, y)
      BY <1>3 DEF FrameInv
    <3> QED
      BY <1>3, <1>6, <1>11, <1>16, <2>2, <3>1, <3>2, MineWait
  <2>5. InSequence(me) /\ "sequence_order" \notin X.todo => X.todo = {}
    BY <1>1, <1>3, <1>6 DEF FrameInv
  <2> QED
    BY <1>1, <1>6, <1>15, <2>1, <2>2, <2>3, <2>4, <2>5, Declared DEF FrameInv
<1> QED
  BY <1>13, <1>17 DEF TopStep

------------------------------------------------------------------------------
(* ----- the methods that post other generators ----- *)

LEMMA RankIs ==
  ASSUME WellFormed
  PROVE  /\ Rank \in [Ids -> 0..Len(project)] /\ Len(project) \in Nat
         /\ \A g \in Ids : \A y \in Uses(g) : Rank[y] < Rank[g]
         /\ \A g \in Ids : Rank[g] \in Nat
<1>1. Len(project) \in Nat
  BY SeqShape DEF WellFormed
<1>2. Rank \in Ranks
  BY DEF WellFormed, Rank
<1>3. Rank \in [Ids -> 0..Len(project)] /\ \A g \in Ids : \A y \in Uses(g) : Rank[y] < Rank[g]
  BY <1>2 DEF Ranks
<1> QED
  BY <1>1, <1>3

LEMMA UsesBelow ==
  ASSUME WellFormed, NEW g \in Ids, NEW y \in Uses(g)
  PROVE  y \in Ids /\ Rank[y] < Rank[g] /\ ~InSequence(y)
<1>1. y \in Ids
  BY ElementsIn DEF WellFormed, Uses
<1> QED
  BY <1>1, RankIs DEF WellFormed

\* What a generator below another uses is below it too.
LEMMA UsesFurtherBelow ==
  ASSUME WellFormed, NEW me \in Ids, NEW y \in Ids, Rank[y] < Rank[me], NEW z \in Uses(y)
  PROVE  z \in Ids /\ Rank[z] < Rank[me] /\ ~InSequence(z)
<1>1. z \in Ids /\ Rank[z] < Rank[y] /\ ~InSequence(z)
  BY UsesBelow
<1>2. Rank[z] \in Nat /\ Rank[y] \in Nat /\ Rank[me] \in Nat
  BY <1>1, RankIs
<1> QED
  BY <1>1, <1>2

LEMMA NamesAre ==
  ASSUME WellFormed, NEW m \in Calls, G \in Ids
  PROVE  /\ Names(m) \in Seq(Ids) /\ Elements(Names(m)) \subseteq Uses(G)
         /\ m = "apply_cmd_output" => Names(m) = project[G].dependencies
<1>1. It = project[G]
  BY DEF It
<1>2. /\ m = "apply_lib_vars" => Names(m) = It.uselib_local
      /\ m = "apply_objdeps" => Names(m) = It.add_objects
      /\ m = "apply_cmd_output" => Names(m) = It.dependencies
  BY DEF Names
<1> QED
  BY <1>1, <1>2 DEF Calls, Uses, WellFormed

LEMMA RunCallGoesOn ==
  ASSUME GenInv, NEW m \in AllMethods, RunCall(m)
  PROVE  TopStep
<1> USE DEF GenInv
<1>1. /\ stack # <<>> /\ Top.method = "none" /\ m \in Top.todo /\ m \in Calls
      /\ m = "sequence_order" => Top.todo = {m}
      /\ UNCHANGED <<project, gens, prev>>
  BY DEF RunCall, Ready
<1>2. PICK me : me = G
  OBVIOUS
<1>3. me \in Ids /\ Top \in FrameSet /\ Top.gen = me /\ FrameInv(Top)
  BY <1>1, <1>2, TopIs DEF G, Top
<1>4. PICK names : names = Names(m)
  OBVIOUS
<1>5. /\ names \in Seq(Ids) /\ Elements(names) \subseteq Uses(me)
      /\ m = "apply_cmd_output" => names = project[me].dependencies
  BY <1>1, <1>2, <1>3, <1>4, NamesAre
<1>6. PICK X : X = [Top EXCEPT !.todo = @ \ {m}, !.method = m, !.names = names]
  OBVIOUS
<1>7. /\ X \in FrameSet /\ X.gen = me /\ X.todo = Top.todo \ {m} /\ X.method = m /\ X.names = names
      /\ X.removed = Top.removed
  BY <1>1, <1>3, <1>5, <1>6 DEF FrameSet
<1>8. stack' = <<X>> \o Tail(stack)
  BY <1>4, <1>6 DEF RunCall
<1>9. /\ Grow(me)
      /\ m = "apply_cmd_output" => TasksOf(me)' # {}
  <2>1. CASE m = "apply_cmd_output"
    <3>1. PICK inputs : tasks' = Append(tasks, Task(me, "command", inputs, <<Target(me)>>))
      BY <1>2, <2>1 DEF RunCall, Command
    <3> QED
      BY <3>1, GrowOne, TaskIs
  <2>2. CASE m # "apply_cmd_output"
    <3>1. tasks' = tasks
      BY <2>2 DEF RunCall
    <3> QED
      BY <2>2, <3>1, GrowSame
  <2> QED
    BY <2>1, <2>2
<1>10. OnlyMine(me)
  BY <1>1, <1>3, OnlyMineSame
<1>11. m # "sequence_order"
  BY <1>1 DEF Calls
<1>12. GoOn(X)
  BY <1>1, <1>2, <1>7, <1>8, <1>9, <1>10, <1>11 DEF GoOn
<1>13. TasksOf(me) \subseteq TasksOf(me)'
  BY <1>9, TasksKept
<1>14. MadeBy(me, X.todo, X.removed)'
  <2> SUFFICES ASSUME TasksOf(me)' = {}
               PROVE  /\ project[me].rule => "exec_rule" \in X.todo
                      /\ project[me].source # <<>> => "apply_core" \in X.todo /\ "apply_core" \notin X.removed
                      /\ IsCommand(me) => "apply_cmd_output" \in X.todo
                      /\ Linked(me) => "apply_link" \in X.todo
    BY <1>1, Declared DEF MadeBy
  <2>1. MadeBy(me, Top.todo, Top.removed) /\ TasksOf(me) = {}
    BY <1>3, <1>13 DEF FrameInv
  <2> QED
    BY <1>1, <1>7, <1>9, <2>1 DEF MadeBy, Calls
<1>15. FrameInv(X)'
  <2>1. X.todo \subseteq Keys(me) /\ m \in Keys(me) /\ X.removed \subseteq {"apply_core", "default_link_install"}
    BY <1>1, <1>3, <1>7 DEF FrameInv
  <2>2. \A y \in Elements(X.names) : Rank[y] < Rank[me] /\ ~InSequence(y)
    BY <1>3, <1>5, <1>7, UsesBelow
  <2>3. X.method # "none"
    BY <1>1, <1>7 DEF Calls
  <2>4. IsCommand(me) => /\ "apply_cmd_output" \notin X.todo
                         /\ Elements(project[me].dependencies) = Elements(X.names)
    <3> SUFFICES ASSUME IsCommand(me)
                 PROVE  m = "apply_cmd_output"
      BY <1>5, <1>7
    <3> QED
      BY <1>1, <1>3, <2>1, KeysOf DEF Calls
  <2>5. InSequence(me) => "sequence_order" \in X.todo
    <3> SUFFICES ASSUME InSequence(me), "sequence_order" \notin Top.todo PROVE FALSE
      BY <1>7, <1>11
    <3> QED
      BY <1>1, <1>3 DEF FrameInv
  <2> QED
    BY <1>1, <1>7, <1>14, <2>1, <2>2, <2>3, <2>4, <2>5, Declared DEF FrameInv
<1> QED
  BY <1>12, <1>15 DEF TopStep

\* A method that posts others goes on, or comes back.
LEMMA SuspendedGoesOn ==
  ASSUME GenInv, stack # <<>>, Top.method \in Calls, NEW me \in Ids, me = G,
         NEW X \in FrameSet, X.gen = me, X.todo = Top.todo, X.removed = Top.removed,
         X.method \in {Top.method, "none"}, X.method = "none" => X.names = <<>>,
         \A y \in Elements(X.names) : Rank[y] < Rank[me] /\ ~InSequence(y),
         stack' = <<X>> \o Tail(stack), Grow(me), OnlyMine(me), TasksOf(me)' = TasksOf(me),
         UNCHANGED <<project, prev>>,
         IsCommand(me) =>
           \A y \in Elements(project[me].dependencies) :
             y \in Elements(Top.names) \/ Waits(me, y) => y \in Elements(X.names) \/ Waits(me, y)'
  PROVE  TopStep
<1> USE DEF GenInv
<1>1. Top \in FrameSet /\ Top.gen = me /\ FrameInv(Top) /\ Top.method # "none"
  BY TopIs DEF G, Top, Calls
<1>2. GoOn(X)
  BY <1>1 DEF GoOn
<1>3. MadeBy(me, X.todo, X.removed)'
  BY <1>1, Declared DEF FrameInv, MadeBy
<1>4. /\ X.todo \subseteq Keys(me) /\ X.method \in Keys(me) \cup {"none"}
      /\ X.removed \subseteq {"apply_core", "default_link_install"}
  BY <1>1 DEF FrameInv
<1>5. IsCommand(me) => /\ "apply_cmd_output" \notin X.todo
                       /\ \A y \in Elements(project[me].dependencies) : y \in Elements(X.names) \/ Waits(me, y)'
  BY <1>1 DEF FrameInv
<1>6. InSequence(me) => "sequence_order" \in X.todo
  BY <1>1 DEF FrameInv
<1>7. FrameInv(X)'
  BY <1>3, <1>4, <1>5, <1>6, Declared DEF FrameInv
<1> QED
  BY <1>2, <1>7 DEF TopStep

\* A method that is not there to post for a command is none of a command's.
LEMMA NotOfACommand ==
  ASSUME GenInv, stack # <<>>, Top.method \in {"apply_lib_vars", "apply_objdeps"}
  PROVE  ~IsCommand(G)
<1>1. Top.gen = G /\ G \in Ids /\ FrameInv(Top)
  BY TopIs DEF G, Top, GenInv
<1>2. Top.method \in Keys(G)
  BY <1>1 DEF FrameInv
<1> QED
  BY <1>1, <1>2, KeysOf DEF GenInv

\* The one that the top names is not on the stack: it is below them all.
LEMMA PostNamed ==
  ASSUME GenInv, stack # <<>>, NEW y \in Elements(Top.names), ~gens[y].posted, Post(y),
         UNCHANGED <<project, gens, tasks, prev>>
  PROVE  Push(y)
<1> USE DEF GenInv
<1>1. Top \in FrameSet /\ Top.gen = G /\ G \in Ids /\ FrameInv(Top) /\ 1 \in DOMAIN stack /\ Top = stack[1]
  BY TopIs DEF G, Top
<1>2. y \in Ids /\ Rank[y] < Rank[G] /\ ~InSequence(y)
  <2>1. Top.names \in Seq(Ids)
    BY <1>1 DEF FrameSet
  <2> QED
    BY <1>1, <2>1, ElementsIn DEF FrameInv
<1>3. \A i \in DOMAIN stack : stack[i].gen \in Ids /\ i \in Nat /\ i >= 1
  BY StackShape DEF FrameSet
<1>4. \A i \in DOMAIN stack : Rank[y] < Rank[stack[i].gen]
  <2> SUFFICES ASSUME NEW i \in DOMAIN stack PROVE Rank[y] < Rank[stack[i].gen]
    OBVIOUS
  <2>1. Rank[y] \in Nat /\ Rank[G] \in Nat /\ Rank[stack[i].gen] \in Nat
    BY <1>1, <1>2, <1>3, RankIs
  <2>2. i = 1 \/ Rank[G] < Rank[stack[i].gen]
    <3>1. i = 1 \/ 1 < i
      BY <1>3
    <3> QED
      BY <1>1, <3>1 DEF StackInv
  <2> QED
    BY <1>1, <1>2, <2>1, <2>2
<1>5. ~Started(y)
  <2>1. Rank[y] \in Nat
    BY <1>2, RankIs
  <2>2. \A i \in DOMAIN stack : stack[i].gen # y
    BY <1>4, <2>1
  <2> QED
    BY <2>2 DEF Started
<1> QED
  BY <1>2, <1>4, <1>5 DEF Push, Post

\* The next name is dealt with, and its own are put behind or in front.
LEMMA SeenGoesOn ==
  ASSUME GenInv, stack # <<>>, Top.method \in Calls, Top.names # <<>>,
         NEW y, y = Head(Top.names),
         NEW more \in Seq(Ids), \A z \in Elements(more) : Rank[z] < Rank[G] /\ ~InSequence(z),
         Seen(y, more),
         Grow(G), OnlyMine(G), NEW me, me = G, TasksOf(me)' = TasksOf(me), UNCHANGED <<project, prev>>,
         IsCommand(G) /\ y \in Elements(project[G].dependencies) => Waits(me, y)'
  PROVE  TopStep
<1> USE DEF GenInv
<1>2. Top \in FrameSet /\ Top.gen = me /\ me \in Ids /\ FrameInv(Top) /\ ~gens[me].posted
  BY TopIs DEF G, Top
<1>3. PICK rest : rest = Tail(Top.names)
  OBVIOUS
<1>4. /\ Top.names \in Seq(Ids) /\ y \in Ids /\ rest \in Seq(Ids)
      /\ Elements(rest) \subseteq Elements(Top.names)
      /\ Elements(Top.names) \subseteq Elements(rest) \cup {y}
  <2>1. Top.names \in Seq(Ids)
    BY <1>2 DEF FrameSet
  <2> QED
    BY <1>3, <2>1, ElementsIn
<1>5. PICK names : names = rest \o more
  OBVIOUS
<1>6. names \in Seq(Ids) /\ Elements(names) = Elements(rest) \cup Elements(more)
  BY <1>4, <1>5, ElementsOfBoth
<1>7. PICK X : X = [Top EXCEPT !.names = names, !.seen = @ \cup {y}]
  OBVIOUS
<1>8. /\ X \in FrameSet /\ X.gen = me /\ X.todo = Top.todo /\ X.removed = Top.removed
      /\ X.method = Top.method /\ X.names = names
  BY <1>2, <1>4, <1>6, <1>7 DEF FrameSet
<1>9. stack' = <<X>> \o Tail(stack)
  BY <1>3, <1>5, <1>7 DEF Seen
<1>10. \A z \in Elements(X.names) : Rank[z] < Rank[me] /\ ~InSequence(z)
  BY <1>2, <1>4, <1>6, <1>8 DEF FrameInv
<1>11. ASSUME IsCommand(me), NEW z \in Elements(project[me].dependencies),
              z \in Elements(Top.names) \/ Waits(me, z)
       PROVE  z \in Elements(X.names) \/ Waits(me, z)'
  <2>1. CASE Waits(me, z)
    BY <1>2, <1>11, <2>1, MineWait
  <2>2. CASE z \in Elements(rest)
    BY <1>6, <1>8, <2>2
  <2>3. CASE z = y
    BY <1>11, <2>3
  <2> QED
    BY <1>4, <1>11, <2>1, <2>2, <2>3
<1>12. X.method = "none" => X.names = <<>>
  BY <1>8 DEF Calls
<1> QED
  BY <1>2, <1>8, <1>9, <1>10, <1>11, <1>12, SuspendedGoesOn

LEMMA NextName ==
  ASSUME GenInv, stack # <<>>, Top.names # <<>>
  PROVE  /\ G \in Ids /\ Head(Top.names) \in Ids /\ Head(Top.names) \in Elements(Top.names)
         /\ Rank[Head(Top.names)] < Rank[G]
<1>1. Top \in FrameSet /\ Top.gen = G /\ G \in Ids /\ FrameInv(Top)
  BY TopIs DEF G, Top, GenInv
<1>2. Top.names \in Seq(Ids)
  BY <1>1 DEF FrameSet
<1>3. Head(Top.names) \in Elements(Top.names) /\ Elements(Top.names) \subseteq Ids
  BY <1>2, ElementsIn
<1> QED
  BY <1>1, <1>3 DEF FrameInv

LEMMA AncestorsAre ==
  ASSUME WellFormed, NEW y \in Ids
  PROVE  Ancestors(y) \in Seq(Ids) /\ Elements(Ancestors(y)) \subseteq Uses(y)
<1>1. PICK libs : libs = project[y].uselib_local
  OBVIOUS
<1>2. libs \in Seq(Ids) /\ Elements(libs) \subseteq Uses(y)
  BY <1>1 DEF WellFormed, Uses
<1>3. PICK places \in SUBSET DOMAIN libs : places = {i \in DOMAIN libs : "cstaticlib" \notin Features(libs[i])}
  OBVIOUS
<1>4. At(libs, places) \in Seq(Ids) /\ Elements(At(libs, places)) \subseteq {libs[i] : i \in places}
  BY <1>2, AtIs
<1>5. {libs[i] : i \in places} \subseteq Elements(libs)
  BY DEF Elements
<1>6. Ancestors(y) = libs \/ Ancestors(y) = At(libs, places)
  BY <1>1, <1>3 DEF Ancestors
<1> QED
  BY <1>2, <1>4, <1>5, <1>6

LEMMA LibVarsGoesOn ==
  ASSUME GenInv, LibVarsNext
  PROVE  TopStep \/ \E y : Push(y)
<1> USE DEF GenInv
<1>1. stack # <<>> /\ Top.method = "apply_lib_vars" /\ Top.names # <<>> /\ UNCHANGED <<project, prev>>
  BY DEF LibVarsNext, Suspended
<1>2. PICK y : y = Head(Top.names)
  OBVIOUS
<1>3. PICK me : me = G
  OBVIOUS
<1>4. me \in Ids /\ y \in Ids /\ y \in Elements(Top.names) /\ Rank[y] < Rank[me]
  BY <1>1, <1>2, <1>3, NextName
<1>5. Top.method \in Calls /\ ~IsCommand(G)
  BY <1>1, NotOfACommand DEF Calls
<1>6. CASE Seen(y, <<>>) /\ UNCHANGED <<gens, tasks>>
  <2>1. <<>> \in Seq(Ids) /\ Elements(<<>>) = {}
    BY DEF Elements
  <2>2. Grow(G) /\ OnlyMine(G) /\ TasksOf(me)' = TasksOf(me)
    BY <1>3, <1>4, <1>6, GrowSame, OnlyMineSame
  <2> QED
    BY <1>1, <1>2, <1>3, <1>5, <1>6, <2>1, <2>2, SeenGoesOn
<1>7. CASE ~gens[y].posted /\ Post(y) /\ UNCHANGED <<gens, tasks>>
  BY <1>1, <1>4, <1>7, PostNamed
<1>8. CASE UseLib(y) /\ Seen(y, Ancestors(y))
  <2>1. PICK more : more = Ancestors(y)
    OBVIOUS
  <2>2. more \in Seq(Ids) /\ \A z \in Elements(more) : Rank[z] < Rank[me] /\ ~InSequence(z)
    BY <1>4, <2>1, AncestorsAre, UsesFurtherBelow
  <2>3. OnlyMine(me)
    <3>1. PICK a, b : gens' = [gens EXCEPT ![me].env = a, ![me].uselib = b]
      BY <1>3, <1>8 DEF UseLib
    <3> QED
      BY <1>4, <3>1 DEF GensInv, OnlyMine
  <2>4. Grow(me) /\ TasksOf(me)' = TasksOf(me)
    <3>1. CASE tasks' = tasks
      BY <3>1, GrowSame
    <3>2. CASE tasks' # tasks
      <4>1. PICK k, l : tasks' = [tasks EXCEPT ![k].after = @ \cup {l}]
        BY <1>8, <3>2 DEF UseLib
      <4> QED
        BY <4>1, GrowAfter
    <3> QED
      BY <3>1, <3>2
  <2> QED
    BY <1>1, <1>2, <1>3, <1>5, <1>8, <2>1, <2>2, <2>3, <2>4, SeenGoesOn
<1> QED
  BY <1>2, <1>6, <1>7, <1>8 DEF LibVarsNext

\* The method comes back when it has no more names.
LEMMA ReturnedGoesOn ==
  ASSUME GenInv, stack # <<>>, Top.method \in Calls, Top.names = <<>>, Returned,
         Grow(G), OnlyMine(G), NEW me, me = G, TasksOf(me)' = TasksOf(me), UNCHANGED <<project, prev>>
  PROVE  TopStep
<1> USE DEF GenInv
<1>1. Top \in FrameSet /\ Top.gen = me /\ me \in Ids /\ ~gens[me].posted
  BY TopIs DEF G, Top
<1>2. PICK X : X = [Top EXCEPT !.method = "none", !.names = <<>>, !.seen = {}]
  OBVIOUS
<1>3. /\ X \in FrameSet /\ X.gen = me /\ X.todo = Top.todo /\ X.removed = Top.removed
      /\ X.method = "none" /\ X.names = <<>>
  BY <1>1, <1>2 DEF FrameSet
<1>4. stack' = <<X>> \o Tail(stack)
  BY <1>2 DEF Returned
<1>5. Elements(X.names) = {} /\ Elements(Top.names) = {}
  BY <1>3 DEF Elements
<1>6. \A z \in Elements(project[me].dependencies) : Waits(me, z) => Waits(me, z)'
  BY <1>1, MineWait
<1> QED
  BY <1>1, <1>3, <1>4, <1>5, <1>6, SuspendedGoesOn

LEMMA DoneGoesOn ==
  ASSUME GenInv, LibVarsDone \/ ObjdepsDone \/ CmdOutputDone
  PROVE  TopStep
<1> USE DEF GenInv
<1>1. /\ stack # <<>> /\ Top.method \in Calls /\ Top.names = <<>> /\ Returned
      /\ UNCHANGED <<project, tasks, prev>>
  BY DEF LibVarsDone, ObjdepsDone, CmdOutputDone, Suspended, Calls
<1>2. PICK me : me = G
  OBVIOUS
<1>3. me \in Ids
  BY <1>1, <1>2, TopIs
<1>4. Grow(me) /\ TasksOf(me)' = TasksOf(me)
  BY <1>1, GrowSame
<1>5. OnlyMine(me)
  <2>1. CASE LibVarsDone
    BY <1>2, <1>3, <2>1, EnvChanged DEF LibVarsDone, SetEnv
  <2>2. CASE ObjdepsDone \/ CmdOutputDone
    BY <1>3, <2>2, OnlyMineSame DEF ObjdepsDone, CmdOutputDone
  <2> QED
    BY <2>1, <2>2
<1> QED
  BY <1>1, <1>2, <1>4, <1>5, ReturnedGoesOn

LEMMA ObjdepsGoesOn ==
  ASSUME GenInv, ObjdepsNext
  PROVE  TopStep \/ \E y : Push(y)
<1> USE DEF GenInv
<1>1. stack # <<>> /\ Top.method = "apply_objdeps" /\ Top.names # <<>> /\ UNCHANGED <<project, gens, prev>>
  BY Zenon DEF ObjdepsNext, Suspended
<1>2. PICK y : y = Head(Top.names)
  OBVIOUS
<1>3. PICK me : me = G
  OBVIOUS
<1>4. me \in Ids /\ y \in Ids /\ y \in Elements(Top.names) /\ Rank[y] < Rank[me]
  BY <1>1, <1>2, <1>3, NextName
<1>5. Top.method \in Calls /\ ~IsCommand(G)
  BY <1>1, NotOfACommand DEF Calls
<1>6. OnlyMine(me)
  BY <1>1, <1>4, OnlyMineSame
<1>7. ASSUME Seen(y, <<>>), Grow(me), TasksOf(me)' = TasksOf(me)
      PROVE  TopStep
  <2>1. <<>> \in Seq(Ids) /\ Elements(<<>>) = {}
    BY DEF Elements
  <2> QED
    BY <1>1, <1>2, <1>3, <1>5, <1>6, <1>7, <2>1, SeenGoesOn
<1>8. CASE Seen(y, <<>>) /\ UNCHANGED tasks
  BY <1>7, <1>8, GrowSame
<1>9. CASE Seen(y, <<>>) /\ \E k, inputs : tasks' = [tasks EXCEPT ![k].inputs = inputs]
  BY <1>7, <1>9, GrowInputs
<1>10. CASE ~gens[y].posted /\ Post(y) /\ UNCHANGED tasks
  BY <1>1, <1>4, <1>10, PostNamed
<1>11. PICK objects : objects = project[y].add_objects
  OBVIOUS
<1>12. PICK places \in SUBSET DOMAIN objects : places = {i \in DOMAIN objects : objects[i] \notin Top.seen}
  OBVIOUS
<1>13. PICK more : more = At(objects, places)
  OBVIOUS
<1>14. CASE stack' = <<[Top EXCEPT !.names = more \o @]>> \o Tail(stack) /\ UNCHANGED tasks
  <2>1. Top \in FrameSet /\ Top.gen = me /\ FrameInv(Top) /\ Top.names \in Seq(Ids)
    BY <1>1, <1>3, TopIs DEF G, Top, FrameSet
  <2>2. objects \in Seq(Ids) /\ Elements(objects) \subseteq Uses(y)
    BY <1>4, <1>11 DEF WellFormed, Uses
  <2>3. more \in Seq(Ids) /\ Elements(more) \subseteq Uses(y)
    <3>1. more \in Seq(Ids) /\ Elements(more) \subseteq {objects[i] : i \in places}
      BY <1>13, <2>2, AtIs
    <3>2. {objects[i] : i \in places} \subseteq Elements(objects)
      BY DEF Elements
    <3> QED
      BY <2>2, <3>1, <3>2
  <2>4. PICK names : names = more \o Top.names
    OBVIOUS
  <2>5. names \in Seq(Ids) /\ Elements(names) = Elements(more) \cup Elements(Top.names)
    BY <2>1, <2>3, <2>4, ElementsOfBoth
  <2>6. \A z \in Elements(names) : Rank[z] < Rank[me] /\ ~InSequence(z)
    BY <1>4, <2>1, <2>3, <2>5, UsesFurtherBelow DEF FrameInv
  <2>7. PICK X : X = [Top EXCEPT !.names = names]
    OBVIOUS
  <2>8. /\ X \in FrameSet /\ X.gen = me /\ X.todo = Top.todo /\ X.removed = Top.removed
        /\ X.method = Top.method /\ X.names = names
    BY <2>1, <2>5, <2>7 DEF FrameSet
  <2>9. stack' = <<X>> \o Tail(stack)
    BY <1>14, <2>4, <2>7
  <2>10. Grow(me) /\ TasksOf(me)' = TasksOf(me)
    BY <1>14, GrowSame
  <2> QED
    BY <1>1, <1>3, <1>4, <1>5, <1>6, <2>6, <2>8, <2>9, <2>10, SuspendedGoesOn
<1> QED
  <2>1. CASE y \in Top.seen
    <3>1. Seen(y, <<>>) /\ UNCHANGED tasks
      BY <1>2, <2>1, Zenon DEF ObjdepsNext
    <3> QED
      BY <1>8, <3>1
  <2>2. CASE y \notin Top.seen /\ more # <<>>
    <3>1. stack' = <<[Top EXCEPT !.names = more \o @]>> \o Tail(stack) /\ UNCHANGED tasks
      BY <1>2, <1>11, <1>12, <1>13, <2>2, Zenon DEF ObjdepsNext
    <3> QED
      BY <1>14, <3>1
  <2>3. CASE y \notin Top.seen /\ more = <<>> /\ ~gens[y].posted
    <3>1. Post(y) /\ UNCHANGED tasks
      BY <1>2, <1>11, <1>12, <1>13, <2>3, Zenon DEF ObjdepsNext
    <3> QED
      BY <1>10, <2>3, <3>1
  <2>4. CASE y \notin Top.seen /\ more = <<>> /\ gens[y].posted
    <3>1. Seen(y, <<>>) /\ \E k, inputs : tasks' = [tasks EXCEPT ![k].inputs = inputs]
      BY <1>2, <1>11, <1>12, <1>13, <2>4, Zenon DEF ObjdepsNext
    <3> QED
      BY <1>9, <3>1
  <2> QED
    BY <2>1, <2>2, <2>3, <2>4

LEMMA CmdOutputGoesOn ==
  ASSUME GenInv, CmdOutputNext
  PROVE  TopStep \/ \E y : Push(y)
<1> USE DEF GenInv
<1>1. stack # <<>> /\ Top.method = "apply_cmd_output" /\ Top.names # <<>> /\ UNCHANGED <<project, gens, prev>>
  BY DEF CmdOutputNext, Suspended
<1>2. PICK y : y = Head(Top.names)
  OBVIOUS
<1>3. PICK me : me = G
  OBVIOUS
<1>4. me \in Ids /\ y \in Ids /\ y \in Elements(Top.names) /\ ~gens[me].posted
  BY <1>1, <1>2, <1>3, NextName, TopIs
<1>5. CASE ~gens[y].posted /\ Post(y) /\ UNCHANGED tasks
  BY <1>1, <1>4, <1>5, PostNamed
<1>6. CASE gens[y].posted /\ AfterTasks(y) /\ Seen(y, <<>>)
  <2>1. tasks' = [t \in DOMAIN tasks |-> IF tasks[t].gen # me THEN tasks[t]
                    ELSE [tasks[t] EXCEPT !.after = @ \cup TasksOf(y)]]
    BY <1>3, <1>6 DEF AfterTasks, MyTasks, TasksOf
  <2>2. PICK others : others = TasksOf(y)
    OBVIOUS
  <2>3. /\ Grow(me) /\ \A z : TasksOf(z)' = TasksOf(z)
        /\ \A t \in TasksOf(me) : others \subseteq tasks'[t].after
    BY <2>1, <2>2, GrowAfterAll
  <2>4. OnlyMine(me)
    BY <1>1, <1>4, OnlyMineSame
  <2>5. ASSUME IsCommand(me), y \in Elements(project[me].dependencies)
        PROVE  Waits(me, y)'
    <3>1. Makes(y)
      BY <1>4, <2>5 DEF WellFormed
    <3>2. TasksOf(y) # {}
      BY <1>4, <1>6, <3>1 DEF PostedInv
    <3> QED
      BY <1>1, <1>6, <2>2, <2>3, <3>2 DEF Waits
  <2>6. <<>> \in Seq(Ids) /\ Elements(<<>>) = {}
    BY DEF Elements
  <2>7. Top.method \in Calls
    BY <1>1 DEF Calls
  <2> QED
    BY <1>1, <1>2, <1>3, <1>6, <2>3, <2>4, <2>5, <2>6, <2>7, SeenGoesOn
<1> QED
  BY <1>2, <1>5, <1>6 DEF CmdOutputNext

LEMMA FlushPushes ==
  ASSUME GenInv, Flush
  PROVE  \E y : Push(y)
<1>1. stack = <<>> /\ UNCHANGED <<project, gens, tasks, prev>>
  BY DEF Flush
<1>2. PICK y \in Ids : ~gens[y].posted /\ (\A h \in Ids : h < y => gens[h].posted) /\ Post(y)
  BY DEF Flush
<1>3. DOMAIN stack = {}
  BY <1>1
<1> QED
  BY <1>1, <1>2, <1>3 DEF Push, Post, Started

\* Every step pushes a generator, goes on with the top, or posts it.
LEMMA StepIs ==
  ASSUME GenInv, Next
  PROVE  TopStep \/ PostTop \/ \E y : Push(y)
<1>1. CASE Flush
  BY <1>1, FlushPushes
<1>2. CASE Posted
  BY <1>2 DEF Posted, PostTop
<1>3. CASE \E m \in AllMethods : RunMethod(m) \/ RunCall(m)
  BY <1>3, RunMethodGoesOn, RunCallGoesOn
<1>4. CASE LibVarsNext
  BY <1>4, LibVarsGoesOn
<1>5. CASE ObjdepsNext
  BY <1>5, ObjdepsGoesOn
<1>6. CASE CmdOutputNext
  BY <1>6, CmdOutputGoesOn
<1>7. CASE LibVarsDone \/ ObjdepsDone \/ CmdOutputDone
  BY <1>7, DoneGoesOn
<1> QED
  BY <1>1, <1>2, <1>3, <1>4, <1>5, <1>6, <1>7 DEF Next

LEMMA NextKeeps ==
  ASSUME GenInv, Next
  PROVE  GenInv'
<1>1. TopStep => GenInv'
  <2> SUFFICES ASSUME TopStep PROVE GenInv'
    OBVIOUS
  <2>1. PICK X : GoOn(X) /\ FrameInv(X)'
    BY DEF TopStep
  <2> QED
    BY <2>1, GoOnKeeps
<1>2. PostTop => GenInv'
  BY PostTopKeeps
<1>3. ASSUME NEW y, Push(y) PROVE GenInv'
  BY <1>3, PushKeeps
<1>4. TopStep \/ PostTop \/ \E y : Push(y)
  BY StepIs
<1> QED
  <2> HIDE DEF GenInv
  <2> QED
    BY <1>1, <1>2, <1>3, <1>4, Zenon

LEMMA StepKeeps == GenInv /\ [Next]_vars => GenInv'
<1> SUFFICES ASSUME GenInv, [Next]_vars PROVE GenInv'
  OBVIOUS
<1>1. CASE Next
  BY <1>1, NextKeeps
<1>2. CASE UNCHANGED vars
  <2> USE <1>2 DEF vars
  <2>0. Rank' = Rank /\ Ids' = Ids /\ FrameSet' = FrameSet
    BY DEF Rank, Ranks, Uses, Ids, FrameSet
  <2>1. WellFormed'
    BY DEF GenInv, WellFormed, Ranks, Uses, Ids, Features, InSequence, IsCommand, Makes, Linked
  <2>2. StackInv'
    BY <2>0 DEF GenInv, StackInv, InSequence, Features
  <2>3. GensInv' /\ TasksInv'
    BY <2>0 DEF GenInv, GensInv, TasksInv, Started
  <2>4. \A g \in Ids : (\A y : Waits(g, y)' = Waits(g, y)) /\ Makes(g)' = Makes(g) /\ IsCommand(g)' = IsCommand(g)
    BY DEF Waits, TasksOf, Makes, IsCommand, Linked, Features
  <2>5. PostedInv'
    BY <2>0, <2>4 DEF GenInv, PostedInv, TasksOf
  <2>6. SequenceInv'
    BY <2>0 DEF GenInv, SequenceInv, Started, Passed, Members, InSequence, Features, TasksOf
  <2>7. \A f : FrameInv(f)' = FrameInv(f)
    BY <2>0 DEF FrameInv, MadeBy, Waits, TasksOf, Keys, InSequence, IsCommand, Linked, Features
  <2> QED
    BY <2>1, <2>2, <2>3, <2>5, <2>6, <2>7 DEF GenInv
<1> QED
  BY <1>1, <1>2

LEMMA GenStarts == Init /\ WellFormed => GenInv
<1> SUFFICES ASSUME Init, WellFormed PROVE GenInv
  OBVIOUS
<1>1. stack = <<>> /\ tasks = <<>> /\ prev = 0 /\ gens = [g \in Ids |-> New(g)]
  BY DEF Init
<1>2. DOMAIN stack = {} /\ DOMAIN tasks = {}
  BY <1>1
<1>3. \A g \in Ids : gens[g] = New(g)
  BY <1>1
<1>4. \A g \in Ids : "posted" \in DOMAIN gens[g] /\ gens[g].posted = FALSE
  <2> SUFFICES ASSUME NEW g \in Ids PROVE "posted" \in DOMAIN gens[g] /\ gens[g].posted = FALSE
    OBVIOUS
  <2>1. PICK e : e = <<Own(<<Config>>), Config>>
    OBVIOUS
  <2>2. PICK u : u = project[g].uselib
    OBVIOUS
  <2>3. New(g) = [posted |-> FALSE, env |-> e, uselib |-> u, type_vars |-> {}, flag_vars |-> {},
                  mappings |-> "cc", compiled |-> <<>>, link |-> 0]
    BY <2>1, <2>2 DEF New
  <2> HIDE DEF New
  <2> QED
    BY <1>3, <2>3
<1>5. StackInv
  <2>1. stack \in Seq(FrameSet)
    <3>1. PICK F : F = FrameSet
      OBVIOUS
    <3>2. <<>> \in Seq(F)
      OBVIOUS
    <3> QED
      BY <1>1, <3>1, <3>2
  <2>2. \A i \in DOMAIN stack : FALSE
    BY <1>2
  <2> QED
    BY <2>1, <2>2, Zenon DEF StackInv
<1>6. GensInv
  BY <1>1, <1>4 DEF GensInv
<1>7. TasksInv
  <2>1. tasks = [i \in 1..0 |-> tasks[i]]
    BY <1>1
  <2> QED
    BY <1>2, <2>1, SeqFrom DEF TasksInv
<1>8. \A g \in Ids : ~Started(g) /\ ~Passed(g)
  BY <1>2, <1>4 DEF Started, Passed
<1>9. SequenceInv
  BY <1>1, <1>8 DEF SequenceInv, Members
<1> QED
  BY <1>2, <1>4, <1>5, <1>6, <1>7, <1>9 DEF GenInv, PostedInv

LEMMA OrdersKept == GenInv => GeneratorsOrdered
<1> SUFFICES ASSUME GenInv, Done PROVE SequenceKept /\ CommandAfterDeps
  BY DEF GeneratorsOrdered, SequenceKept, CommandAfterDeps
<1>1. \A g \in Ids : gens[g].posted /\ Passed(g)
  BY DEF Done, Passed
<1>2. SequenceKept
  BY <1>1 DEF SequenceKept, GenInv, SequenceInv, Members, InSequence
<1>3. CommandAfterDeps
  <2> SUFFICES ASSUME NEW g \in Ids, "command" \in Features(g), NEW t \in TasksOf(g),
                      NEW y \in Elements(project[g].dependencies)
               PROVE  TasksOf(y) # {} /\ TasksOf(y) \subseteq tasks[t].after
    BY DEF CommandAfterDeps
  <2>1. Waits(g, y)
    BY <1>1 DEF GenInv, PostedInv, IsCommand
  <2> QED
    BY <2>1 DEF Waits
<1> QED
  BY <1>2, <1>3

\* Whatever the declarations are that do not use each other in a circle, and in
\* whatever order the methods of a generator run: each generator of a sequence
\* waits for all tasks of the one before it, and a command for all tasks of what
\* it depends on, once all generators are posted.
THEOREM GeneratorsTheorem == Spec /\ WellFormed => []GeneratorsOrdered
BY GenStarts, StepKeeps, OrdersKept, PTL DEF Spec

\* What a step does to generators that are posted: nothing.
LEMMA StepFinal ==
  ASSUME GenInv, [Next]_vars, NEW g \in Ids, gens[g].posted
  PROVE  /\ gens'[g] = gens[g]
         /\ \A t \in DOMAIN tasks' : tasks'[t].gen = g => t \in DOMAIN tasks
<1>1. CASE UNCHANGED vars
  BY <1>1 DEF vars
<1>2. CASE TopStep
  <2>1. Grow(G) /\ OnlyMine(G) /\ stack # <<>>
    BY <1>2 DEF TopStep, GoOn
  <2>2. g # G
    BY <2>1, TopIs DEF GenInv
  <2> QED
    BY <2>1, <2>2 DEF Grow, OnlyMine, GenInv, GensInv
<1>3. CASE PostTop
  <2>1. g # G
    BY <1>3, TopIs DEF PostTop, GenInv
  <2> QED
    BY <1>3, <2>1 DEF PostTop, GenInv, GensInv
<1>4. CASE \E y : Push(y)
  BY <1>4 DEF Push
<1> QED
  BY <1>1, <1>2, <1>3, <1>4, StepIs

\* Nothing is added to a generator that has been posted.
THEOREM PostedFinalTheorem == Spec /\ WellFormed => PostedIsFinal
<1> DEFINE Final ==
      \A g \in Ids : gens[g].posted =>
        /\ gens'[g] = gens[g]
        /\ \A t \in DOMAIN tasks' : tasks'[t].gen = g => t \in DOMAIN tasks
<1>1. GenInv /\ [Next]_vars => Final
  BY StepFinal
<1>2. Spec /\ WellFormed => [][Final]_vars
  <2> HIDE DEF Final
  <2> QED
    BY <1>1, GenStarts, StepKeeps, PTL DEF Spec
<1> QED
  BY <1>2 DEF Final, PostedIsFinal

------------------------------------------------------------------------------
(* ----- a test that fails ----- *)

\* While a test is run no compiler is looked for.
OneAtATime == test # NoTest => loading = Idle

LEMMA IdleFields == Idle.lang = "" /\ Idle.tool = "" /\ Idle.rules = <<>>
BY DEF Idle

LEMMA TestAlone ==
  ASSUME OneAtATime, [ConfNext]_cvars
  PROVE  OneAtATime'
<1> USE DEF OneAtATime
<1>1. CASE CheckTool
  BY <1>1 DEF CheckTool, Calling
<1>2. CASE NextCompiler \/ AcceptCompiler
  <2>1. loading # Idle
    BY <1>2, IdleFields DEF NextCompiler, AcceptCompiler
  <2>2. test' = test
    BY <1>2 DEF NextCompiler, AcceptCompiler
  <2> QED
    BY <2>1, <2>2
<1>3. ASSUME NEW name, NEW effect, Rule(name, effect)
      PROVE  OneAtATime'
  <2>1. loading # Idle
    BY <1>3, IdleFields DEF Rule
  <2>2. test' = test
    BY <1>3 DEF Rule
  <2> QED
    BY <2>1, <2>2
<1>4. CASE RunFindCompiler \/ RunFindCpp \/ RunFindAr \/ RunCommonFlags \/ RunModifier
           \/ RunLoadTools \/ RunAddFlags \/ RunLinkAddFlags
  BY <1>3, <1>4 DEF RunFindCompiler, RunFindCpp, RunFindAr, RunCommonFlags, RunModifier,
     RunLoadTools, RunAddFlags, RunLinkAddFlags
<1>5. CASE Check
  BY <1>5 DEF Check, Calling
<1>6. CASE RunCCode \/ PostCheck
  BY <1>6 DEF RunCCode, PostCheck, NoTest
<1>7. CASE CheckCfg \/ FindProgram \/ Define \/ Undefine \/ AppendFlags \/ SetEnvName \/ Setenv
           \/ SetVariant \/ WriteConfigHeader \/ Store
  BY <1>7 DEF CheckCfg, FindProgram, Define, Undefine, AppendFlags, SetEnvName, Setenv,
     SetVariant, WriteConfigHeader, Store
<1>8. CASE UNCHANGED cvars
  BY <1>8 DEF cvars
<1> QED
  BY <1>1, <1>2, <1>4, <1>5, <1>6, <1>7, <1>8 DEF ConfNext

\* Where the tables of an environment have the same under a key, so has it.
LEMMA SameLookup ==
  ASSUME NEW key, derived' = derived, DOMAIN tables = {"default", "debug"},
         DOMAIN tables' = {"default", "debug"},
         \A e \in {"default", "debug"} :
           /\ key \in DOMAIN tables'[e] <=> key \in DOMAIN tables[e]
           /\ key \in DOMAIN tables[e] => tables'[e][key] = tables[e][key]
  PROVE  \A e \in {"default", "debug"} : Get(EnvOf(e), key)' = Get(EnvOf(e), key)
<1> SUFFICES ASSUME NEW e \in {"default", "debug"}
             PROVE  Get(EnvOf(e), key)' = Get(EnvOf(e), key)
  OBVIOUS
<1>1. PICK env : env = EnvOf(e)
  OBVIOUS
<1>2. PICK after : after = EnvOf(e)'
  OBVIOUS
<1>3. /\ DOMAIN env = DOMAIN after
      /\ \A i \in DOMAIN env : key \in DOMAIN after[i] <=> key \in DOMAIN env[i]
      /\ \A i \in DOMAIN env : key \in DOMAIN env[i] => after[i][key] = env[i][key]
  <2>1. CASE e = "debug" /\ derived
    <3>1. env = <<tables["debug"], tables["default"]>> /\ after = <<tables'["debug"], tables'["default"]>>
      BY <1>1, <1>2, <2>1 DEF EnvOf
    <3>2. DOMAIN env = {1, 2} /\ DOMAIN after = {1, 2}
      BY <3>1
    <3> QED
      BY <3>1, <3>2
  <2>2. CASE ~(e = "debug" /\ derived)
    <3>1. env = <<tables[e]>> /\ after = <<tables'[e]>>
      BY <1>1, <1>2, <2>2 DEF EnvOf
    <3>2. DOMAIN env = {1} /\ DOMAIN after = {1}
      BY <3>1
    <3> QED
      BY <3>1, <3>2
  <2> QED
    BY <2>1, <2>2
<1>4. PICK has : has = {i \in DOMAIN env : key \in DOMAIN env[i]}
  OBVIOUS
<1>5. has = {i \in DOMAIN after : key \in DOMAIN after[i]}
  BY <1>3, <1>4
<1>6. PICK first : first = CHOOSE i \in has : \A j \in has : i <= j
  OBVIOUS
<1>7. Get(env, key) = IF has = {} THEN <<>> ELSE env[first][key]
  BY <1>4, <1>6 DEF Get
<1>8. Get(after, key) = IF has = {} THEN <<>> ELSE after[first][key]
  BY <1>5, <1>6 DEF Get
<1>9. has # {} => first \in has
  <2>1. DOMAIN env \subseteq {1, 2}
    <3>1. env = <<tables["debug"], tables["default"]>> \/ env = <<tables[e]>>
      BY <1>1 DEF EnvOf
    <3> QED
      BY <3>1
  <2>2. has # {} => \E i \in has : \A j \in has : i <= j
    BY <1>4, <2>1
  <2> QED
    BY <1>6, <2>2, Zenon
<1>10. Get(env, key) = Get(after, key)
  BY <1>3, <1>4, <1>7, <1>8, <1>9
<1> QED
  BY <1>1, <1>2, <1>10

TablesShape == DOMAIN tables = {"default", "debug"}

LEMMA ShapeKept ==
  ASSUME TablesShape, [ConfNext]_cvars
  PROVE  TablesShape'
<1> USE DEF TablesShape
<1>1. \A set : Assign(set) => TablesShape'
  BY DEF Assign
<1>2. CASE CheckTool \/ NextCompiler \/ Check \/ Setenv \/ Store \/ UNCHANGED cvars
  BY <1>2 DEF CheckTool, NextCompiler, Check, Setenv, Store, envs, cvars
<1>3. CASE AcceptCompiler
  BY <1>1, <1>3 DEF AcceptCompiler
<1>4. CASE RunFindCompiler \/ RunFindCpp \/ RunFindAr \/ RunCommonFlags \/ RunModifier
           \/ RunLoadTools \/ RunAddFlags \/ RunLinkAddFlags
  BY <1>1, <1>4 DEF RunFindCompiler, RunFindCpp, RunFindAr, RunCommonFlags, RunModifier,
     RunLoadTools, RunAddFlags, RunLinkAddFlags, Rule
<1>5. CASE Define \/ Undefine
  BY <1>1, <1>5 DEF Define, Undefine, DefineAs
<1>6. CASE RunCCode
  BY <1>1, <1>6 DEF RunCCode
<1>7. CASE PostCheck
  BY <1>1, <1>7 DEF PostCheck
<1>8. CASE CheckCfg
  BY <1>1, <1>8 DEF CheckCfg
<1>9. CASE FindProgram \/ SetVariant
  BY <1>1, <1>9 DEF FindProgram, SetVariant
<1>10. CASE AppendFlags \/ SetEnvName \/ WriteConfigHeader
  BY <1>10 DEF AppendFlags, SetEnvName, WriteConfigHeader
<1> QED
  BY <1>2, <1>3, <1>4, <1>5, <1>6, <1>7, <1>8, <1>9, <1>10 DEF ConfNext

\* A test that fails changes nothing of the environment but its define, if the
\* script has not given the environment itself to it: on any machine, in any
\* script.
THEOREM FailedTestTheorem == ConfSpec => FailedTestLeavesNoTrace
<1> DEFINE Trace ==
      test # NoTest =>
        \A e \in {"default", "debug"} : \A key \in DOMAIN tables[e]' \cup DOMAIN tables[e] :
          Get(EnvOf(e), key)' # Get(EnvOf(e), key) =>
            \/ key \in {"defines", test.call.define}
            \/ test.call.inplace \/ (test.ran /\ Success)
<1>1. ConfInit => OneAtATime /\ TablesShape
  BY DEF ConfInit, OneAtATime, TablesShape
<1>2. OneAtATime /\ TablesShape /\ [ConfNext]_cvars => OneAtATime' /\ TablesShape'
  BY TestAlone, ShapeKept
<1>3. OneAtATime /\ TablesShape /\ TablesShape' /\ [ConfNext]_cvars => Trace
  <2> SUFFICES ASSUME OneAtATime, TablesShape, TablesShape', [ConfNext]_cvars, test # NoTest,
                      ~test.call.inplace, ~(test.ran /\ Success),
                      NEW key, key \notin {"defines", test.call.define}
               PROVE  \A e \in {"default", "debug"} : Get(EnvOf(e), key)' = Get(EnvOf(e), key)
    BY Zenon
  <2>1. loading = Idle
    BY DEF OneAtATime
  <2>2. CASE UNCHANGED <<tables, derived>>
    BY <2>2, SameLookup DEF TablesShape
  <2>3. CASE PostCheck
    <3>1. derived' = derived /\ test.ran
      BY <2>3 DEF PostCheck
    <3>2. CASE UNCHANGED tables
      BY <2>2, <3>1, <3>2
    <3>3. CASE ~(UNCHANGED tables)
      <4>1. PICK value : Assign(Over(NoVars, IF Defining THEN Defined(test.call.define, value) ELSE NoVars))
        BY <2>3, <3>1, <3>3 DEF PostCheck
      <4>2. PICK set : set = Over(NoVars, IF Defining THEN Defined(test.call.define, value) ELSE NoVars)
        OBVIOUS
      <4>3. key \notin DOMAIN set
        BY <4>2 DEF Over, NoVars, Defined
      <4>4. tables' = [tables EXCEPT ![envname] = Over(set, @)]
        BY <4>1, <4>2 DEF Assign
      <4>5. \A e \in {"default", "debug"} :
              /\ key \in DOMAIN tables'[e] <=> key \in DOMAIN tables[e]
              /\ key \in DOMAIN tables[e] => tables'[e][key] = tables[e][key]
        <5> SUFFICES ASSUME NEW e \in {"default", "debug"}
                     PROVE  /\ key \in DOMAIN tables'[e] <=> key \in DOMAIN tables[e]
                            /\ key \in DOMAIN tables[e] => tables'[e][key] = tables[e][key]
          OBVIOUS
        <5>1. tables'[e] = IF e = envname THEN Over(set, tables[e]) ELSE tables[e]
          BY <4>4 DEF TablesShape
        <5> QED
          BY <4>3, <5>1 DEF Over
      <4> QED
        BY <3>1, <4>5, SameLookup DEF TablesShape
    <3> QED
      BY <3>2, <3>3
  <2>4. CASE RunCCode
    BY <2>2, <2>4 DEF RunCCode
  <2>5. CASE UNCHANGED cvars
    BY <2>2, <2>5 DEF cvars
  <2>6. ~(\E op : Calling(op)) /\ ~Store /\ ~NextCompiler /\ ~AcceptCompiler
    BY <2>1, IdleFields DEF Calling, Store, NextCompiler, AcceptCompiler
  <2>7. \A name, effect : ~Rule(name, effect)
    BY <2>1, IdleFields DEF Rule
  <2>8. CASE ConfNext
    <3>1. ~(CheckTool \/ Check \/ CheckCfg \/ FindProgram \/ Define \/ Undefine \/ AppendFlags
            \/ SetEnvName \/ Setenv \/ SetVariant \/ WriteConfigHeader)
      BY <2>6 DEF CheckTool, Check, CheckCfg, FindProgram, Define, Undefine, AppendFlags,
         SetEnvName, Setenv, SetVariant, WriteConfigHeader
    <3>2. ~(RunFindCompiler \/ RunFindCpp \/ RunFindAr \/ RunCommonFlags \/ RunModifier
            \/ RunLoadTools \/ RunAddFlags \/ RunLinkAddFlags)
      BY <2>7 DEF RunFindCompiler, RunFindCpp, RunFindAr, RunCommonFlags, RunModifier,
         RunLoadTools, RunAddFlags, RunLinkAddFlags
    <3> QED
      BY <2>3, <2>4, <2>6, <2>8, <3>1, <3>2 DEF ConfNext
  <2> QED
    BY <2>5, <2>8
<1> QED
  <2> HIDE DEF Trace
  <2>1. ConfSpec => [][Trace]_cvars
    BY <1>1, <1>2, <1>3, PTL DEF ConfSpec
  <2> QED
    BY <2>1 DEF Trace, FailedTestLeavesNoTrace

=============================================================================
