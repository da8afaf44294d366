--------------------------- MODULE LearningProofs ----------------------------
(***************************************************************************)
(* What the predictions learn from: the engine of ACIE, the incremental    *)
(* state, the calibration, the ranks and the record of a model, the data   *)
(* sets and the windows of a walk-forward.  Much of it is a fold over a    *)
(* history and a ring that holds its end.  No induction is needed on the   *)
(* data: a fold is shown to exist and to be one, from the least number of  *)
(* a set that has any, and the invariants relate the state to the history  *)
(* of the model one step at a time.                                        *)
(***************************************************************************)
EXTENDS AcieEngine, Learning, Validation, FiniteSetTheorems, SequenceTheorems,
        FunctionTheorems, WellFoundedInduction, TLAPS
-----------------------------------------------------------------------------
(* Numbers and folds: least and greatest, induction up to n, and the       *)
(* function a fold is defined by.                                          *)
\* The numbers up to n are n.
LEMMA UpToIsFinite ==
  ASSUME NEW n \in Nat
  PROVE  IsFiniteSet(1..n) /\ Cardinality(1..n) = n
BY FS_Interval

\* A set of numbers that has any has a least one.
LEMMA LeastOf ==
  ASSUME NEW T \in SUBSET Nat, T # {}
  PROVE  \E k \in T : \A y \in T : ~(y < k)
<1> DEFINE R == {ss \in Nat \X Nat : ss[1] < ss[2]}
<1>1. IsWellFoundedOn(R, Nat)
  BY NatLessThanWellFounded DEF OpToRel
<1>2. \E k \in T : \A y \in T : ~(<<y, k>> \in R)
  <2> HIDE DEF R
  <2> QED BY <1>1, WFMin
<1> QED BY <1>2

\* Induction up to n, on the set of numbers that a property holds of.
LEMMA UpTo ==
  ASSUME NEW n \in Nat, NEW S, 0 \in S, \A i \in 1..n : i - 1 \in S => i \in S
  PROVE  \A i \in 0..n : i \in S
<1> SUFFICES ASSUME NEW j \in 0..n, j \notin S
             PROVE  FALSE
  OBVIOUS
<1> DEFINE T == {i \in 0..n : i \notin S}
<1>1. PICK k \in T : \A y \in T : ~(y < k)
  <2>1. T \in SUBSET Nat /\ T # {}
    OBVIOUS
  <2> HIDE DEF T
  <2> QED BY <2>1, LeastOf
<1>2. k \in 1..n
  BY <1>1
<1>3. k - 1 \in S
  BY <1>1, <1>2
<1> QED BY <1>1, <1>2, <1>3

\* The greatest of a set that holds it.
LEMMA MaxIs ==
  ASSUME NEW S \in SUBSET Int, NEW m \in S, \A y \in S : m >= y
  PROVE  Max(S) = m
<1>1. \A x \in S : (\A y \in S : x >= y) => x = m
  OBVIOUS
<1>2. Max(S) \in S /\ \A y \in S : Max(S) >= y
  BY DEF Max
<1> QED BY <1>1, <1>2

\* The least of a set that holds it.
LEMMA MinIs ==
  ASSUME NEW S \in SUBSET Int, NEW m \in S, \A y \in S : m <= y
  PROVE  Min(S) = m
<1>1. \A x \in S : (\A y \in S : x <= y) => x = m
  OBVIOUS
<1>2. Min(S) \in S /\ \A y \in S : Min(S) <= y
  BY DEF Min
<1> QED BY <1>1, <1>2

\* A set of numbers up to n has a greatest, if it has any.
LEMMA MaxExists ==
  ASSUME NEW n \in Nat, NEW S \in SUBSET (0..n), S # {}
  PROVE  Max(S) \in S /\ \A y \in S : Max(S) >= y
<1> DEFINE T == {i \in 0..n : n - i \in S}
<1>1. PICK k \in T : \A y \in T : ~(y < k)
  <2>1. PICK s \in S : TRUE
    OBVIOUS
  <2>2. n - s \in T
    OBVIOUS
  <2>3. T \in SUBSET Nat /\ T # {}
    BY <2>2
  <2> HIDE DEF T
  <2> QED BY <2>3, LeastOf
<1>2. n - k \in S
  BY <1>1
<1>3. ASSUME NEW y \in S
      PROVE  n - k >= y
  <2>1. n - y \in T
    OBVIOUS
  <2> QED BY <2>1, <1>1
<1>4. Max(S) = n - k
  <2>1. S \in SUBSET Int
    OBVIOUS
  <2> QED BY <2>1, <1>2, <1>3, MaxIs
<1> QED BY <1>2, <1>3, <1>4

\* The function that defines a fold over 1..n exists: the one on the subsets of
\* 1..(k - 1) is extended to the subsets of 1..k.
Folding(E, k, base, step, it) ==
  /\ it \in [SUBSET (1..k) -> E]
  /\ \A s \in SUBSET (1..k) : it[s] = IF s = {} THEN base ELSE step[Max(s)][it[s \ {Max(s)}]]
\* Folding, for any values and any step that stays among them.
LEMMA FoldingExists ==
  ASSUME NEW n \in Nat, NEW E, NEW base \in E, NEW step \in [1..n -> [E -> E]]
  PROVE  \E it : Folding(E, n, base, step, it)
<1> DEFINE S == {k \in 0..n : \E it : Folding(E, k, base, step, it)}
<1>1. 0 \in S
  <2> DEFINE h == [s \in SUBSET (1..0) |-> base]
  <2>1. h \in [SUBSET (1..0) -> E]
    OBVIOUS
  <2>2. \A s \in SUBSET (1..0) : h[s] = base /\ s = {}
    OBVIOUS
  <2> HIDE DEF h
  <2>3. Folding(E, 0, base, step, h)
    BY <2>1, <2>2 DEF Folding
  <2> QED BY <2>3
<1>2. ASSUME NEW k \in 1..n, k - 1 \in S
      PROVE  k \in S
  <2>1. PICK g : Folding(E, k - 1, base, step, g)
    BY <1>2
  <2>2. /\ g \in [SUBSET (1..(k - 1)) -> E]
        /\ \A s \in SUBSET (1..(k - 1)) : g[s] = IF s = {} THEN base ELSE step[Max(s)][g[s \ {Max(s)}]]
    BY <2>1 DEF Folding
  <2> DEFINE h == [s \in SUBSET (1..k) |-> IF k \in s THEN step[k][g[s \ {k}]] ELSE g[s]]
  <2>3. ASSUME NEW s \in SUBSET (1..k), k \in s
        PROVE  /\ h[s] \in E /\ s # {}
               /\ h[s] = step[Max(s)][h[s \ {Max(s)}]]
    <3>1. Max(s) = k
      <4>1. s \in SUBSET Int /\ \A y \in s : k >= y
        OBVIOUS
      <4> QED BY <2>3, <4>1, MaxIs
    <3>2. s \ {k} \in SUBSET (1..(k - 1)) /\ s \ {k} \in SUBSET (1..k) /\ k \notin s \ {k}
      OBVIOUS
    <3>3. h[s \ {k}] = g[s \ {k}] /\ h[s] = step[k][g[s \ {k}]]
      BY <2>3, <3>2
    <3>4. g[s \ {k}] \in E
      BY <3>2, <2>2
    <3> HIDE DEF h
    <3> QED BY <2>3, <3>1, <3>3, <3>4
  <2>4. ASSUME NEW s \in SUBSET (1..k), k \notin s
        PROVE  /\ h[s] \in E
               /\ h[s] = IF s = {} THEN base ELSE step[Max(s)][h[s \ {Max(s)}]]
    <3>1. s \in SUBSET (1..(k - 1)) /\ s \ {Max(s)} \in SUBSET (1..k) /\ k \notin s \ {Max(s)}
      <4>1. \A x : s \ {x} \in SUBSET (1..k) /\ k \notin s \ {x}
        BY <2>4
      <4>2. s \in SUBSET (1..(k - 1))
        BY <2>4
      <4> QED BY <4>1, <4>2
    <3>2. h[s] = g[s] /\ h[s \ {Max(s)}] = g[s \ {Max(s)}]
      BY <3>1, <2>4
    <3> HIDE DEF h
    <3> QED BY <3>1, <3>2, <2>2
  <2>5. h \in [SUBSET (1..k) -> E]
    <3>1. \A s \in SUBSET (1..k) : h[s] \in E
      <4> HIDE DEF h
      <4> QED BY <2>3, <2>4
    <3> QED BY <3>1
  <2>6. Folding(E, k, base, step, h)
    <3> HIDE DEF h
    <3> QED BY <2>3, <2>4, <2>5 DEF Folding
  <2> HIDE DEF h
  <2> QED BY <2>6
<1>3. n \in S
  <2>1. \A k \in 1..n : k - 1 \in S => k \in S
    BY <1>2
  <2> HIDE DEF S
  <2>2. \A i \in 0..n : i \in S
    BY <1>1, <2>1, UpTo
  <2> QED BY <2>2
<1> QED BY <1>3

\* A fold takes the elements of its sequence one after the other: what it takes
\* off the first i elements is the last of them.
LEMMA FoldSteps ==
  ASSUME NEW n \in Nat, NEW i \in 1..n
  PROVE  /\ 1..i \in SUBSET (1..n) /\ 1..i # {}
         /\ Max(1..i) = i /\ (1..i) \ {Max(1..i)} = 1..(i - 1)
<1>1. Max(1..i) = i
  <2>1. 1..i \in SUBSET Int /\ i \in 1..i /\ \A y \in 1..i : i >= y
    OBVIOUS
  <2> QED BY <2>1, MaxIs
<1>2. 1..i \in SUBSET (1..n) /\ 1..i # {} /\ (1..i) \ {i} = 1..(i - 1)
  OBVIOUS
<1> QED BY <1>1, <1>2
-----------------------------------------------------------------------------
(* The end of a sequence.                                                  *)
\* The end of a sequence, as the engine takes it.
LEMMA LatestOfIs ==
  ASSUME NEW A, NEW s \in Seq(A), NEW n \in Nat
  PROVE  /\ LatestOf(s, n) \in Seq(A)
         /\ Len(LatestOf(s, n)) = IF Len(s) > n THEN n ELSE Len(s)
         /\ \A d \in 0..(Len(LatestOf(s, n)) - 1) : LatestOf(s, n)[Len(LatestOf(s, n)) - d] = s[Len(s) - d]
<1>1. CASE Len(s) > n
  <2>1. LatestOf(s, n) = SubSeq(s, Len(s) - n + 1, Len(s))
    BY <1>1 DEF LatestOf
  <2>2. /\ SubSeq(s, Len(s) - n + 1, Len(s)) \in Seq(A)
        /\ Len(SubSeq(s, Len(s) - n + 1, Len(s))) = n
        /\ \A i \in 1..n : SubSeq(s, Len(s) - n + 1, Len(s))[i] = s[Len(s) - n + i]
    BY <1>1
  <2> QED BY <1>1, <2>1, <2>2
<1>2. CASE Len(s) <= n
  BY <1>2 DEF LatestOf
<1> QED BY <1>1, <1>2
-----------------------------------------------------------------------------
(* Rings: an array that holds the end of a sequence, its newest element    *)
(* before the place that is written next.                                  *)
\* The place d before pos in a ring of cap places.
BackFrom(pos, d, cap) == IF d < pos THEN pos - 1 - d ELSE pos - 1 - d + cap

\* A ring of cap places that holds the latest of seq, the newest before pos.
Ring(array, cap, len, pos, seq) ==
  /\ pos \in 0..(cap - 1) /\ array = [i \in 0..(cap - 1) |-> array[i]]
  /\ len = (IF Len(seq) > cap THEN cap ELSE Len(seq)) /\ (len < cap => pos = len)
  /\ \A d \in 0..(len - 1) : array[BackFrom(pos, d, cap)] = seq[Len(seq) - d]

\* Modulo cap, in the two turns that are used.
LEMMA Modulo ==
  ASSUME NEW cap \in Nat \ {0}, NEW x \in 0..(2 * cap - 1)
  PROVE  x % cap = IF x < cap THEN x ELSE x - cap
<1>1. CASE x < cap
  OBVIOUS
<1>2. CASE x >= cap
  <2>1. PICK y \in 0..(cap - 1) : x = y + cap
    <3>1. x - cap \in 0..(cap - 1) /\ x = (x - cap) + cap
      BY <1>2
    <3> QED BY <3>1
  <2>2. y % cap = y
    OBVIOUS
  <2>3. (y + cap) % cap = y % cap
    OBVIOUS
  <2> QED BY <1>2, <2>1, <2>2, <2>3
<1> QED BY <1>1, <1>2

\* An element more takes the place of the oldest.
LEMMA RingMovesOn ==
  ASSUME NEW A, NEW seq \in Seq(A), NEW x \in A, NEW cap \in Nat \ {0}, NEW array, NEW len, NEW pos,
         Ring(array, cap, len, pos, seq)
  PROVE  Ring([array EXCEPT ![pos] = x], cap, IF len < cap THEN len + 1 ELSE len, (pos + 1) % cap,
              Append(seq, x))
<1> DEFINE more == Append(seq, x)
           next == (pos + 1) % cap
           after == [array EXCEPT ![pos] = x]
           held == IF len < cap THEN len + 1 ELSE len
<1>1. /\ Len(more) = Len(seq) + 1 /\ more[Len(seq) + 1] = x /\ Len(seq) \in Nat
      /\ \A i \in 1..Len(seq) : more[i] = seq[i]
  OBVIOUS
<1>2. pos \in 0..(cap - 1) /\ len \in 0..cap /\ len = (IF Len(seq) > cap THEN cap ELSE Len(seq))
      /\ (len < cap => pos = len)
  BY <1>1 DEF Ring
<1>3. next = IF pos + 1 = cap THEN 0 ELSE pos + 1
  <2>1. PICK y \in 0..(2 * cap - 1) : y = pos + 1
    BY <1>2
  <2>2. y % cap = IF y < cap THEN y ELSE y - cap
    BY Modulo
  <2>3. next = y % cap
    BY <2>1
  <2> HIDE DEF next
  <2>4. y <= cap
    BY <1>2, <2>1
  <2>5. next = IF y < cap THEN y ELSE y - cap
    BY Zenon, <2>2, <2>3
  <2> QED BY <2>1, <2>4, <2>5
<1>4. /\ \A i \in 0..(cap - 1) : after[i] = IF i = pos THEN x ELSE array[i]
      /\ after = [i \in 0..(cap - 1) |-> after[i]]
  BY <1>2 DEF Ring
<1> HIDE DEF more, next, after
<1>5. next \in 0..(cap - 1) /\ held = (IF Len(more) > cap THEN cap ELSE Len(more)) /\ (held < cap => next = held)
  BY <1>1, <1>2, <1>3
<1>6. ASSUME NEW d \in 0..(held - 1)
      PROVE  after[BackFrom(next, d, cap)] = more[Len(more) - d]
  <2>1. CASE d = 0
    <3>1. BackFrom(next, d, cap) = pos
      BY <1>2, <1>3, <2>1 DEF BackFrom
    <3>2. Len(more) - d = Len(seq) + 1
      BY <1>1, <2>1
    <3> QED BY <1>1, <1>2, <1>4, <3>1, <3>2
  <2>2. CASE d # 0
    <3>1. d - 1 \in 0..(len - 1) /\ d \in 1..(cap - 1)
      BY <1>2, <2>2
    <3>2. BackFrom(next, d, cap) = BackFrom(pos, d - 1, cap)
      BY <1>2, <1>3, <3>1 DEF BackFrom
    <3>3. BackFrom(pos, d - 1, cap) \in 0..(cap - 1) /\ BackFrom(pos, d - 1, cap) # pos
      BY <1>2, <3>1 DEF BackFrom
    <3>4. array[BackFrom(pos, d - 1, cap)] = seq[Len(seq) - (d - 1)]
      BY <3>1 DEF Ring
    <3>5. Len(more) - d = Len(seq) - (d - 1) /\ Len(seq) - (d - 1) \in 1..Len(seq)
      BY <1>1, <1>2, <3>1
    <3> QED BY <1>1, <1>4, <3>2, <3>3, <3>4, <3>5
  <2> QED BY <2>1, <2>2
<1> QED BY <1>4, <1>5, <1>6 DEF Ring, more, next, after

\* What is read from the oldest on are the latest elements in order.
LEMMA RingReads ==
  ASSUME NEW A, NEW seq \in Seq(A), NEW cap \in Nat \ {0}, NEW array, NEW len, NEW pos,
         Ring(array, cap, len, pos, seq)
  PROVE  /\ [i \in 1..len |-> array[((IF len < cap THEN 0 ELSE pos) + i - 1) % cap]] = LatestOf(seq, cap)
         /\ Len(LatestOf(seq, cap)) = len
<1> DEFINE start == IF len < cap THEN 0 ELSE pos
           latest == LatestOf(seq, cap)
<1>1. pos \in 0..(cap - 1) /\ len \in 0..cap /\ len = (IF Len(seq) > cap THEN cap ELSE Len(seq))
      /\ (len < cap => pos = len) /\ Len(seq) \in Nat
  BY DEF Ring
<1>2. /\ latest \in Seq(A) /\ Len(latest) = len
      /\ \A d \in 0..(Len(latest) - 1) : latest[Len(latest) - d] = seq[Len(seq) - d]
  BY <1>1, LatestOfIs
<1>3. ASSUME NEW i \in 1..len
      PROVE  array[(start + i - 1) % cap] = latest[i]
  <2>1. PICK d \in 0..(len - 1) : i = len - d
    <3>1. len - i \in 0..(len - 1) /\ i = len - (len - i)
      BY <1>1
    <3> QED BY <3>1
  <2>2. PICK y \in 0..(2 * cap - 1) : y = start + i - 1
    BY <1>1
  <2>3. start \in 0..(cap - 1) /\ (len < cap => start = 0) /\ (len = cap => start = pos)
    BY <1>1
  <2> HIDE DEF start
  <2>4. y % cap = BackFrom(pos, d, cap)
    <3>1. PICK z : z = IF y < cap THEN y ELSE y - cap
      OBVIOUS
    <3>2. y % cap = z
      BY <3>1, Modulo
    <3>3. y = start + len - d - 1
      BY <1>1, <2>1, <2>2, <2>3
    <3>4. BackFrom(pos, d, cap) = z
      BY <1>1, <2>3, <3>1, <3>3 DEF BackFrom
    <3> QED BY <3>2, <3>4
  <2>5. array[BackFrom(pos, d, cap)] = seq[Len(seq) - d]
    BY DEF Ring
  <2> HIDE DEF start, latest
  <2>6. array[y % cap] = latest[len - d]
    BY <1>2, <2>4, <2>5
  <2> QED BY Zenon, <2>1, <2>2, <2>6
<1>4. latest = [i \in 1..len |-> latest[i]]
  BY <1>2
<1> HIDE DEF latest, start
<1>5. [i \in 1..len |-> array[(start + i - 1) % cap]] = latest
  BY <1>3, <1>4
<1> QED BY <1>2, <1>5 DEF latest, start

\* A full ring's next place holds what leaves it.
LEMMA RingOldest ==
  ASSUME NEW A, NEW seq \in Seq(A), NEW cap \in Nat \ {0}, NEW array, NEW len, NEW pos,
         Ring(array, cap, len, pos, seq)
  PROVE  /\ (len = cap <=> Len(seq) >= cap)
         /\ len = cap => array[pos] = seq[Len(seq) - cap + 1]
<1>1. pos \in 0..(cap - 1) /\ len \in 0..cap /\ len = (IF Len(seq) > cap THEN cap ELSE Len(seq))
      /\ (len < cap => pos = len) /\ Len(seq) \in Nat
  BY DEF Ring
<1>2. ASSUME len = cap
      PROVE  array[pos] = seq[Len(seq) - cap + 1]
  <2>1. cap - 1 \in 0..(len - 1) /\ BackFrom(pos, cap - 1, cap) = pos
    BY <1>1, <1>2 DEF BackFrom
  <2>2. array[BackFrom(pos, cap - 1, cap)] = seq[Len(seq) - (cap - 1)]
    BY <2>1 DEF Ring
  <2>3. Len(seq) - (cap - 1) = Len(seq) - cap + 1
    BY <1>1
  <2> QED BY <2>1, <2>2, <2>3
<1> QED BY <1>1, <1>2

\* The place before the next one holds the newest.
LEMMA RingNewest ==
  ASSUME NEW A, NEW seq \in Seq(A), NEW cap \in Nat \ {0}, NEW array, NEW len, NEW pos,
         Ring(array, cap, len, pos, seq), Len(seq) # 0
  PROVE  array[(pos + cap - 1) % cap] = seq[Len(seq)]
<1>1. pos \in 0..(cap - 1) /\ len \in 1..cap /\ Len(seq) \in Nat
  BY DEF Ring
<1>2. (pos + cap - 1) % cap = BackFrom(pos, 0, cap)
  <2>1. PICK y \in 0..(2 * cap - 1) : y = pos + cap - 1
    BY <1>1
  <2>2. y % cap = IF y < cap THEN y ELSE y - cap
    BY Modulo
  <2>3. BackFrom(pos, 0, cap) = IF y < cap THEN y ELSE y - cap
    BY <1>1, <2>1 DEF BackFrom
  <2> QED BY Zenon, <2>1, <2>2, <2>3
<1>3. array[BackFrom(pos, 0, cap)] = seq[Len(seq) - 0]
  BY <1>1 DEF Ring
<1> QED BY <1>1, <1>2, <1>3
-----------------------------------------------------------------------------
(* Sums of a sequence and of its latest elements.                          *)
\* The sums of the first elements, up to the sum of all.
SumsOf(f, n, seq) ==
  /\ f \in [0..n -> Int] /\ f[0] = 0
  /\ \A i \in 1..n : f[i] = f[i - 1] + seq[i]

\* There are partial sums, and the last of them is the total that the model
\* computes by a fold.
LEMMA PartialSums ==
  ASSUME NEW n \in Nat, NEW seq \in [1..n -> Int]
  PROVE  \E f : SumsOf(f, n, seq) /\ f[n] = Total(seq)
<1> DEFINE step == [i \in 1..n |-> [x \in Int |-> x + seq[i]]]
           F == CHOOSE it : it = [s \in SUBSET DOMAIN seq |->
                   IF s = {} THEN 0 ELSE it[s \ {Max(s)}] + seq[Max(s)]]
<1>1. step \in [1..n -> [Int -> Int]]
  OBVIOUS
<1>2. PICK it : Folding(Int, n, 0, step, it)
  <2>1. PICK E, base : E = Int /\ base = 0
    OBVIOUS
  <2>2. base \in E /\ step \in [1..n -> [E -> E]]
    <3>1. 0 \in Int
      OBVIOUS
    <3> HIDE DEF step
    <3> QED BY Zenon, <1>1, <2>1, <3>1
  <2> HIDE DEF step
  <2>3. \E it : Folding(E, n, base, step, it)
    BY <2>2, FoldingExists
  <2> QED BY Zenon, <2>1, <2>3
<1>3. it = [s \in SUBSET DOMAIN seq |-> IF s = {} THEN 0 ELSE it[s \ {Max(s)}] + seq[Max(s)]]
  <2>1. it \in [SUBSET (1..n) -> Int] /\ DOMAIN seq = 1..n
    BY <1>2 DEF Folding
  <2>2. ASSUME NEW s \in SUBSET (1..n), s # {}
        PROVE  it[s] = it[s \ {Max(s)}] + seq[Max(s)]
    <3>1. Max(s) \in 1..n
      <4>1. s \in SUBSET (0..n)
        OBVIOUS
      <4>2. Max(s) \in s
        BY <2>2, <4>1, MaxExists
      <4> QED BY <4>2
    <3>2. it[s \ {Max(s)}] \in Int
      BY <2>1
    <3>3. it[s] = step[Max(s)][it[s \ {Max(s)}]]
      BY <1>2, <2>2 DEF Folding
    <3> QED BY <3>1, <3>2, <3>3
  <2>3. it[{}] = 0
    BY <1>2 DEF Folding
  <2> HIDE DEF step
  <2> QED BY <2>1, <2>2, <2>3
<1>4. F = [s \in SUBSET DOMAIN seq |-> IF s = {} THEN 0 ELSE F[s \ {Max(s)}] + seq[Max(s)]]
  BY <1>3
<1>5. Total(seq) = F[DOMAIN seq]
  BY DEF Total, FoldLeft, MapThenFoldSet
<1> HIDE DEF F
<1>6. DOMAIN seq = 1..n
  OBVIOUS
<1>7. F[1..0] = 0
  <2>1. {} \in SUBSET DOMAIN seq /\ 1..0 = {}
    OBVIOUS
  <2> QED BY <1>4, <2>1
<1>8. ASSUME NEW i \in 1..n
      PROVE  F[1..i] = F[1..(i - 1)] + seq[i]
  <2>1. /\ 1..i \in SUBSET DOMAIN seq /\ 1..i # {}
        /\ Max(1..i) = i /\ (1..i) \ {Max(1..i)} = 1..(i - 1)
    BY <1>6, FoldSteps
  <2>2. F[1..i] = F[(1..i) \ {Max(1..i)}] + seq[Max(1..i)]
    BY <1>4, <2>1
  <2> QED BY <2>1, <2>2
<1> DEFINE S == {i \in 0..n : F[1..i] \in Int}
<1>9. 0 \in S
  BY <1>7
<1>10. \A i \in 1..n : i - 1 \in S => i \in S
  BY <1>8
<1>11. \A i \in 0..n : i \in S
  <2> HIDE DEF S
  <2> QED BY <1>9, <1>10, UpTo
<1> DEFINE f == [i \in 0..n |-> F[1..i]]
<1>12. f \in [0..n -> Int] /\ f[0] = 0 /\ f[n] = F[1..n]
  BY <1>7, <1>11
<1>13. \A i \in 1..n : f[i] = f[i - 1] + seq[i]
  BY <1>8
<1> HIDE DEF f
<1> QED BY <1>5, <1>6, <1>12, <1>13 DEF SumsOf

\* Whatever sums the first elements ends with the sum of all.
LEMMA TotalIs ==
  ASSUME NEW n \in Nat, NEW seq \in [1..n -> Int], NEW f, SumsOf(f, n, seq)
  PROVE  Total(seq) = f[n] /\ Total(seq) \in Int
<1>1. PICK g : SumsOf(g, n, seq) /\ g[n] = Total(seq)
  BY PartialSums
<1> DEFINE S == {i \in 0..n : f[i] = g[i]}
<1>2. 0 \in S
  BY <1>1 DEF SumsOf
<1>3. \A i \in 1..n : i - 1 \in S => i \in S
  BY <1>1 DEF SumsOf
<1>4. \A i \in 0..n : i \in S
  <2> HIDE DEF S
  <2> QED BY <1>2, <1>3, UpTo
<1> QED BY <1>1, <1>4 DEF SumsOf

\* One number more at the end adds itself to the total.
LEMMA TotalOfMore ==
  ASSUME NEW seq \in Seq(Int), NEW x \in Int
  PROVE  Total(Append(seq, x)) = Total(seq) + x /\ Total(seq) \in Int
<1> DEFINE n == Len(seq)
           more == Append(seq, x)
<1>1. /\ n \in Nat /\ seq \in [1..n -> Int] /\ more \in [1..(n + 1) -> Int]
      /\ more[n + 1] = x /\ \A i \in 1..n : more[i] = seq[i]
  <2>1. n \in Nat /\ seq \in [1..n -> Int]
    OBVIOUS
  <2>2. more \in Seq(Int) /\ Len(more) = n + 1 /\ more[n + 1] = x /\ \A i \in 1..n : more[i] = seq[i]
    OBVIOUS
  <2> HIDE DEF n, more
  <2>3. more \in [1..(n + 1) -> Int]
    <3>1. more \in [1..Len(more) -> Int]
      BY <2>2
    <3> QED BY <2>2, <3>1
  <2> QED BY <2>1, <2>2, <2>3
<1> HIDE DEF n, more
<1>2. PICK f : SumsOf(f, n, seq) /\ f[n] = Total(seq)
  BY <1>1, PartialSums
<1> DEFINE g == [i \in 0..(n + 1) |-> IF i = n + 1 THEN f[n] + x ELSE f[i]]
<1>3. SumsOf(g, n + 1, more)
  <2>1. \A i \in 0..n : f[i] \in Int /\ g[i] = f[i]
    BY <1>1, <1>2 DEF SumsOf
  <2>2. g[n + 1] = f[n] + x /\ g[0] = 0
    BY <1>1, <1>2 DEF SumsOf
  <2>3. g \in [0..(n + 1) -> Int]
    <3>1. f[n] + x \in Int
      <4> HIDE DEF g
      <4> QED BY <1>1, <2>1
    <3>2. ASSUME NEW i \in 0..(n + 1)
          PROVE  (IF i = n + 1 THEN f[n] + x ELSE f[i]) \in Int
      <4>1. i # n + 1 => i \in 0..n
        BY <1>1
      <4> QED BY <2>1, <3>1, <4>1
    <3> QED BY <3>2
  <2> HIDE DEF g
  <2>4. \A i \in 1..(n + 1) : g[i] = g[i - 1] + more[i]
    <3>1. ASSUME NEW i \in 1..n
          PROVE  g[i] = g[i - 1] + more[i]
      <4>1. f[i] = f[i - 1] + seq[i]
        BY <1>2 DEF SumsOf
      <4>2. i - 1 \in 0..n /\ i \in 0..n
        BY <1>1
      <4> QED BY <1>1, <2>1, <4>1, <4>2
    <3>2. g[n + 1] = g[n + 1 - 1] + more[n + 1]
      BY <1>1, <2>1, <2>2
    <3> QED BY <1>1, <3>1, <3>2
  <2> QED BY <2>2, <2>3, <2>4 DEF SumsOf
<1>4. Total(more) = g[n + 1] /\ Total(seq) \in Int
  <2>1. n + 1 \in Nat
    BY <1>1
  <2>2. Total(more) = g[n + 1]
    <3> HIDE DEF g
    <3> QED BY <1>1, <1>3, <2>1, TotalIs
  <2>3. Total(seq) \in Int
    BY <1>1, <1>2, TotalIs
  <2> QED BY <2>2, <2>3
<1>5. g[n + 1] = f[n] + x
  BY <1>1
<1> HIDE DEF g
<1> QED BY <1>2, <1>4, <1>5 DEF more

\* The first number taken off takes itself off the total.
LEMMA TotalOfRest ==
  ASSUME NEW seq \in Seq(Int), seq # <<>>
  PROVE  Total(Tail(seq)) = Total(seq) - seq[1] /\ Tail(seq) \in Seq(Int) /\ seq[1] \in Int
<1> DEFINE n == Len(seq)
           rest == Tail(seq)
<1>1. /\ n \in Nat \ {0} /\ seq \in [1..n -> Int] /\ rest \in [1..(n - 1) -> Int] /\ rest \in Seq(Int)
      /\ \A i \in 1..(n - 1) : rest[i] = seq[i + 1]
  <2>1. n \in Nat /\ seq \in [1..n -> Int]
    OBVIOUS
  <2>2. n # 0
    BY EmptySeq
  <2>3. rest \in Seq(Int) /\ Len(rest) = n - 1 /\ \A i \in 1..(n - 1) : rest[i] = seq[i + 1]
    OBVIOUS
  <2> HIDE DEF n, rest
  <2>4. rest \in [1..(n - 1) -> Int]
    <3>1. rest \in [1..Len(rest) -> Int]
      BY <2>3
    <3> QED BY <2>3, <3>1
  <2> QED BY <2>1, <2>2, <2>3, <2>4
<1> HIDE DEF n, rest
<1>2. PICK f : SumsOf(f, n, seq) /\ f[n] = Total(seq)
  BY <1>1, PartialSums
<1>3. seq[1] \in Int /\ f[1] = seq[1] /\ \A i \in 0..n : f[i] \in Int
  <2>1. 1 \in 1..n /\ f[1] = f[1 - 1] + seq[1] /\ f[0] = 0 /\ \A i \in 0..n : f[i] \in Int
    BY <1>1, <1>2 DEF SumsOf
  <2>2. seq[1] \in Int
    BY <1>1, <2>1
  <2> QED BY <2>1, <2>2
<1> DEFINE g == [i \in 0..(n - 1) |-> f[i + 1] - seq[1]]
<1>4. SumsOf(g, n - 1, rest)
  <2>1. ASSUME NEW i \in 0..(n - 1)
        PROVE  i + 1 \in 0..n /\ f[i + 1] \in Int /\ g[i] = f[i + 1] - seq[1]
    BY <1>1, <1>3
  <2>2. g \in [0..(n - 1) -> Int]
    BY <1>3, <2>1
  <2>3. g[0] = 0
    BY <1>1, <1>3
  <2> HIDE DEF g
  <2>4. ASSUME NEW i \in 1..(n - 1)
        PROVE  g[i] = g[i - 1] + rest[i]
    <3>1. i + 1 \in 1..n /\ i - 1 \in 0..(n - 1) /\ i \in 0..(n - 1)
      BY <1>1
    <3>2. f[i + 1] = f[(i + 1) - 1] + seq[i + 1]
      BY <1>2, <3>1 DEF SumsOf
    <3>3. g[i] = f[i + 1] - seq[1] /\ g[i - 1] = f[i - 1 + 1] - seq[1] /\ rest[i] = seq[i + 1]
      BY <1>1, <2>1, <3>1
    <3>4. seq[i + 1] \in Int /\ f[i] \in Int /\ i - 1 + 1 = i /\ (i + 1) - 1 = i
      BY <1>1, <1>3, <3>1
    <3> QED BY <1>3, <3>2, <3>3, <3>4
  <2> QED BY <2>2, <2>3, <2>4 DEF SumsOf
<1>5. Total(rest) = g[n - 1]
  <2>1. n - 1 \in Nat
    BY <1>1
  <2> HIDE DEF g
  <2> QED BY <1>1, <1>4, <2>1, TotalIs
<1>6. g[n - 1] = f[n] - seq[1]
  <2>1. n - 1 \in 0..(n - 1) /\ n - 1 + 1 = n
    BY <1>1
  <2> QED BY <2>1
<1> HIDE DEF g
<1> QED BY <1>1, <1>2, <1>3, <1>5, <1>6 DEF rest

\* The sum of the latest moves on with the sequence.
LEMMA WindowMovesOn ==
  ASSUME NEW seq \in Seq(Int), NEW x \in Int, NEW cap \in Nat \ {0}
  PROVE  Total(LatestOf(Append(seq, x), cap)) =
           Total(LatestOf(seq, cap)) - (IF Len(seq) >= cap THEN seq[Len(seq) - cap + 1] ELSE 0) + x
<1> DEFINE latest == LatestOf(seq, cap)
           more == Append(seq, x)
           after == LatestOf(more, cap)
<1>1. /\ latest \in Seq(Int) /\ Len(latest) = (IF Len(seq) > cap THEN cap ELSE Len(seq))
      /\ \A d \in 0..(Len(latest) - 1) : latest[Len(latest) - d] = seq[Len(seq) - d]
  BY LatestOfIs
<1>2. /\ Len(more) = Len(seq) + 1 /\ more[Len(seq) + 1] = x /\ Len(seq) \in Nat
      /\ more \in Seq(Int) /\ \A i \in 1..Len(seq) : more[i] = seq[i]
  OBVIOUS
<1> HIDE DEF more
<1>3. /\ after \in Seq(Int) /\ Len(after) = (IF Len(seq) + 1 > cap THEN cap ELSE Len(seq) + 1)
      /\ \A d \in 0..(Len(after) - 1) : after[Len(after) - d] = more[Len(seq) + 1 - d]
  <2>1. /\ after \in Seq(Int) /\ Len(after) = (IF Len(more) > cap THEN cap ELSE Len(more))
        /\ \A d \in 0..(Len(after) - 1) : after[Len(after) - d] = more[Len(more) - d]
    BY <1>2, LatestOfIs
  <2> HIDE DEF after
  <2> QED BY <1>2, <2>1
<1> HIDE DEF latest, more, after
<1>4. CASE Len(seq) >= cap
  <2>1. Len(latest) = cap /\ Len(after) = cap /\ latest # <<>>
    BY <1>1, <1>2, <1>3, <1>4, SMTT(30)
  <2>2. /\ Tail(latest) \in Seq(Int) /\ Len(Tail(latest)) = cap - 1
        /\ \A i \in 1..(cap - 1) : Tail(latest)[i] = latest[i + 1]
    BY <1>1, <2>1
  <2>3. after = Append(Tail(latest), x)
    <3>1. ASSUME NEW i \in 1..cap
          PROVE  after[i] = Append(Tail(latest), x)[i]
      <4>1. PICK d \in 0..(cap - 1) : i = cap - d
        <5>1. cap - i \in 0..(cap - 1) /\ i = cap - (cap - i)
          OBVIOUS
        <5> QED BY <5>1
      <4>2. after[i] = more[Len(seq) + 1 - d]
        BY <1>3, <2>1, <4>1
      <4>3. CASE d = 0
        <5>1. after[i] = x
          BY <1>2, <4>2, <4>3
        <5>2. Append(Tail(latest), x)[i] = x
          BY <2>2, <4>1, <4>3
        <5> QED BY <5>1, <5>2
      <4>4. CASE d # 0
        <5>1. Len(seq) + 1 - d = Len(seq) - (d - 1) /\ Len(seq) - (d - 1) \in 1..Len(seq) /\ d - 1 \in 0..(cap - 1)
          BY <1>2, <1>4, <4>4
        <5>2. after[i] = latest[cap - (d - 1)]
          BY <1>1, <1>2, <2>1, <4>2, <5>1
        <5>3. Append(Tail(latest), x)[i] = Tail(latest)[i] /\ Tail(latest)[i] = latest[i + 1] /\ i + 1 = cap - (d - 1)
          BY <2>2, <4>1, <4>4
        <5> QED BY <5>2, <5>3
      <4> QED BY <4>3, <4>4
    <3>2. after \in Seq(Int) /\ Append(Tail(latest), x) \in Seq(Int) /\ Len(Append(Tail(latest), x)) = cap
      BY <1>3, <2>2
    <3> QED BY <2>1, <3>1, <3>2, SeqEqual
  <2>4. Total(after) = Total(Tail(latest)) + x /\ Total(Tail(latest)) = Total(latest) - latest[1]
        /\ latest[1] \in Int /\ Total(latest) \in Int
    <3>1. Total(Append(Tail(latest), x)) = Total(Tail(latest)) + x
      BY <2>2, TotalOfMore
    <3>2. Total(Tail(latest)) = Total(latest) - latest[1] /\ latest[1] \in Int
      BY <1>1, <2>1, TotalOfRest
    <3>3. Total(latest) \in Int
      BY <1>1, TotalOfMore
    <3> QED BY <2>3, <3>1, <3>2, <3>3
  <2>5. latest[1] = seq[Len(seq) - cap + 1]
    <3>1. cap - 1 \in 0..(Len(latest) - 1) /\ Len(latest) - (cap - 1) = 1
      BY <2>1
    <3>2. latest[Len(latest) - (cap - 1)] = seq[Len(seq) - (cap - 1)]
      BY <1>1, <3>1
    <3>3. Len(seq) - (cap - 1) = Len(seq) - cap + 1
      BY <1>2
    <3> QED BY <3>1, <3>2, <3>3
  <2>6. Total(after) = Total(latest) - latest[1] + x
    BY <2>4
  <2> QED BY <1>4, <2>5, <2>6 DEF latest, more, after
<1>5. CASE Len(seq) < cap
  <2>1. latest = seq /\ after = Append(seq, x)
    BY <1>2, <1>5 DEF latest, more, after, LatestOf
  <2>2. Total(Append(seq, x)) = Total(seq) + x /\ Total(seq) \in Int
    BY TotalOfMore
  <2>3. ~(Len(seq) >= cap)
    BY <1>2, <1>5
  <2>4. Total(after) = Total(latest) - 0 + x
    BY <2>1, <2>2
  <2> QED BY <2>3, <2>4 DEF latest, more, after
<1> QED BY <1>2, <1>4, <1>5

\* What is counted is the sum of what each element counts.
CountedEach(seq, Test(_)) == [i \in 1..Len(seq) |-> IF Test(seq[i]) THEN 1 ELSE 0]
\* How many hits there are is the total of those ones.
LEMMA CountsAreSums ==
  ASSUME NEW seq \in Seq(Int)
  PROVE  Counting(seq, Hit) = Total(CountedEach(seq, Hit))
<1> DEFINE n == Len(seq)
           each == CountedEach(seq, Hit)
           P(i) == {j \in 1..i : Hit(seq[j])}
           f == [i \in 0..n |-> Cardinality(P(i))]
<1>1. n \in Nat /\ DOMAIN seq = 1..n
  OBVIOUS
<1>2. each \in [1..n -> Int] /\ \A i \in 1..n : each[i] = IF Hit(seq[i]) THEN 1 ELSE 0
  BY DEF CountedEach
<1>3. \A i \in 0..n : IsFiniteSet(P(i)) /\ Cardinality(P(i)) \in Nat
  <2>1. ASSUME NEW i \in 0..n
        PROVE  IsFiniteSet(P(i)) /\ Cardinality(P(i)) \in Nat
    <3>1. IsFiniteSet(1..i)
      BY UpToIsFinite
    <3>2. P(i) \in SUBSET (1..i)
      OBVIOUS
    <3> HIDE DEF P
    <3> QED BY <3>1, <3>2, FS_Subset, FS_CardinalityType
  <2> QED BY <2>1
<1>4. ASSUME NEW i \in 1..n
      PROVE  Cardinality(P(i)) = Cardinality(P(i - 1)) + (IF Hit(seq[i]) THEN 1 ELSE 0)
  <2>1. i - 1 \in 0..n
    OBVIOUS
  <2>2. IsFiniteSet(P(i - 1)) /\ Cardinality(P(i - 1)) \in Nat
    BY <1>3, <2>1
  <2>3. CASE Hit(seq[i])
    <3>1. P(i) = P(i - 1) \cup {i} /\ i \notin P(i - 1)
      BY <2>3
    <3> HIDE DEF P
    <3>2. Cardinality(P(i - 1) \cup {i}) = Cardinality(P(i - 1)) + 1
      BY <2>2, <3>1, FS_AddElement
    <3> QED BY <2>3, <3>1, <3>2
  <2>4. CASE ~Hit(seq[i])
    <3>1. P(i) = P(i - 1)
      BY <2>4
    <3> HIDE DEF P
    <3> QED BY <2>2, <2>4, <3>1
  <2> QED BY <2>3, <2>4
<1>5. Cardinality(P(0)) = 0
  <2>1. P(0) = {}
    OBVIOUS
  <2> HIDE DEF P
  <2> QED BY <2>1, FS_EmptySet
<1>6. Counting(seq, Hit) = Cardinality(P(n))
  BY <1>1 DEF Counting
<1> HIDE DEF P, each
<1>7. f \in [0..n -> Int] /\ f[0] = 0 /\ f[n] = Cardinality(P(n))
  BY <1>1, <1>3, <1>5
<1>8. ASSUME NEW i \in 1..n
      PROVE  f[i] = f[i - 1] + each[i]
  <2>1. f[i] = Cardinality(P(i)) /\ f[i - 1] = Cardinality(P(i - 1))
    OBVIOUS
  <2> HIDE DEF f
  <2> QED BY <1>2, <1>4, <2>1
<1> HIDE DEF f
<1>9. SumsOf(f, n, each)
  BY <1>7, <1>8 DEF SumsOf
<1>10. Total(each) = f[n]
  BY <1>1, <1>2, <1>9, TotalIs
<1> QED BY <1>6, <1>7, <1>10 DEF each
-----------------------------------------------------------------------------
(* Runs of equal elements and the transitions between neighbours.          *)
\* Runs in a sequence: how many of the last are x, and the run that ends at i.
EndsRun(hs, x, k) ==
  /\ k \in 0..Len(hs) /\ \A j \in (Len(hs) - k + 1)..Len(hs) : hs[j] = x
  /\ k < Len(hs) => hs[Len(hs) - k] # x
\* Lengths of runs of equal elements that end at place i; the longest of them.
RunsUpTo(hs, i) == {k \in 0..i : \A j \in (i - k + 1)..i : hs[j] = hs[i]}
RunUpTo(hs, i) == Max(RunsUpTo(hs, i))
RunsIn(hs, x) == {RunUpTo(hs, i) : i \in {j \in 1..Len(hs) : hs[j] = x}}
IsLongest(hs, x, m) == m \in Nat /\ m \in {0} \cup RunsIn(hs, x) /\ \A r \in RunsIn(hs, x) : r \in Nat /\ r <= m
\* Where b follows a.
Transitions(hs, a, b) == {i \in 2..Len(hs) : hs[i - 1] = a /\ hs[i] = b}

\* A sequence and one more.
LEMMA MoreIs ==
  ASSUME NEW S, NEW hs \in Seq(S), NEW y \in S
  PROVE  /\ Append(hs, y) \in Seq(S) /\ Len(Append(hs, y)) = Len(hs) + 1 /\ Len(hs) \in Nat
         /\ Append(hs, y)[Len(hs) + 1] = y /\ \A i \in 1..Len(hs) : Append(hs, y)[i] = hs[i]
OBVIOUS

\* One more of the same makes the run longer, another ends it.
LEMMA RunMovesOn ==
  ASSUME NEW S, NEW hs \in Seq(S), NEW x \in S, NEW y \in S, NEW k, EndsRun(hs, x, k)
  PROVE  EndsRun(Append(hs, y), x, IF y = x THEN k + 1 ELSE 0)
<1> DEFINE more == Append(hs, y)
           n == Len(hs)
<1>1. /\ Len(more) = n + 1 /\ n \in Nat /\ more[n + 1] = y /\ \A i \in 1..n : more[i] = hs[i]
  BY MoreIs
<1>2. k \in 0..n /\ (\A j \in (n - k + 1)..n : hs[j] = x) /\ (k < n => hs[n - k] # x)
  BY DEF EndsRun
<1> HIDE DEF more, n
<1>3. CASE y = x
  <2>1. k + 1 \in 0..(n + 1)
    BY <1>1, <1>2
  <2>2. ASSUME NEW j \in (n + 1 - (k + 1) + 1)..(n + 1)
        PROVE  more[j] = x
    <3>1. j = n + 1 \/ (j \in (n - k + 1)..n /\ j \in 1..n)
      BY <1>1, <1>2
    <3> QED BY <1>1, <1>2, <1>3, <3>1
  <2>3. k + 1 < n + 1 => more[n + 1 - (k + 1)] # x
    <3>1. n + 1 - (k + 1) = n - k /\ (k + 1 < n + 1 => k < n /\ n - k \in 1..n)
      BY <1>1, <1>2
    <3> QED BY <1>1, <1>2, <3>1
  <2> QED BY <1>1, <1>3, <2>1, <2>2, <2>3 DEF EndsRun, more
<1>4. CASE y # x
  <2>1. 0 \in 0..(n + 1) /\ n + 1 - 0 = n + 1 /\ \A j \in (n + 1 - 0 + 1)..(n + 1) : FALSE
    BY <1>1
  <2>2. EndsRun(more, x, 0)
    BY <1>1, <1>4, <2>1 DEF EndsRun
  <2> QED BY <1>4, <2>2 DEF more
<1> QED BY <1>3, <1>4

\* A run that does not end the sequence stays what it was.
LEMMA RunStays ==
  ASSUME NEW S, NEW hs \in Seq(S), NEW y \in S, NEW i \in 1..Len(hs)
  PROVE  RunUpTo(Append(hs, y), i) = RunUpTo(hs, i)
<1> DEFINE more == Append(hs, y)
<1>1. Len(hs) \in Nat /\ \A j \in 1..Len(hs) : more[j] = hs[j]
  BY MoreIs
<1> HIDE DEF more
<1>2. \A k \in 0..i : \A j \in (i - k + 1)..i : j \in 1..Len(hs)
  BY <1>1
<1>3. RunsUpTo(more, i) = RunsUpTo(hs, i)
  BY <1>1, <1>2 DEF RunsUpTo
<1> QED BY <1>3 DEF RunUpTo, more

\* The run at the end is the number of the last that are the same.
LEMMA RunOfEnd ==
  ASSUME NEW S, NEW hs \in Seq(S), NEW x \in S, NEW k, EndsRun(hs, x, k), k # 0
  PROVE  hs[Len(hs)] = x /\ RunUpTo(hs, Len(hs)) = k
<1> DEFINE n == Len(hs)
<1>1. n \in Nat /\ k \in 1..n /\ (\A j \in (n - k + 1)..n : hs[j] = x) /\ (k < n => hs[n - k] # x)
  BY DEF EndsRun
<1> HIDE DEF n
<1>2. hs[n] = x
  <2>1. n \in (n - k + 1)..n
    BY <1>1
  <2> QED BY <1>1, <2>1
<1>3. k \in RunsUpTo(hs, n)
  <2>1. k \in 0..n
    BY <1>1
  <2> QED BY <1>1, <1>2, <2>1 DEF RunsUpTo
<1>4. ASSUME NEW r \in RunsUpTo(hs, n)
      PROVE  k >= r
  <2>1. SUFFICES ASSUME ~(k >= r)
                 PROVE  FALSE
    OBVIOUS
  <2>2. r \in 0..n /\ \A j \in (n - r + 1)..n : hs[j] = hs[n]
    BY DEF RunsUpTo
  <2>3. n - k \in (n - r + 1)..n /\ k < n
    BY <1>1, <2>1, <2>2
  <2> QED BY <1>1, <1>2, <2>2, <2>3
<1>5. RunsUpTo(hs, n) \in SUBSET Int
  BY DEF RunsUpTo
<1>6. RunUpTo(hs, n) = k
  BY <1>3, <1>4, <1>5, MaxIs DEF RunUpTo
<1> QED BY <1>2, <1>6 DEF n

\* The longest run, with one more.
LEMMA LongestMovesOn ==
  ASSUME NEW S, NEW hs \in Seq(S), NEW x \in S, NEW y \in S, NEW k, EndsRun(hs, x, k),
         NEW m, IsLongest(hs, x, m), NEW r, r = IF y = x THEN k + 1 ELSE 0
  PROVE  IsLongest(Append(hs, y), x, IF r > m THEN r ELSE m)
<1> DEFINE more == Append(hs, y)
           n == Len(hs)
<1>1. /\ more \in Seq(S) /\ Len(more) = n + 1 /\ n \in Nat /\ more[n + 1] = y
      /\ \A i \in 1..n : more[i] = hs[i]
  BY MoreIs
<1>2. m \in Nat /\ m \in {0} \cup RunsIn(hs, x) /\ \A q \in RunsIn(hs, x) : q \in Nat /\ q <= m
  BY DEF IsLongest
<1>3. k \in Nat
  BY <1>1 DEF EndsRun
<1>4. EndsRun(more, x, r)
  BY RunMovesOn
<1>5. \A i \in 1..n : RunUpTo(more, i) = RunUpTo(hs, i)
  BY RunStays
<1> HIDE DEF more, n
<1>6. CASE y = x
  <2>1. r = k + 1 /\ r \in Nat /\ r # 0
    BY <1>3, <1>6
  <2>2. RunUpTo(more, n + 1) = r
    <3>1. RunUpTo(more, Len(more)) = r
      BY <1>1, <1>4, <2>1, RunOfEnd
    <3> QED BY <1>1, <3>1
  <2>3. RunsIn(more, x) = RunsIn(hs, x) \cup {r}
    <3>1. {j \in 1..(n + 1) : more[j] = x} = {j \in 1..n : hs[j] = x} \cup {n + 1}
      <4>1. ASSUME NEW j \in 1..(n + 1)
            PROVE  j \in 1..n \/ j = n + 1
        BY <1>1
      <4>2. n + 1 \in 1..(n + 1) /\ \A j \in 1..n : j \in 1..(n + 1)
        BY <1>1
      <4> QED BY <1>1, <1>6, <4>1, <4>2
    <3> QED BY <1>1, <1>5, <2>2, <3>1 DEF RunsIn, n
  <2>4. m \in {0} \cup RunsIn(more, x) /\ r \in RunsIn(more, x)
    BY <1>2, <2>3
  <2>5. PICK z : z = IF r > m THEN r ELSE m
    OBVIOUS
  <2>6. z \in Nat /\ z \in {0} \cup RunsIn(more, x)
    BY <1>2, <2>1, <2>4, <2>5
  <2>7. \A q \in RunsIn(more, x) : q \in Nat /\ q <= z
    BY <1>2, <2>1, <2>3, <2>5
  <2>8. IsLongest(more, x, z)
    BY <2>6, <2>7 DEF IsLongest
  <2> QED BY <2>5, <2>8 DEF more
<1>7. CASE y # x
  <2>1. RunsIn(more, x) = RunsIn(hs, x)
    <3>1. {j \in 1..(n + 1) : more[j] = x} = {j \in 1..n : hs[j] = x}
      <4>1. ASSUME NEW j \in 1..(n + 1)
            PROVE  j \in 1..n \/ j = n + 1
        BY <1>1
      <4>2. \A j \in 1..n : j \in 1..(n + 1)
        BY <1>1
      <4> QED BY <1>1, <1>7, <4>1, <4>2
    <3> QED BY <1>1, <1>5, <3>1 DEF RunsIn, n
  <2>2. ~(r > m)
    BY <1>2, <1>7
  <2>3. IsLongest(more, x, m)
    BY <1>2, <2>1 DEF IsLongest
  <2> QED BY <2>2, <2>3 DEF more
<1> QED BY <1>6, <1>7

\* IsLongest names the maximum the property speaks of.
LEMMA LongestIs ==
  ASSUME NEW hs, NEW x, NEW m, IsLongest(hs, x, m)
  PROVE  Max({0} \cup RunsIn(hs, x)) = m
<1> DEFINE all == {0} \cup RunsIn(hs, x)
<1>1. all \in SUBSET Int /\ m \in all /\ \A q \in all : m >= q
  BY DEF IsLongest
<1> HIDE DEF all
<1>2. Max(all) = m
  BY <1>1, MaxIs
<1> QED BY <1>2 DEF all

\* The transitions are finite and one more is counted once.
LEMMA TransitionsCount ==
  ASSUME NEW S, NEW hs \in Seq(S), NEW a \in S, NEW b \in S
  PROVE  IsFiniteSet(Transitions(hs, a, b)) /\ Cardinality(Transitions(hs, a, b)) \in Nat
<1>1. IsFiniteSet(2..Len(hs))
  BY FS_Interval
<1>2. Transitions(hs, a, b) \in SUBSET (2..Len(hs))
  BY DEF Transitions
<1> QED BY <1>1, <1>2, FS_Subset, FS_CardinalityType

\* One element more is one transition more, from the last to it.
LEMMA TransitionsMoveOn ==
  ASSUME NEW S, NEW hs \in Seq(S), NEW y \in S, NEW a \in S, NEW b \in S
  PROVE  Cardinality(Transitions(Append(hs, y), a, b)) =
           Cardinality(Transitions(hs, a, b))
             + (IF Len(hs) # 0 /\ hs[Len(hs)] = a /\ y = b THEN 1 ELSE 0)
<1> DEFINE more == Append(hs, y)
           n == Len(hs)
           old == Transitions(hs, a, b)
           new == Transitions(more, a, b)
<1>1. /\ Len(more) = n + 1 /\ n \in Nat /\ more[n + 1] = y /\ \A i \in 1..n : more[i] = hs[i]
  BY MoreIs
<1>2. IsFiniteSet(old) /\ Cardinality(old) \in Nat
  BY TransitionsCount
<1>3. old = {i \in 2..n : hs[i - 1] = a /\ hs[i] = b}
  BY DEF Transitions
<1> HIDE DEF more, n
<1>4. new = {i \in 2..(n + 1) : more[i - 1] = a /\ more[i] = b}
  BY <1>1 DEF Transitions
<1> HIDE DEF old, new
<1>5. \A i \in 2..n : i \in 2..(n + 1) /\ more[i - 1] = hs[i - 1] /\ more[i] = hs[i]
  <2>1. ASSUME NEW i \in 2..n
        PROVE  i \in 2..(n + 1) /\ i \in 1..n /\ i - 1 \in 1..n
    BY <1>1
  <2> QED BY <1>1, <2>1
<1>6. \A i \in 2..(n + 1) : i \in 2..n \/ i = n + 1
  BY <1>1
<1>7. n + 1 \notin old
  BY <1>1, <1>3
<1>8. CASE n # 0 /\ hs[n] = a /\ y = b
  <2>1. n + 1 \in 2..(n + 1) /\ n + 1 - 1 = n /\ n \in 1..n
    BY <1>1, <1>8
  <2>2. more[n + 1 - 1] = a /\ more[n + 1] = b
    BY <1>1, <1>8, <2>1
  <2>3. new = old \cup {n + 1}
    BY <1>3, <1>4, <1>5, <1>6, <2>1, <2>2
  <2>4. Cardinality(old \cup {n + 1}) = Cardinality(old) + 1
    BY <1>2, <1>7, FS_AddElement
  <2> QED BY <1>8, <2>3, <2>4 DEF more, n, old, new
<1>9. CASE ~(n # 0 /\ hs[n] = a /\ y = b)
  <2>1. n + 1 \notin new
    <3>1. SUFFICES ASSUME n + 1 \in new
                   PROVE  FALSE
      OBVIOUS
    <3>2. PICK i \in new : i = n + 1
      BY <3>1
    <3>3. i \in 2..(n + 1) /\ more[i - 1] = a /\ more[i] = b
      BY <1>4
    <3>4. n # 0 /\ i - 1 = n /\ n \in 1..n
      BY <1>1, <3>2, <3>3
    <3> QED BY <1>1, <1>9, <3>2, <3>3, <3>4
  <2>2. new = old
    BY <1>3, <1>4, <1>5, <1>6, <2>1
  <2>3. Cardinality(old) = Cardinality(old) + 0
    BY <1>2
  <2> QED BY <1>9, <2>2, <2>3 DEF more, n, old, new
<1> QED BY <1>8, <1>9
-----------------------------------------------------------------------------
(* The incremental state engine.                                           *)
\* What an engine is made of.
IncrementalEngines ==
  [ lag : [0..(LagCap - 1) -> 0..3], lagLen : Nat, lagPos : 0..(LagCap - 1),
    short : [0..(ShortCap - 1) -> 0..3], shortLen : Nat, shortPos : 0..(ShortCap - 1),
    shortSum : Int, shortHits : Int,
    run : [hit : Nat, miss : Nat], longest : [hit : Nat, miss : Nat],
    trans : [BOOLEAN -> [BOOLEAN -> Nat]],
    hits : Nat, count : Nat ]

\* Which of the points are hits.
HitsOf(seq) == [i \in 1..Len(seq) |-> Hit(seq[i])]

\* The two rings hold the latest points, and the count is that of all.
RingsMatch(seq, e) ==
  /\ Ring(e.lag, LagCap, e.lagLen, e.lagPos, seq) /\ Ring(e.short, ShortCap, e.shortLen, e.shortPos, seq)
  /\ e.count = Len(seq)
\* The running sum and the hits of the short window are those of its points.
SumsMatch(seq, e) ==
  /\ e.shortSum = Total(LatestOf(seq, ShortCap))
  /\ e.shortHits = Total(LatestOf(CountedEach(seq, Hit), ShortCap))
\* The current and the longest run of each kind.
RunsMatch(hs, e) ==
  /\ EndsRun(hs, TRUE, e.run.hit) /\ EndsRun(hs, FALSE, e.run.miss)
  /\ IsLongest(hs, TRUE, e.longest.hit) /\ IsLongest(hs, FALSE, e.longest.miss)
\* The matrix counts each pair of neighbours once.
TransMatch(hs, e) == \A a, b \in BOOLEAN : e.trans[a][b] = Cardinality(Transitions(hs, a, b))

\* An engine agrees with the points it was given.
EngineGood(seq, e) ==
  /\ seq \in Seq(1..3) /\ e \in IncrementalEngines
  /\ RingsMatch(seq, e) /\ SumsMatch(seq, e) /\ RunsMatch(HitsOf(seq), e) /\ TransMatch(HitsOf(seq), e)

\* Inductive: the engine agrees with all points since it was last seeded or
\* created.
EngineInv == EngineGood(points, engine)

\* The hits of one point more are those before and one more.
LEMMA HitsAre ==
  ASSUME NEW seq \in Seq(1..3)
  PROVE  /\ HitsOf(seq) \in Seq(BOOLEAN) /\ Len(HitsOf(seq)) = Len(seq)
         /\ \A p \in 1..3 : HitsOf(Append(seq, p)) = Append(HitsOf(seq), Hit(p))
<1>1. \A p : Hit(p) \in BOOLEAN
  BY DEF Hit
<1>2. Len(seq) \in Nat
  OBVIOUS
<1>3. HitsOf(seq) \in Seq(BOOLEAN) /\ Len(HitsOf(seq)) = Len(seq)
  BY <1>1, <1>2 DEF HitsOf
<1>4. ASSUME NEW p \in 1..3
      PROVE  HitsOf(Append(seq, p)) = Append(HitsOf(seq), Hit(p))
  <2> DEFINE more == Append(seq, p)
  <2>1. /\ Len(more) = Len(seq) + 1 /\ more[Len(seq) + 1] = p /\ \A i \in 1..Len(seq) : more[i] = seq[i]
    OBVIOUS
  <2> HIDE DEF more
  <2>2. HitsOf(more) \in Seq(BOOLEAN) /\ Len(HitsOf(more)) = Len(seq) + 1
    <3>1. HitsOf(more) = [i \in 1..(Len(seq) + 1) |-> Hit(more[i])]
      BY <2>1 DEF HitsOf
    <3>2. Len(seq) + 1 \in Nat
      BY <1>2
    <3> QED BY <1>1, <3>1, <3>2
  <2>3. /\ Append(HitsOf(seq), Hit(p)) \in Seq(BOOLEAN) /\ Len(Append(HitsOf(seq), Hit(p))) = Len(seq) + 1
        /\ Append(HitsOf(seq), Hit(p))[Len(seq) + 1] = Hit(p)
        /\ \A i \in 1..Len(seq) : Append(HitsOf(seq), Hit(p))[i] = HitsOf(seq)[i]
    BY <1>1, <1>3, MoreIs
  <2>4. ASSUME NEW i \in 1..(Len(seq) + 1)
        PROVE  HitsOf(more)[i] = Append(HitsOf(seq), Hit(p))[i]
    <3>1. HitsOf(more)[i] = Hit(more[i])
      BY <2>1 DEF HitsOf
    <3>2. CASE i = Len(seq) + 1
      BY Zenon, <2>1, <2>3, <3>1, <3>2
    <3>3. CASE i \in 1..Len(seq)
      <4>1. HitsOf(seq)[i] = Hit(seq[i])
        BY <3>3 DEF HitsOf
      <4> QED BY Zenon, <2>1, <2>3, <3>1, <3>3, <4>1
    <3>4. i = Len(seq) + 1 \/ i \in 1..Len(seq)
      BY <1>2
    <3> QED BY Zenon, <3>2, <3>3, <3>4
  <2> HIDE DEF HitsOf
  <2>5. \A i \in 1..Len(HitsOf(more)) : HitsOf(more)[i] = Append(HitsOf(seq), Hit(p))[i]
    BY Zenon, <2>2, <2>4
  <2>6. HitsOf(more) = Append(HitsOf(seq), Hit(p))
    BY <2>2, <2>3, <2>5, SeqEqual
  <2> QED BY <2>6 DEF more
<1> QED BY <1>3, <1>4

\* A new engine agrees with no points.
LEMMA EmptyIsGood == EngineGood(<<>>, EmptyEngine)
<1> DEFINE e == EmptyEngine
<1>1. LagCap \in Nat \ {0} /\ ShortCap \in Nat \ {0}
  BY LearningAssumption
<1>2. e \in IncrementalEngines
  <2>1. \A cap \in Nat \ {0} : [i \in 0..(cap - 1) |-> 0] \in [0..(cap - 1) -> 0..3] /\ 0 \in 0..(cap - 1)
    OBVIOUS
  <2>2. [hit |-> 0, miss |-> 0] \in [hit : Nat, miss : Nat]
    OBVIOUS
  <2>3. [from \in BOOLEAN |-> [to \in BOOLEAN |-> 0]] \in [BOOLEAN -> [BOOLEAN -> Nat]]
    OBVIOUS
  <2> QED BY <1>1, <2>1, <2>2, <2>3 DEF EmptyEngine, IncrementalEngines
<1>3. <<>> \in Seq(1..3) /\ Len(<<>>) = 0 /\ <<>> \in Seq(Int)
  OBVIOUS
<1>4. RingsMatch(<<>>, e)
  <2>1. \A cap \in Nat \ {0} : Ring([i \in 0..(cap - 1) |-> 0], cap, 0, 0, <<>>)
    BY <1>3 DEF Ring
  <2> QED BY <1>1, <1>3, <2>1 DEF RingsMatch, EmptyEngine
<1>5. SumsMatch(<<>>, e)
  <2>1. LatestOf(<<>>, ShortCap) = <<>> /\ CountedEach(<<>>, Hit) = <<>>
    BY <1>1, <1>3 DEF LatestOf, CountedEach
  <2>2. Total(<<>>) = 0
    <3>1. PICK n, s : n = 0 /\ s = <<>>
      OBVIOUS
    <3>2. n \in Nat /\ s \in [1..n -> Int]
      BY <3>1
    <3>3. PICK f : SumsOf(f, n, s) /\ f[n] = Total(s)
      BY <3>2, PartialSums
    <3> QED BY <3>1, <3>3 DEF SumsOf
  <2> QED BY <2>1, <2>2 DEF SumsMatch, EmptyEngine
<1>6. HitsOf(<<>>) = <<>>
  BY <1>3 DEF HitsOf
<1>7. RunsMatch(<<>>, e)
  <2>1. \A x : EndsRun(<<>>, x, 0)
    BY <1>3 DEF EndsRun
  <2>2. \A x : RunsIn(<<>>, x) = {}
    BY <1>3 DEF RunsIn
  <2>3. \A x : IsLongest(<<>>, x, 0)
    BY <2>2 DEF IsLongest
  <2>4. e.run.hit = 0 /\ e.run.miss = 0 /\ e.longest.hit = 0 /\ e.longest.miss = 0
    BY DEF EmptyEngine
  <2> HIDE DEF e
  <2> QED BY <2>1, <2>3, <2>4 DEF RunsMatch
<1>8. TransMatch(<<>>, e)
  <2>1. \A a, b : Transitions(<<>>, a, b) = {}
    BY <1>3 DEF Transitions
  <2>2. Cardinality({}) = 0
    BY FS_EmptySet
  <2>3. \A a, b \in BOOLEAN : e.trans[a][b] = 0
    BY DEF EmptyEngine
  <2> HIDE DEF e
  <2> QED BY <2>1, <2>2, <2>3 DEF TransMatch
<1> HIDE DEF e
<1> QED BY <1>2, <1>3, <1>4, <1>5, <1>6, <1>7, <1>8 DEF EngineGood, e

\* One point more: the sequences that are counted and summed grow by one each.
LEMMA PointIs ==
  ASSUME NEW seq \in Seq(1..3), NEW p \in 1..3
  PROVE  /\ Append(seq, p) \in Seq(1..3) /\ seq \in Seq(Int) /\ Len(seq) \in Nat
         /\ CountedEach(seq, Hit) \in Seq(Int) /\ Len(CountedEach(seq, Hit)) = Len(seq)
         /\ \A i \in 1..Len(seq) : CountedEach(seq, Hit)[i] = IF Hit(seq[i]) THEN 1 ELSE 0
         /\ CountedEach(Append(seq, p), Hit) = Append(CountedEach(seq, Hit), IF Hit(p) THEN 1 ELSE 0)
<1>1. Append(seq, p) \in Seq(1..3) /\ Len(seq) \in Nat
  OBVIOUS
<1>2. seq \in Seq(Int)
  <2>1. \A i \in 1..Len(seq) : seq[i] \in Int
    <3>1. \A i \in 1..Len(seq) : seq[i] \in 1..3
      OBVIOUS
    <3> QED BY <3>1
  <2>2. seq = [i \in 1..Len(seq) |-> seq[i]]
    OBVIOUS
  <2> QED BY <1>1, <2>1, <2>2
<1>3. /\ CountedEach(seq, Hit) \in Seq(Int) /\ Len(CountedEach(seq, Hit)) = Len(seq)
      /\ \A i \in 1..Len(seq) : CountedEach(seq, Hit)[i] = IF Hit(seq[i]) THEN 1 ELSE 0
  BY <1>1 DEF CountedEach
<1>4. CountedEach(Append(seq, p), Hit) = Append(CountedEach(seq, Hit), IF Hit(p) THEN 1 ELSE 0)
  <2> DEFINE more == Append(seq, p)
             each == CountedEach(seq, Hit)
  <2>1. PICK b \in Int : b = IF Hit(p) THEN 1 ELSE 0
    OBVIOUS
  <2>2. /\ Len(more) = Len(seq) + 1 /\ more[Len(seq) + 1] = p /\ \A i \in 1..Len(seq) : more[i] = seq[i]
    OBVIOUS
  <2>3. /\ Append(each, b) \in Seq(Int) /\ Len(Append(each, b)) = Len(seq) + 1
        /\ Append(each, b)[Len(seq) + 1] = b /\ \A i \in 1..Len(seq) : Append(each, b)[i] = each[i]
    BY <1>3, MoreIs
  <2> HIDE DEF more
  <2>4. /\ CountedEach(more, Hit) \in Seq(Int) /\ Len(CountedEach(more, Hit)) = Len(seq) + 1
        /\ \A i \in 1..(Len(seq) + 1) : CountedEach(more, Hit)[i] = IF Hit(more[i]) THEN 1 ELSE 0
    <3>1. CountedEach(more, Hit) = [i \in 1..(Len(seq) + 1) |-> IF Hit(more[i]) THEN 1 ELSE 0]
      BY <2>2 DEF CountedEach
    <3>2. Len(seq) + 1 \in Nat
      BY <1>1
    <3> QED BY <3>1, <3>2
  <2>5. ASSUME NEW i \in 1..(Len(seq) + 1)
        PROVE  CountedEach(more, Hit)[i] = Append(each, b)[i]
    <3>1. i = Len(seq) + 1 \/ i \in 1..Len(seq)
      BY <1>1
    <3> HIDE DEF each
    <3>2. CASE i = Len(seq) + 1
      BY <2>1, <2>2, <2>3, <2>4, <3>2
    <3>3. CASE i \in 1..Len(seq)
      <4>1. Append(each, b)[i] = IF Hit(seq[i]) THEN 1 ELSE 0
        BY <1>3, <2>3, <3>3 DEF each
      <4>2. CountedEach(more, Hit)[i] = IF Hit(seq[i]) THEN 1 ELSE 0
        BY <2>2, <2>4, <3>3
      <4> QED BY <4>1, <4>2
    <3> QED BY <3>1, <3>2, <3>3
  <2> HIDE DEF each
  <2>6. CountedEach(more, Hit) = Append(each, b)
    BY <2>3, <2>4, <2>5, SeqEqual
  <2> QED BY <2>1, <2>6 DEF more, each
<1> QED BY <1>1, <1>2, <1>3, <1>4

\* What is known of an engine's fields.
LEMMA EngineTypes ==
  ASSUME NEW e \in IncrementalEngines
  PROVE  /\ e.lag \in [0..(LagCap - 1) -> 0..3] /\ e.lagLen \in Nat /\ e.lagPos \in 0..(LagCap - 1)
         /\ e.short \in [0..(ShortCap - 1) -> 0..3] /\ e.shortLen \in Nat /\ e.shortPos \in 0..(ShortCap - 1)
         /\ e.shortSum \in Int /\ e.shortHits \in Int
         /\ e.run.hit \in Nat /\ e.run.miss \in Nat /\ e.longest.hit \in Nat /\ e.longest.miss \in Nat
         /\ e.trans \in [BOOLEAN -> [BOOLEAN -> Nat]] /\ e.hits \in Nat /\ e.count \in Nat
         /\ e.longest = [hit |-> e.longest.hit, miss |-> e.longest.miss]
<1>1. \A r \in [hit : Nat, miss : Nat] : r.hit \in Nat /\ r.miss \in Nat /\ r = [hit |-> r.hit, miss |-> r.miss]
  OBVIOUS
<1>2. /\ e.lag \in [0..(LagCap - 1) -> 0..3] /\ e.lagLen \in Nat /\ e.lagPos \in 0..(LagCap - 1)
      /\ e.short \in [0..(ShortCap - 1) -> 0..3] /\ e.shortLen \in Nat /\ e.shortPos \in 0..(ShortCap - 1)
      /\ e.shortSum \in Int /\ e.shortHits \in Int
      /\ e.run \in [hit : Nat, miss : Nat] /\ e.longest \in [hit : Nat, miss : Nat]
      /\ e.trans \in [BOOLEAN -> [BOOLEAN -> Nat]] /\ e.hits \in Nat /\ e.count \in Nat
  BY DEF IncrementalEngines
<1> QED BY <1>1, <1>2

\* A transition is counted at its place.
LEMMA CountedAt ==
  ASSUME NEW S, NEW f \in [S -> [S -> Nat]], NEW l \in S, NEW y \in S
  PROVE  LET g == [f EXCEPT ![l][y] = @ + 1] IN
         /\ g \in [S -> [S -> Nat]]
         /\ \A a, b \in S : g[a][b] = f[a][b] + (IF l = a /\ y = b THEN 1 ELSE 0)
<1> DEFINE g == [f EXCEPT ![l][y] = @ + 1]
<1>1. ASSUME NEW a \in S
      PROVE  f[a] \in [S -> Nat] /\ g[a] \in [S -> Nat]
  OBVIOUS
<1>2. ASSUME NEW a \in S, NEW b \in S
      PROVE  g[a][b] = f[a][b] + (IF l = a /\ y = b THEN 1 ELSE 0)
  <2>1. f[a] \in [S -> Nat] /\ f[a][b] \in Nat
    OBVIOUS
  <2> QED BY <2>1
<1>3. g \in [S -> [S -> Nat]]
  BY <1>1
<1> QED BY <1>2, <1>3

\* One more point: what the engine keeps moves on with the history.
LEMMA EngineMovesOn ==
  ASSUME NEW seq, NEW e, EngineGood(seq, e), NEW p \in 1..3
  PROVE  EngineGood(Append(seq, p), AfterPoint(e, p))
<1> DEFINE f == AfterPoint(e, p)
           more == Append(seq, p)
           hs == HitsOf(seq)
<1>1. LagCap \in Nat \ {0} /\ ShortCap \in Nat \ {0}
  BY LearningAssumption
<1>2. /\ seq \in Seq(1..3) /\ e \in IncrementalEngines
      /\ RingsMatch(seq, e) /\ SumsMatch(seq, e) /\ RunsMatch(hs, e) /\ TransMatch(hs, e)
  BY DEF EngineGood
<1>3. /\ more \in Seq(1..3) /\ seq \in Seq(Int) /\ Len(seq) \in Nat
      /\ CountedEach(seq, Hit) \in Seq(Int) /\ Len(CountedEach(seq, Hit)) = Len(seq)
      /\ \A i \in 1..Len(seq) : CountedEach(seq, Hit)[i] = IF Hit(seq[i]) THEN 1 ELSE 0
      /\ CountedEach(more, Hit) = Append(CountedEach(seq, Hit), IF Hit(p) THEN 1 ELSE 0)
  BY <1>2, PointIs
<1>4. /\ hs \in Seq(BOOLEAN) /\ Len(hs) = Len(seq) /\ HitsOf(more) = Append(hs, Hit(p))
  BY <1>2, HitsAre
<1>5. Hit(p) \in BOOLEAN /\ p \in Int /\ p \in 0..3
  BY DEF Hit
<1>6. Len(more) = Len(seq) + 1
  BY <1>2
<1>7. /\ e.lag \in [0..(LagCap - 1) -> 0..3] /\ e.lagLen \in Nat /\ e.lagPos \in 0..(LagCap - 1)
      /\ e.short \in [0..(ShortCap - 1) -> 0..3] /\ e.shortLen \in Nat /\ e.shortPos \in 0..(ShortCap - 1)
      /\ e.shortSum \in Int /\ e.shortHits \in Int
      /\ e.run.hit \in Nat /\ e.run.miss \in Nat /\ e.longest.hit \in Nat /\ e.longest.miss \in Nat
      /\ e.trans \in [BOOLEAN -> [BOOLEAN -> Nat]] /\ e.hits \in Nat /\ e.count \in Nat
  BY <1>2, EngineTypes
<1>8. /\ Ring(e.lag, LagCap, e.lagLen, e.lagPos, seq) /\ Ring(e.short, ShortCap, e.shortLen, e.shortPos, seq)
      /\ e.count = Len(seq)
  BY <1>2 DEF RingsMatch
<1> DEFINE out == EvictedPoint(e)
           hitRun == IF Hit(p) THEN e.run.hit + 1 ELSE 0
           missRun == IF Hit(p) THEN 0 ELSE e.run.miss + 1
           trans == IF e.count = 0 THEN e.trans
                    ELSE [e.trans EXCEPT ![Hit(LastPoint(e))][Hit(p)] = @ + 1]
<1>9. /\ f.lag = [e.lag EXCEPT ![e.lagPos] = p] /\ f.lagPos = (e.lagPos + 1) % LagCap
      /\ f.lagLen = IF e.lagLen < LagCap THEN e.lagLen + 1 ELSE e.lagLen
      /\ f.short = [e.short EXCEPT ![e.shortPos] = p] /\ f.shortPos = (e.shortPos + 1) % ShortCap
      /\ f.shortLen = IF e.shortLen < ShortCap THEN e.shortLen + 1 ELSE e.shortLen
      /\ f.shortSum = e.shortSum - out + p
      /\ f.shortHits = e.shortHits - (IF Hit(out) THEN 1 ELSE 0) + (IF Hit(p) THEN 1 ELSE 0)
      /\ f.run = [hit |-> hitRun, miss |-> missRun]
      /\ f.longest = [hit |-> LargerRun(hitRun, e.longest.hit), miss |-> LargerRun(missRun, e.longest.miss)]
      /\ f.trans = trans
      /\ f.hits = e.hits + (IF Hit(p) THEN 1 ELSE 0) /\ f.count = e.count + 1
  BY DEF AfterPoint
<1>10. f = [lag |-> f.lag, lagLen |-> f.lagLen, lagPos |-> f.lagPos,
            short |-> f.short, shortLen |-> f.shortLen, shortPos |-> f.shortPos,
            shortSum |-> f.shortSum, shortHits |-> f.shortHits, run |-> f.run, longest |-> f.longest,
            trans |-> f.trans, hits |-> f.hits, count |-> f.count]
  BY DEF AfterPoint
<1> HIDE DEF f, more, hs, trans, out, hitRun, missRun
<1>11. RingsMatch(more, f)
  <2>1. Ring(f.lag, LagCap, f.lagLen, f.lagPos, more)
    <3>1. Ring([e.lag EXCEPT ![e.lagPos] = p], LagCap, IF e.lagLen < LagCap THEN e.lagLen + 1 ELSE e.lagLen,
               (e.lagPos + 1) % LagCap, Append(seq, p))
      BY <1>1, <1>2, <1>8, RingMovesOn
    <3> QED BY Zenon, <1>9, <3>1 DEF more
  <2>2. Ring(f.short, ShortCap, f.shortLen, f.shortPos, more)
    <3>1. Ring([e.short EXCEPT ![e.shortPos] = p], ShortCap,
               IF e.shortLen < ShortCap THEN e.shortLen + 1 ELSE e.shortLen,
               (e.shortPos + 1) % ShortCap, Append(seq, p))
      BY <1>1, <1>2, <1>8, RingMovesOn
    <3> QED BY Zenon, <1>9, <3>1 DEF more
  <2>3. f.count = Len(more)
    BY <1>6, <1>8, <1>9
  <2> QED BY <2>1, <2>2, <2>3 DEF RingsMatch
<1>12. /\ out \in 0..3
       /\ out = IF Len(seq) >= ShortCap THEN seq[Len(seq) - ShortCap + 1] ELSE 0
       /\ (IF Hit(out) THEN 1 ELSE 0) =
            IF Len(seq) >= ShortCap THEN CountedEach(seq, Hit)[Len(seq) - ShortCap + 1] ELSE 0
  <2>1. /\ (e.shortLen = ShortCap <=> Len(seq) >= ShortCap)
        /\ e.shortLen = ShortCap => e.short[e.shortPos] = seq[Len(seq) - ShortCap + 1]
    BY <1>1, <1>2, <1>8, RingOldest
  <2>2. CASE Len(seq) >= ShortCap
    <3>1. PICK i \in 1..Len(seq) : i = Len(seq) - ShortCap + 1
      <4>1. Len(seq) \in Nat
        BY <1>3
      <4>2. Len(seq) - ShortCap + 1 \in 1..Len(seq)
        BY <1>1, <2>2, <4>1
      <4> QED BY <4>2
    <3>2. out = seq[i] /\ out \in 0..3
      BY <1>7, <2>1, <2>2, <3>1 DEF out, EvictedPoint
    <3>3. CountedEach(seq, Hit)[i] = IF Hit(out) THEN 1 ELSE 0
      BY <1>3, <3>2
    <3> QED BY <2>2, <3>1, <3>2, <3>3
  <2>3. CASE ~(Len(seq) >= ShortCap)
    <3>1. out = 0
      BY <2>1, <2>3 DEF out, EvictedPoint
    <3>2. ~Hit(0)
      BY DEF Hit
    <3> QED BY <2>3, <3>1, <3>2
  <2> QED BY <2>2, <2>3
<1>13. SumsMatch(more, f)
  <2>1. f.shortSum = Total(LatestOf(more, ShortCap))
    <3>1. Total(LatestOf(Append(seq, p), ShortCap)) =
            Total(LatestOf(seq, ShortCap))
              - (IF Len(seq) >= ShortCap THEN seq[Len(seq) - ShortCap + 1] ELSE 0) + p
      BY <1>1, <1>3, <1>5, WindowMovesOn
    <3>2. e.shortSum = Total(LatestOf(seq, ShortCap))
      BY <1>2 DEF SumsMatch
    <3> QED BY Zenon, <1>9, <1>12, <3>1, <3>2 DEF more
  <2>2. f.shortHits = Total(LatestOf(CountedEach(more, Hit), ShortCap))
    <3>1. PICK each \in Seq(Int), b \in Int, c \in Int :
                  /\ each = CountedEach(seq, Hit)
                  /\ b = (IF Hit(p) THEN 1 ELSE 0) /\ c = (IF Hit(out) THEN 1 ELSE 0)
      <4>1. PICK each \in Seq(Int) : each = CountedEach(seq, Hit)
        BY Zenon, <1>3
      <4>2. PICK b \in Int : b = IF Hit(p) THEN 1 ELSE 0
        OBVIOUS
      <4>3. PICK c \in Int : c = IF Hit(out) THEN 1 ELSE 0
        OBVIOUS
      <4> QED BY Zenon, <4>1, <4>2, <4>3
    <3>2. Total(LatestOf(Append(each, b), ShortCap)) =
            Total(LatestOf(each, ShortCap))
              - (IF Len(each) >= ShortCap THEN each[Len(each) - ShortCap + 1] ELSE 0) + b
      BY <1>1, <3>1, WindowMovesOn
    <3>3. e.shortHits = Total(LatestOf(each, ShortCap))
      BY <1>2, <3>1 DEF SumsMatch
    <3>4. c = (IF Len(each) >= ShortCap THEN each[Len(each) - ShortCap + 1] ELSE 0)
      BY Zenon, <1>3, <1>12, <3>1
    <3>5. f.shortHits = e.shortHits - c + b
      BY Zenon, <1>9, <3>1
    <3>6. CountedEach(more, Hit) = Append(each, b)
      BY Zenon, <1>3, <3>1
    <3> QED BY Zenon, <3>2, <3>3, <3>4, <3>5, <3>6
  <2> QED BY <2>1, <2>2 DEF SumsMatch
<1>14. RunsMatch(HitsOf(more), f)
  <2>1. PICK y \in BOOLEAN : y = Hit(p)
    BY <1>5
  <2>2. /\ EndsRun(hs, TRUE, e.run.hit) /\ EndsRun(hs, FALSE, e.run.miss)
        /\ IsLongest(hs, TRUE, e.longest.hit) /\ IsLongest(hs, FALSE, e.longest.miss)
    BY <1>2 DEF RunsMatch
  <2>3. PICK h : h = IF y = TRUE THEN e.run.hit + 1 ELSE 0
    OBVIOUS
  <2>4. PICK m : m = IF y = FALSE THEN e.run.miss + 1 ELSE 0
    OBVIOUS
  <2>5. EndsRun(Append(hs, y), TRUE, h)
    BY <1>4, <2>2, <2>3, RunMovesOn
  <2>6. EndsRun(Append(hs, y), FALSE, m)
    BY <1>4, <2>2, <2>4, RunMovesOn
  <2>7. IsLongest(Append(hs, y), TRUE, IF h > e.longest.hit THEN h ELSE e.longest.hit)
    BY <1>4, <2>2, <2>3, LongestMovesOn
  <2>8. IsLongest(Append(hs, y), FALSE, IF m > e.longest.miss THEN m ELSE e.longest.miss)
    BY <1>4, <2>2, <2>4, LongestMovesOn
  <2>9. hitRun = h /\ missRun = m
    BY Zenon, <2>1, <2>3, <2>4 DEF hitRun, missRun
  <2>10. /\ f.run.hit = h /\ f.run.miss = m
         /\ f.longest.hit = (IF h > e.longest.hit THEN h ELSE e.longest.hit)
         /\ f.longest.miss = (IF m > e.longest.miss THEN m ELSE e.longest.miss)
    BY <1>9, <2>9 DEF LargerRun
  <2>11. HitsOf(more) = Append(hs, y)
    BY Zenon, <1>4, <2>1
  <2> QED BY Zenon, <2>5, <2>6, <2>7, <2>8, <2>10, <2>11 DEF RunsMatch
<1>15. f.trans \in [BOOLEAN -> [BOOLEAN -> Nat]] /\ TransMatch(HitsOf(more), f)
  <2>1. PICK y \in BOOLEAN : y = Hit(p)
    BY <1>5
  <2>2. HitsOf(more) = Append(hs, y)
    BY Zenon, <1>4, <2>1
  <2>3. \A a, b \in BOOLEAN :
          Cardinality(Transitions(Append(hs, y), a, b)) =
            Cardinality(Transitions(hs, a, b)) + (IF Len(hs) # 0 /\ hs[Len(hs)] = a /\ y = b THEN 1 ELSE 0)
    BY <1>4, TransitionsMoveOn
  <2>4. \A a, b \in BOOLEAN : e.trans[a][b] = Cardinality(Transitions(hs, a, b))
    BY <1>2 DEF TransMatch
  <2>5. \A a, b \in BOOLEAN : e.trans[a][b] + 0 = e.trans[a][b]
    BY <1>7
  <2>6. CASE Len(seq) = 0
    <3>1. f.trans = e.trans
      BY <1>8, <1>9, <2>6 DEF trans
    <3>2. \A a, b \in BOOLEAN : f.trans[a][b] = Cardinality(Transitions(Append(hs, y), a, b))
      <4>1. SUFFICES ASSUME NEW a \in BOOLEAN, NEW b \in BOOLEAN
                     PROVE  f.trans[a][b] = Cardinality(Transitions(Append(hs, y), a, b))
        OBVIOUS
      <4>2. Cardinality(Transitions(Append(hs, y), a, b)) = Cardinality(Transitions(hs, a, b)) + 0
        BY Zenon, <1>4, <2>3, <2>6
      <4> QED BY Zenon, <2>4, <2>5, <3>1, <4>2
    <3> QED BY Zenon, <1>7, <2>2, <3>1, <3>2 DEF TransMatch
  <2>7. CASE Len(seq) # 0
    <3>1. LastPoint(e) = seq[Len(seq)]
      BY <1>1, <1>2, <1>8, <2>7, RingNewest DEF LastPoint
    <3>2. hs[Len(hs)] = Hit(LastPoint(e))
      <4>1. \A i \in 1..Len(seq) : hs[i] = Hit(seq[i])
        BY DEF hs, HitsOf
      <4>2. Len(seq) \in Nat
        BY <1>3
      <4>3. Len(seq) \in 1..Len(seq)
        BY <2>7, <4>2
      <4> QED BY Zenon, <1>4, <3>1, <4>1, <4>3
    <3>3. PICK l \in BOOLEAN : l = Hit(LastPoint(e))
      <4>1. \A x : Hit(x) \in BOOLEAN
        BY DEF Hit
      <4> QED BY Zenon, <4>1
    <3>4. f.trans = [e.trans EXCEPT ![l][y] = @ + 1]
      <4>1. e.count # 0
        BY <1>8, <2>7
      <4> QED BY Zenon, <1>9, <2>1, <3>3, <4>1 DEF trans
    <3>5. /\ [e.trans EXCEPT ![l][y] = @ + 1] \in [BOOLEAN -> [BOOLEAN -> Nat]]
          /\ \A a, b \in BOOLEAN :
               [e.trans EXCEPT ![l][y] = @ + 1][a][b] = e.trans[a][b] + (IF l = a /\ y = b THEN 1 ELSE 0)
      <4>1. PICK tr \in [BOOLEAN -> [BOOLEAN -> Nat]] : tr = e.trans
        BY Zenon, <1>7
      <4>2. PICK S : S = BOOLEAN
        OBVIOUS
      <4>3. tr \in [S -> [S -> Nat]] /\ l \in S /\ y \in S
        BY Zenon, <4>2
      <4>4. /\ [tr EXCEPT ![l][y] = @ + 1] \in [S -> [S -> Nat]]
            /\ \A a, b \in S :
                 [tr EXCEPT ![l][y] = @ + 1][a][b] = tr[a][b] + (IF l = a /\ y = b THEN 1 ELSE 0)
        BY <4>3, CountedAt
      <4> QED BY Zenon, <4>1, <4>2, <4>4
    <3>6. \A a, b \in BOOLEAN : f.trans[a][b] = Cardinality(Transitions(Append(hs, y), a, b))
      <4>1. SUFFICES ASSUME NEW a \in BOOLEAN, NEW b \in BOOLEAN
                     PROVE  f.trans[a][b] = Cardinality(Transitions(Append(hs, y), a, b))
        OBVIOUS
      <4>2. Cardinality(Transitions(Append(hs, y), a, b)) =
              Cardinality(Transitions(hs, a, b)) + (IF Len(hs) # 0 /\ hs[Len(hs)] = a /\ y = b THEN 1 ELSE 0)
        BY Zenon, <2>3
      <4>3. (Len(hs) # 0 /\ hs[Len(hs)] = a /\ y = b) <=> (l = a /\ y = b)
        BY Zenon, <1>4, <2>7, <3>2, <3>3
      <4>4. f.trans[a][b] = e.trans[a][b] + (IF l = a /\ y = b THEN 1 ELSE 0)
        BY Zenon, <3>4, <3>5
      <4>5. e.trans[a][b] = Cardinality(Transitions(hs, a, b))
        BY Zenon, <2>4
      <4>6. CASE l = a /\ y = b
        BY Zenon, <4>2, <4>3, <4>4, <4>5, <4>6
      <4>7. CASE ~(l = a /\ y = b)
        BY Zenon, <4>2, <4>3, <4>4, <4>5, <4>7
      <4> QED BY <4>6, <4>7
    <3> QED BY Zenon, <2>2, <3>4, <3>5, <3>6 DEF TransMatch
  <2> QED BY <2>6, <2>7
<1>16. f \in IncrementalEngines
  <2>1. f.lag \in [0..(LagCap - 1) -> 0..3] /\ f.short \in [0..(ShortCap - 1) -> 0..3]
    <3>1. /\ e.lag \in [0..(LagCap - 1) -> 0..3] /\ e.lagPos \in 0..(LagCap - 1)
          /\ e.short \in [0..(ShortCap - 1) -> 0..3] /\ e.shortPos \in 0..(ShortCap - 1)
      BY Zenon, <1>7
    <3>2. f.lag = [e.lag EXCEPT ![e.lagPos] = p] /\ f.short = [e.short EXCEPT ![e.shortPos] = p]
      BY Zenon, <1>9
    <3> QED BY <1>5, <3>1, <3>2
  <2>2. f.lagPos \in 0..(LagCap - 1) /\ f.shortPos \in 0..(ShortCap - 1)
    BY <1>11 DEF RingsMatch, Ring
  <2>3. f.lagLen \in Nat /\ f.shortLen \in Nat /\ f.count \in Nat
    <3>1. \A n \in Nat, cap \in Nat : (IF n < cap THEN n + 1 ELSE n) \in Nat /\ n + 1 \in Nat
      OBVIOUS
    <3> QED BY <1>1, <1>7, <1>9, <3>1
  <2>4. f.shortSum \in Int
    <3>1. f.shortSum = e.shortSum - out + p
      BY Zenon, <1>9
    <3>2. e.shortSum \in Int /\ out \in 0..3 /\ p \in Int
      BY Zenon, <1>5, <1>7, <1>12
    <3> QED BY <3>1, <3>2
  <2>5. f.shortHits \in Int /\ f.hits \in Nat
    <3>1. PICK b \in Nat : b = IF Hit(p) THEN 1 ELSE 0
      OBVIOUS
    <3>2. PICK c \in Nat : c = IF Hit(out) THEN 1 ELSE 0
      OBVIOUS
    <3>3. f.shortHits = e.shortHits - c + b /\ f.hits = e.hits + b
      BY Zenon, <1>9, <3>1, <3>2
    <3>4. e.shortHits \in Int /\ e.hits \in Nat
      BY Zenon, <1>7
    <3> QED BY <3>3, <3>4
  <2>6. f.run \in [hit : Nat, miss : Nat] /\ f.longest \in [hit : Nat, miss : Nat]
    <3>1. \A x \in Nat : x + 1 \in Nat /\ 0 \in Nat
      OBVIOUS
    <3>2. hitRun \in Nat
      BY Zenon, <1>7, <3>1 DEF hitRun
    <3>3. missRun \in Nat
      BY Zenon, <1>7, <3>1 DEF missRun
    <3>4. \A a, b \in Nat : LargerRun(a, b) \in Nat
      BY DEF LargerRun
    <3>5. LargerRun(hitRun, e.longest.hit) \in Nat /\ LargerRun(missRun, e.longest.miss) \in Nat
      BY Zenon, <1>7, <3>2, <3>3, <3>4
    <3>6. \A a, b \in Nat : [hit |-> a, miss |-> b] \in [hit : Nat, miss : Nat]
      OBVIOUS
    <3>7. f.run = [hit |-> hitRun, miss |-> missRun]
          /\ f.longest = [hit |-> LargerRun(hitRun, e.longest.hit), miss |-> LargerRun(missRun, e.longest.miss)]
      BY Zenon, <1>9
    <3> QED BY <3>2, <3>3, <3>5, <3>6, <3>7
  <2> QED BY <1>10, <1>15, <2>1, <2>2, <2>3, <2>4, <2>5, <2>6 DEF IncrementalEngines
<1> QED BY <1>3, <1>11, <1>13, <1>14, <1>15, <1>16 DEF EngineGood, f, more

\* A seeded engine is that of the sequence it was seeded with.
LEMMA SeedIsGood ==
  ASSUME NEW seq \in Seq(1..3)
  PROVE  EngineGood(seq, FoldLeft(AfterPoint, EmptyEngine, seq))
<1> DEFINE n == Len(seq)
           E == {e \in IncrementalEngines : \E s : EngineGood(s, e)}
           step == [i \in 1..n |-> [x \in E |-> AfterPoint(x, seq[i])]]
           F == CHOOSE it : it = [s \in SUBSET DOMAIN seq |->
                   IF s = {} THEN EmptyEngine ELSE AfterPoint(it[s \ {Max(s)}], seq[Max(s)])]
<1>1. n \in Nat /\ seq \in [1..n -> 1..3] /\ DOMAIN seq = 1..n
  OBVIOUS
<1>2. EmptyEngine \in E
  BY EmptyIsGood DEF EngineGood
<1>3. step \in [1..n -> [E -> E]]
  <2>1. ASSUME NEW i \in 1..n, NEW x \in E
        PROVE  AfterPoint(x, seq[i]) \in E
    <3>1. PICK s : EngineGood(s, x)
      OBVIOUS
    <3>2. seq[i] \in 1..3
      BY <1>1
    <3>3. EngineGood(Append(s, seq[i]), AfterPoint(x, seq[i]))
      BY <3>1, <3>2, EngineMovesOn
    <3> QED BY <3>3 DEF EngineGood
  <2> HIDE DEF E
  <2> QED BY <2>1
<1> HIDE DEF E, n
<1>4. PICK it : Folding(E, n, EmptyEngine, step, it)
  <2> HIDE DEF step
  <2> QED BY <1>1, <1>2, <1>3, FoldingExists
<1>5. it = [s \in SUBSET DOMAIN seq |->
              IF s = {} THEN EmptyEngine ELSE AfterPoint(it[s \ {Max(s)}], seq[Max(s)])]
  <2>1. it \in [SUBSET (1..n) -> E] /\ DOMAIN seq = 1..n
    BY <1>1, <1>4 DEF Folding
  <2>2. ASSUME NEW s \in SUBSET (1..n), s # {}
        PROVE  it[s] = AfterPoint(it[s \ {Max(s)}], seq[Max(s)])
    <3>1. Max(s) \in 1..n
      <4>1. s \in SUBSET (0..n)
        BY <1>1
      <4>2. Max(s) \in s
        BY <1>1, <2>2, <4>1, MaxExists
      <4> QED BY <4>2
    <3>2. it[s \ {Max(s)}] \in E
      BY <2>1
    <3>3. it[s] = step[Max(s)][it[s \ {Max(s)}]]
      BY <1>4, <2>2 DEF Folding
    <3> QED BY <3>1, <3>2, <3>3
  <2>3. it[{}] = EmptyEngine
    BY <1>4 DEF Folding
  <2> HIDE DEF step
  <2> QED BY <2>1, <2>2, <2>3
<1>6. F = [s \in SUBSET DOMAIN seq |->
             IF s = {} THEN EmptyEngine ELSE AfterPoint(F[s \ {Max(s)}], seq[Max(s)])]
  BY <1>5
<1>7. FoldLeft(AfterPoint, EmptyEngine, seq) = F[DOMAIN seq]
  BY DEF FoldLeft, MapThenFoldSet
<1> HIDE DEF F
<1>8. F[1..0] = EmptyEngine
  <2>1. {} \in SUBSET DOMAIN seq /\ 1..0 = {}
    OBVIOUS
  <2> QED BY <1>6, <2>1
<1>9. ASSUME NEW i \in 1..n
      PROVE  F[1..i] = AfterPoint(F[1..(i - 1)], seq[i])
  <2>1. /\ 1..i \in SUBSET DOMAIN seq /\ 1..i # {}
        /\ Max(1..i) = i /\ (1..i) \ {Max(1..i)} = 1..(i - 1)
    BY <1>1, FoldSteps
  <2>2. F[1..i] = AfterPoint(F[(1..i) \ {Max(1..i)}], seq[Max(1..i)])
    BY <1>6, <2>1
  <2> QED BY <2>1, <2>2
<1> DEFINE S == {i \in 0..n : EngineGood(SubSeq(seq, 1, i), F[1..i])}
<1>10. 0 \in S
  <2>1. SubSeq(seq, 1, 0) = <<>>
    BY <1>1
  <2>2. EngineGood(SubSeq(seq, 1, 0), F[1..0])
    BY Zenon, <1>8, <2>1, EmptyIsGood
  <2>3. 0 \in 0..n
    BY <1>1
  <2> QED BY <2>2, <2>3
<1>11. ASSUME NEW i \in 1..n, i - 1 \in S
       PROVE  i \in S
  <2>1. EngineGood(SubSeq(seq, 1, i - 1), F[1..(i - 1)])
    BY <1>11
  <2>2. seq[i] \in 1..3
    BY <1>1
  <2>3. EngineGood(Append(SubSeq(seq, 1, i - 1), seq[i]), AfterPoint(F[1..(i - 1)], seq[i]))
    BY <2>1, <2>2, EngineMovesOn
  <2>4. SubSeq(seq, 1, i) = Append(SubSeq(seq, 1, i - 1), seq[i])
    <3>1. /\ SubSeq(seq, 1, i) \in Seq(1..3) /\ Len(SubSeq(seq, 1, i)) = i
          /\ \A j \in 1..i : SubSeq(seq, 1, i)[j] = seq[j]
      BY <1>1 DEF n
    <3>2. /\ SubSeq(seq, 1, i - 1) \in Seq(1..3) /\ Len(SubSeq(seq, 1, i - 1)) = i - 1
          /\ \A j \in 1..(i - 1) : SubSeq(seq, 1, i - 1)[j] = seq[j]
      BY <1>1 DEF n
    <3>3. PICK pre \in Seq(1..3) : pre = SubSeq(seq, 1, i - 1)
      BY <3>2
    <3>4. /\ Append(pre, seq[i]) \in Seq(1..3) /\ Len(Append(pre, seq[i])) = i /\ Append(pre, seq[i])[i] = seq[i]
          /\ \A j \in 1..(i - 1) : Append(pre, seq[i])[j] = seq[j]
      BY <1>1, <2>2, <3>2, <3>3
    <3>5. \A j \in 1..i : SubSeq(seq, 1, i)[j] = Append(pre, seq[i])[j]
      <4>1. \A j \in 1..i : j = i \/ j \in 1..(i - 1)
        BY <1>1
      <4> QED BY <3>1, <3>4, <4>1
    <3>6. SubSeq(seq, 1, i) = Append(pre, seq[i])
      BY <3>1, <3>4, <3>5, SeqEqual
    <3> QED BY <3>3, <3>6
  <2>5. EngineGood(SubSeq(seq, 1, i), F[1..i])
    BY Zenon, <1>9, <2>3, <2>4
  <2>6. i \in 0..n
    BY <1>1
  <2> QED BY <2>5, <2>6
<1>12. n \in S
  <2> HIDE DEF S
  <2>1. \A i \in 0..n : i \in S
    BY <1>1, <1>10, <1>11, UpTo
  <2> QED BY <1>1, <2>1
<1>13. SubSeq(seq, 1, n) = seq
  <2>1. /\ SubSeq(seq, 1, n) \in Seq(1..3) /\ Len(SubSeq(seq, 1, n)) = Len(seq)
        /\ \A j \in 1..Len(seq) : SubSeq(seq, 1, n)[j] = seq[j]
    BY <1>1 DEF n
  <2> QED BY <2>1, SeqEqual
<1> QED BY <1>1, <1>7, <1>12, <1>13

\* The engine starts empty.
LEMMA EngineInitInv == LearningInit => EngineInv
BY EmptyIsGood DEF LearningInit, EngineInv

\* Updates and seeds keep it.
LEMMA EngineNextInv == EngineInv /\ [EngineNext]_engineVars => EngineInv'
<1> SUFFICES ASSUME EngineInv, [EngineNext]_engineVars
             PROVE  EngineInv'
  OBVIOUS
<1>1. EngineGood(points, engine)
  BY DEF EngineInv
<1>2. ASSUME UNCHANGED engineVars
      PROVE  EngineGood(points', engine')
  <2>1. points' = points /\ engine' = engine
    BY <1>2 DEF engineVars
  <2> QED BY <1>1, <2>1
<1>3. ASSUME NEW p \in 0..3, UpdateEngine(p)
      PROVE  EngineGood(points', engine')
  <2>1. CASE p = 0
    BY <1>2, <1>3, <2>1 DEF UpdateEngine
  <2>2. CASE p # 0
    <3>1. p \in 1..3 /\ points' = Append(points, p) /\ engine' = AfterPoint(engine, p)
      BY <1>3, <2>2 DEF UpdateEngine
    <3> QED BY <1>1, <3>1, EngineMovesOn
  <2> QED BY <2>1, <2>2
<1>4. ASSUME NEW seq \in {<<>>, <<1, 3>>}, SeedEngine(seq)
      PROVE  EngineGood(points', engine')
  <2>1. seq \in Seq(1..3)
    <3>1. <<>> \in Seq(1..3)
      OBVIOUS
    <3>2. <<1, 3>> \in Seq(1..3)
      <4>1. 1 \in 1..3 /\ 3 \in 1..3
        OBVIOUS
      <4> QED BY <4>1
    <3> QED BY Zenon, <3>1, <3>2
  <2>2. points' = seq /\ engine' = FoldLeft(AfterPoint, EmptyEngine, seq)
    BY <1>4 DEF SeedEngine
  <2>3. EngineGood(seq, FoldLeft(AfterPoint, EmptyEngine, seq))
    BY <2>1, SeedIsGood
  <2> QED BY Zenon, <2>2, <2>3
<1>5. EngineGood(points', engine')
  BY <1>2, <1>3, <1>4 DEF EngineNext
<1> QED BY <1>5 DEF EngineInv

\* What the engine answers is then what its history says.
LEMMA EngineInvImplies == EngineInv => EngineMatchesHistory
<1> SUFFICES ASSUME EngineInv
             PROVE  EngineMatchesHistory
  OBVIOUS
<1> DEFINE n == Len(points)
           hs == HitsOf(points)
           e == engine
           run(i) == Max({k \in 0..i : \A j \in (i - k + 1)..i : Hit(points[j]) = Hit(points[i])})
           longest(is) == Max({0} \cup {run(i) : i \in {j \in 1..n : Hit(points[j]) = is}})
<1>1. LagCap \in Nat \ {0} /\ ShortCap \in Nat \ {0}
  BY LearningAssumption
<1>2. /\ points \in Seq(1..3) /\ e \in IncrementalEngines
      /\ RingsMatch(points, e) /\ SumsMatch(points, e) /\ RunsMatch(hs, e) /\ TransMatch(hs, e)
  BY DEF EngineInv, EngineGood
<1>3. n \in Nat /\ Len(hs) = n /\ \A i \in 1..n : hs[i] = Hit(points[i])
  BY <1>2 DEF HitsOf
<1>4. /\ Ring(e.lag, LagCap, e.lagLen, e.lagPos, points) /\ Ring(e.short, ShortCap, e.shortLen, e.shortPos, points)
  BY <1>2 DEF RingsMatch
<1> HIDE DEF e, hs, n
<1>5. LagArray(e) = LatestOf(points, LagCap)
  <2>1. [i \in 1..e.lagLen |-> e.lag[((IF e.lagLen < LagCap THEN 0 ELSE e.lagPos) + i - 1) % LagCap]]
          = LatestOf(points, LagCap)
    BY <1>1, <1>2, <1>4, RingReads
  <2> QED BY Zenon, <2>1 DEF LagArray
<1>6. RecentPoints(e, LagCap) = LagArray(e)
  <2>1. /\ e.lagPos \in 0..(LagCap - 1) /\ e.lagLen \in 0..LagCap /\ (e.lagLen < LagCap => e.lagPos = e.lagLen)
    BY <1>1, <1>3, <1>4 DEF Ring, n
  <2>2. PICK y \in 0..(2 * LagCap - 1) : y = e.lagPos - e.lagLen + LagCap
    BY <1>1, <2>1
  <2>3. y % LagCap = IF y < LagCap THEN y ELSE y - LagCap
    BY <1>1, Modulo
  <2>4. (IF y < LagCap THEN y ELSE y - LagCap) = IF e.lagLen < LagCap THEN 0 ELSE e.lagPos
    BY <1>1, <2>1, <2>2
  <2>5. (e.lagPos - e.lagLen + LagCap) % LagCap = IF e.lagLen < LagCap THEN 0 ELSE e.lagPos
    BY Zenon, <2>2, <2>3, <2>4
  <2>6. (IF LagCap < e.lagLen THEN LagCap ELSE e.lagLen) = e.lagLen
    BY <1>1, <2>1
  <2> QED BY Zenon, <2>5, <2>6 DEF RecentPoints, LagArray
<1>7. e.shortSum = Total(LatestOf(points, ShortCap))
  BY <1>2 DEF SumsMatch
<1>8. e.shortHits = Counting(LatestOf(points, ShortCap), Hit)
  <2> DEFINE latest == LatestOf(points, ShortCap)
             each == CountedEach(points, Hit)
  <2>1. points \in Seq(Int) /\ each \in Seq(Int) /\ Len(each) = n
        /\ \A i \in 1..n : each[i] = IF Hit(points[i]) THEN 1 ELSE 0
    BY <1>2, PointIs, 1 \in 1..3 DEF n
  <2>2. /\ latest \in Seq(Int) /\ Len(latest) = (IF n > ShortCap THEN ShortCap ELSE n)
        /\ \A d \in 0..(Len(latest) - 1) : latest[Len(latest) - d] = points[n - d]
    BY <1>1, <2>1, LatestOfIs DEF n
  <2>3. /\ LatestOf(each, ShortCap) \in Seq(Int) /\ Len(LatestOf(each, ShortCap)) = Len(latest)
        /\ \A d \in 0..(Len(latest) - 1) : LatestOf(each, ShortCap)[Len(latest) - d] = each[n - d]
    <3> HIDE DEF each
    <3>1. /\ LatestOf(each, ShortCap) \in Seq(Int)
          /\ Len(LatestOf(each, ShortCap)) = (IF Len(each) > ShortCap THEN ShortCap ELSE Len(each))
          /\ \A d \in 0..(Len(LatestOf(each, ShortCap)) - 1) :
               LatestOf(each, ShortCap)[Len(LatestOf(each, ShortCap)) - d] = each[Len(each) - d]
      BY <1>1, <2>1, LatestOfIs
    <3>2. Len(LatestOf(each, ShortCap)) = Len(latest) /\ Len(each) = n
      <4>1. Len(each) = n
        BY Zenon, <2>1
      <4>2. Len(LatestOf(each, ShortCap)) = IF n > ShortCap THEN ShortCap ELSE n
        BY <3>1, <4>1
      <4> QED BY <2>2, <4>1, <4>2
    <3> QED BY Zenon, <3>1, <3>2
  <2> HIDE DEF latest, each
  <2>4. Counting(latest, Hit) = Total(CountedEach(latest, Hit))
    BY <2>2, CountsAreSums
  <2>5. CountedEach(latest, Hit) = LatestOf(each, ShortCap)
    <3>1. /\ CountedEach(latest, Hit) \in Seq(Int) /\ Len(CountedEach(latest, Hit)) = Len(latest)
          /\ \A i \in 1..Len(latest) : CountedEach(latest, Hit)[i] = IF Hit(latest[i]) THEN 1 ELSE 0
      <4>1. Len(latest) \in Nat
        BY <2>2
      <4> QED BY <4>1 DEF CountedEach
    <3>2. ASSUME NEW i \in 1..Len(latest)
          PROVE  CountedEach(latest, Hit)[i] = LatestOf(each, ShortCap)[i]
      <4>1. PICK d \in 0..(Len(latest) - 1) : i = Len(latest) - d
        <5>1. Len(latest) \in Nat
          BY <2>2
        <5>2. Len(latest) - i \in 0..(Len(latest) - 1) /\ i = Len(latest) - (Len(latest) - i)
          BY <5>1
        <5> QED BY <5>2
      <4>2. n - d \in 1..n
        BY <1>1, <1>3, <2>2, <4>1
      <4>3. LatestOf(each, ShortCap)[Len(latest) - d] = each[n - d] /\ latest[Len(latest) - d] = points[n - d]
        BY <2>2, <2>3
      <4>4. CountedEach(latest, Hit)[i] = IF Hit(points[n - d]) THEN 1 ELSE 0
        BY Zenon, <3>1, <4>1, <4>3
      <4> QED BY Zenon, <2>1, <4>1, <4>2, <4>3, <4>4
    <3> QED BY <2>3, <3>1, <3>2, SeqEqual
  <2>6. e.shortHits = Total(LatestOf(each, ShortCap))
    BY <1>2 DEF SumsMatch, each
  <2> QED BY Zenon, <2>4, <2>5, <2>6 DEF latest
<1>9. \A i \in 1..n : run(i) = RunUpTo(hs, i)
  <2>1. ASSUME NEW i \in 1..n
        PROVE  run(i) = RunUpTo(hs, i)
    <3>1. \A k \in 0..i : \A j \in (i - k + 1)..i : j \in 1..n
      BY <1>3
    <3>2. \A k \in 0..i : (\A j \in (i - k + 1)..i : Hit(points[j]) = Hit(points[i]))
                          <=> \A j \in (i - k + 1)..i : hs[j] = hs[i]
      BY Zenon, <1>3, <3>1
    <3>3. {k \in 0..i : \A j \in (i - k + 1)..i : Hit(points[j]) = Hit(points[i])} = RunsUpTo(hs, i)
      BY Zenon, <3>2 DEF RunsUpTo
    <3> QED BY Zenon, <3>3 DEF RunUpTo
  <2> QED BY <2>1
<1>10. \A is \in BOOLEAN : longest(is) = Max({0} \cup RunsIn(hs, is))
  <2>1. ASSUME NEW is \in BOOLEAN
        PROVE  longest(is) = Max({0} \cup RunsIn(hs, is))
    <3> DEFINE at == {j \in 1..n : Hit(points[j]) = is}
    <3>1. at = {j \in 1..n : hs[j] = is} /\ at \in SUBSET (1..n)
      BY Zenon, <1>3
    <3> HIDE DEF at
    <3>2. {run(i) : i \in at} = {RunUpTo(hs, i) : i \in at}
      <4> HIDE DEF run
      <4> QED BY <1>9, <3>1
    <3>3. RunsIn(hs, is) = {RunUpTo(hs, i) : i \in at}
      BY Zenon, <1>3, <3>1 DEF RunsIn
    <3> QED BY Zenon, <3>2, <3>3 DEF at
  <2> QED BY <2>1
<1>11. e.longest = [hit |-> longest(TRUE), miss |-> longest(FALSE)]
  <2>1. IsLongest(hs, TRUE, e.longest.hit) /\ IsLongest(hs, FALSE, e.longest.miss)
    BY <1>2 DEF RunsMatch
  <2>2. Max({0} \cup RunsIn(hs, TRUE)) = e.longest.hit
    BY <2>1, LongestIs
  <2>3. Max({0} \cup RunsIn(hs, FALSE)) = e.longest.miss
    BY <2>1, LongestIs
  <2>4. e.longest = [hit |-> e.longest.hit, miss |-> e.longest.miss]
    BY <1>2, EngineTypes
  <2>5. longest(TRUE) = Max({0} \cup RunsIn(hs, TRUE)) /\ longest(FALSE) = Max({0} \cup RunsIn(hs, FALSE))
    BY <1>10
  <2> HIDE DEF longest
  <2> QED BY Zenon, <2>2, <2>3, <2>4, <2>5
<1>12. \A a, b \in BOOLEAN :
         e.trans[a][b] = Cardinality({i \in 2..n : Hit(points[i - 1]) = a /\ Hit(points[i]) = b})
  <2>1. ASSUME NEW a \in BOOLEAN, NEW b \in BOOLEAN
        PROVE  e.trans[a][b] = Cardinality({i \in 2..n : Hit(points[i - 1]) = a /\ Hit(points[i]) = b})
    <3>1. \A i \in 2..n : i - 1 \in 1..n /\ i \in 1..n
      BY <1>3
    <3>2. {i \in 2..n : Hit(points[i - 1]) = a /\ Hit(points[i]) = b} = Transitions(hs, a, b)
      BY Zenon, <1>3, <3>1 DEF Transitions
    <3>3. e.trans[a][b] = Cardinality(Transitions(hs, a, b))
      BY Zenon, <1>2 DEF TransMatch
    <3> QED BY Zenon, <3>2, <3>3
  <2> QED BY <2>1
<1> HIDE DEF run, longest
<1> QED BY Zenon, <1>5, <1>6, <1>7, <1>8, <1>11, <1>12 DEF EngineMatchesHistory, e, n, run, longest

(* Whatever was evicted from the rings, seeded or reset: the rings, the    *)
(* sums of the short window, the longest runs and the transitions are      *)
(* those of the history, for any sizes of the rings and any number of      *)
(* points. (incremental-state-engine.ts update, seed)                      *)
THEOREM EngineFollowsHistory == LearningInit /\ [][EngineNext]_engineVars => []EngineMatchesHistory
BY EngineInitInv, EngineNextInv, EngineInvImplies, PTL
-----------------------------------------------------------------------------
(* The calibration state: a ring of pairs and reliability bins for each    *)
(* regime.                                                                 *)
\* The counts of the reliability bins, any integers.
Bins == [1..2 -> [count : Int, actual : Int]]
\* A cell of the ring of pairs: empty, or one pair.
Cells == {<<>>} \cup {<<x>> : x \in PairKinds}
\* What the calibrator of a regime keeps.
Calibrators ==
  [pairs : [0..(MaxPairs - 1) -> Cells], writeIdx : Nat, pairCount : Nat, bins : Bins, n : Nat]

\* The bins after the first pairs, up to those after all.
BinsAlong(f, n, seq) ==
  /\ f \in [0..n -> Bins] /\ f[0] = NoBins
  /\ \A i \in 1..n : f[i] = UpdateBin(f[i - 1], seq[i])

\* The bins after all the pairs, by the fold of the model.
BinsOf(seq) == FoldLeft(UpdateBin, NoBins, seq)

\* The pairs that the ring holds.
Unwrapped(pairs) == [j \in 0..(MaxPairs - 1) |-> pairs[j][1]]

\* A calibrator agrees with the pairs of its regime: the ring holds the
\* latest, and the bins count the latest n, at most what was observed since
\* the last refit more than the ring holds.
CalibratorGood(seq, c, since) ==
  /\ seq \in Seq(PairKinds) /\ c \in Calibrators
  /\ Ring(Unwrapped(c.pairs), MaxPairs, c.pairCount, c.writeIdx % MaxPairs, seq)
  /\ c.pairCount <= c.n /\ c.n <= Len(seq) /\ c.n <= MaxPairs + since
  /\ c.bins = BinsOf(LatestOf(seq, c.n))

\* Inductive: there is one calibrator for each regime in the order and the
\* global one, and each is good.
CalibrationInv ==
  /\ regimeOrder \in Seq(Regimes) /\ sinceRefit \in 0..(RefitEvery - 1)
  /\ DOMAIN calibrators = {"global"} \cup Range(regimeOrder)
  /\ \A r \in {"global"} \cup Range(regimeOrder) : CalibratorGood(observedPairs[r], calibrators[r], sinceRefit)

\* A pair has a bin and an outcome.
LEMMA PairIs == \A x \in PairKinds : x.p \in 1..2 /\ x.y \in 0..1
BY DEF PairKinds

\* One pair more leaves bins.
LEMMA UpdateBinIs ==
  ASSUME NEW bins \in Bins, NEW x \in PairKinds
  PROVE  UpdateBin(bins, x) \in Bins
<1>1. x.p \in 1..2 /\ x.y \in 0..1
  BY PairIs
<1>2. bins[x.p].count \in Int /\ bins[x.p].actual \in Int
  <2>1. bins[x.p] \in [count : Int, actual : Int]
    BY <1>1 DEF Bins
  <2> QED BY <2>1
<1>3. [count |-> bins[x.p].count + 1, actual |-> bins[x.p].actual + x.y] \in [count : Int, actual : Int]
  BY <1>1, <1>2
<1> QED BY <1>1, <1>3 DEF UpdateBin, Bins

\* So are those of no pair.
LEMMA NoBinsIs == NoBins \in Bins
BY DEF NoBins, Bins

\* There are such bins along any pairs, and the last are those of the fold.
LEMMA BinsAlongExists ==
  ASSUME NEW n \in Nat, NEW seq \in [1..n -> PairKinds]
  PROVE  \E f : BinsAlong(f, n, seq) /\ f[n] = BinsOf(seq)
<1> DEFINE step == [i \in 1..n |-> [x \in Bins |-> UpdateBin(x, seq[i])]]
           F == CHOOSE it : it = [s \in SUBSET DOMAIN seq |->
                   IF s = {} THEN NoBins ELSE UpdateBin(it[s \ {Max(s)}], seq[Max(s)])]
<1>1. step \in [1..n -> [Bins -> Bins]]
  BY UpdateBinIs
<1>2. PICK it : Folding(Bins, n, NoBins, step, it)
  <2> HIDE DEF step
  <2> QED BY <1>1, NoBinsIs, FoldingExists
<1>3. it = [s \in SUBSET DOMAIN seq |-> IF s = {} THEN NoBins ELSE UpdateBin(it[s \ {Max(s)}], seq[Max(s)])]
  <2>1. it \in [SUBSET (1..n) -> Bins] /\ DOMAIN seq = 1..n
    BY <1>2 DEF Folding
  <2>2. ASSUME NEW s \in SUBSET (1..n), s # {}
        PROVE  it[s] = UpdateBin(it[s \ {Max(s)}], seq[Max(s)])
    <3>1. Max(s) \in 1..n
      <4>1. s \in SUBSET (0..n)
        OBVIOUS
      <4>2. Max(s) \in s
        BY <2>2, <4>1, MaxExists
      <4> QED BY <4>2
    <3>2. it[s \ {Max(s)}] \in Bins
      BY <2>1
    <3>3. it[s] = step[Max(s)][it[s \ {Max(s)}]]
      BY <1>2, <2>2 DEF Folding
    <3> QED BY <3>1, <3>2, <3>3
  <2>3. it[{}] = NoBins
    BY <1>2 DEF Folding
  <2> HIDE DEF step
  <2> QED BY <2>1, <2>2, <2>3
<1>4. F = [s \in SUBSET DOMAIN seq |-> IF s = {} THEN NoBins ELSE UpdateBin(F[s \ {Max(s)}], seq[Max(s)])]
  BY <1>3
<1>5. BinsOf(seq) = F[DOMAIN seq]
  BY DEF BinsOf, FoldLeft, MapThenFoldSet
<1> HIDE DEF F
<1>6. DOMAIN seq = 1..n
  OBVIOUS
<1>7. F[1..0] = NoBins
  <2>1. {} \in SUBSET DOMAIN seq /\ 1..0 = {}
    OBVIOUS
  <2> QED BY <1>4, <2>1
<1>8. ASSUME NEW i \in 1..n
      PROVE  F[1..i] = UpdateBin(F[1..(i - 1)], seq[i])
  <2>1. /\ 1..i \in SUBSET DOMAIN seq /\ 1..i # {}
        /\ Max(1..i) = i /\ (1..i) \ {Max(1..i)} = 1..(i - 1)
    BY <1>6, FoldSteps
  <2>2. F[1..i] = UpdateBin(F[(1..i) \ {Max(1..i)}], seq[Max(1..i)])
    BY <1>4, <2>1
  <2> QED BY <2>1, <2>2
<1> DEFINE S == {i \in 0..n : F[1..i] \in Bins}
<1>9. 0 \in S
  BY <1>7, NoBinsIs
<1>10. \A i \in 1..n : i - 1 \in S => i \in S
  <2>1. ASSUME NEW i \in 1..n, i - 1 \in S
        PROVE  i \in S
    <3>1. UpdateBin(F[1..(i - 1)], seq[i]) \in Bins
      BY <2>1, UpdateBinIs
    <3> QED BY <1>8, <3>1
  <2> QED BY <2>1
<1>11. \A i \in 0..n : i \in S
  <2> HIDE DEF S
  <2> QED BY <1>9, <1>10, UpTo
<1> DEFINE f == [i \in 0..n |-> F[1..i]]
<1>12. f \in [0..n -> Bins] /\ f[0] = NoBins /\ f[n] = F[1..n]
  BY <1>7, <1>11
<1>13. \A i \in 1..n : f[i] = UpdateBin(f[i - 1], seq[i])
  BY <1>8
<1> HIDE DEF f
<1> QED BY <1>5, <1>6, <1>12, <1>13 DEF BinsAlong

\* There is one such sequence, so its last bins are the bins of the pairs.
LEMMA BinsAre ==
  ASSUME NEW n \in Nat, NEW seq \in [1..n -> PairKinds], NEW f, BinsAlong(f, n, seq)
  PROVE  BinsOf(seq) = f[n] /\ BinsOf(seq) \in Bins
<1>1. PICK g : BinsAlong(g, n, seq) /\ g[n] = BinsOf(seq)
  BY BinsAlongExists
<1> DEFINE S == {i \in 0..n : f[i] = g[i]}
<1>2. 0 \in S
  BY <1>1 DEF BinsAlong
<1>3. \A i \in 1..n : i - 1 \in S => i \in S
  BY <1>1 DEF BinsAlong
<1>4. \A i \in 0..n : i \in S
  <2> HIDE DEF S
  <2> QED BY <1>2, <1>3, UpTo
<1> QED BY <1>1, <1>4 DEF BinsAlong

\* A pair more is counted once more.
LEMMA BinsOfMore ==
  ASSUME NEW seq \in Seq(PairKinds), NEW x \in PairKinds
  PROVE  BinsOf(Append(seq, x)) = UpdateBin(BinsOf(seq), x) /\ BinsOf(seq) \in Bins
<1> DEFINE n == Len(seq)
           more == Append(seq, x)
<1>1. /\ n \in Nat /\ seq \in [1..n -> PairKinds] /\ more \in [1..(n + 1) -> PairKinds]
      /\ more[n + 1] = x /\ \A i \in 1..n : more[i] = seq[i]
  <2>1. n \in Nat /\ seq \in [1..n -> PairKinds]
    OBVIOUS
  <2>2. more \in Seq(PairKinds) /\ Len(more) = n + 1 /\ more[n + 1] = x /\ \A i \in 1..n : more[i] = seq[i]
    OBVIOUS
  <2> HIDE DEF n, more
  <2>3. more \in [1..(n + 1) -> PairKinds]
    <3>1. more \in [1..Len(more) -> PairKinds]
      BY <2>2
    <3> QED BY <2>2, <3>1
  <2> QED BY <2>1, <2>2, <2>3
<1> HIDE DEF n, more
<1>2. PICK f : BinsAlong(f, n, seq) /\ f[n] = BinsOf(seq)
  BY <1>1, BinsAlongExists
<1>3. \A i \in 0..n : f[i] \in Bins
  BY <1>2 DEF BinsAlong
<1> DEFINE last == UpdateBin(f[n], x)
           g == [i \in 0..(n + 1) |-> IF i = n + 1 THEN last ELSE f[i]]
<1>4. last \in Bins
  <2>1. f[n] \in Bins
    BY <1>1, <1>3
  <2> QED BY <2>1, UpdateBinIs
<1> HIDE DEF last
<1>5. BinsAlong(g, n + 1, more)
  <2>1. \A i \in 0..n : g[i] = f[i]
    BY <1>1
  <2>2. g[n + 1] = last /\ g[0] = NoBins
    BY <1>1, <1>2 DEF BinsAlong
  <2>3. g \in [0..(n + 1) -> Bins]
    <3>1. ASSUME NEW i \in 0..(n + 1)
          PROVE  (IF i = n + 1 THEN last ELSE f[i]) \in Bins
      <4>1. i # n + 1 => i \in 0..n
        BY <1>1
      <4> QED BY <1>3, <1>4, <4>1
    <3> QED BY <3>1
  <2> HIDE DEF g
  <2>4. \A i \in 1..(n + 1) : g[i] = UpdateBin(g[i - 1], more[i])
    <3>1. ASSUME NEW i \in 1..n
          PROVE  g[i] = UpdateBin(g[i - 1], more[i])
      <4>1. f[i] = UpdateBin(f[i - 1], seq[i])
        BY <1>2 DEF BinsAlong
      <4>2. i - 1 \in 0..n /\ i \in 0..n
        BY <1>1
      <4> QED BY Zenon, <1>1, <2>1, <4>1, <4>2
    <3>2. ASSUME NEW i \in 1..(n + 1), i = n + 1
          PROVE  g[i] = UpdateBin(g[i - 1], more[i])
      <4>1. i - 1 = n /\ n \in 0..n
        BY <1>1, <3>2
      <4> QED BY Zenon, <1>1, <2>1, <2>2, <3>2, <4>1 DEF last
    <3>3. \A i \in 1..(n + 1) : i \in 1..n \/ i = n + 1
      BY <1>1
    <3> QED BY Zenon, <3>1, <3>2, <3>3
  <2> QED BY <2>2, <2>3, <2>4 DEF BinsAlong
<1>6. BinsOf(more) = g[n + 1]
  <2>1. n + 1 \in Nat
    BY <1>1
  <2> HIDE DEF g
  <2> QED BY <1>1, <1>5, <2>1, BinsAre
<1>7. BinsOf(seq) \in Bins
  BY <1>1, <1>2, BinsAre
<1>8. g[n + 1] = last
  BY <1>1
<1> HIDE DEF g
<1> QED BY Zenon, <1>2, <1>6, <1>7, <1>8 DEF more, last

\* One further modulo cap, from any number.
LEMMA ModuloOneMore ==
  ASSUME NEW cap \in Nat \ {0}, NEW x \in Nat
  PROVE  (x + 1) % cap = ((x % cap) + 1) % cap /\ x % cap \in 0..(cap - 1)
<1>1. x % cap \in 0..(cap - 1) /\ x = cap * (x \div cap) + (x % cap) /\ x \div cap \in Nat
  OBVIOUS
<1>2. PICK q \in Nat, r \in 0..(cap - 1) : r = x % cap /\ x = cap * q + r
  BY <1>1
<1>3. (x + 1) % cap \in 0..(cap - 1) /\ x + 1 = cap * ((x + 1) \div cap) + ((x + 1) % cap)
      /\ (x + 1) \div cap \in Nat
  OBVIOUS
<1>4. PICK w \in Nat, a \in 0..(cap - 1) : a = (x + 1) % cap /\ x + 1 = cap * w + a
  BY <1>3
<1>5. cap * w + a = cap * q + r + 1
  BY <1>2, <1>4
<1>6. w = q \/ w = q + 1
  <2>1. CASE w >= q + 2
    <3>1. PICK d \in Nat : w = q + 2 + d
      <4>1. w - q - 2 \in Nat /\ w = q + 2 + (w - q - 2)
        BY <2>1
      <4> QED BY <4>1
    <3>2. cap * w = cap * q + 2 * cap + cap * d /\ cap * d \in Nat /\ cap * q \in Nat
      BY <3>1
    <3> QED BY <1>5, <3>2
  <2>2. CASE w + 1 <= q
    <3>1. PICK d \in Nat : q = w + 1 + d
      <4>1. q - w - 1 \in Nat /\ q = w + 1 + (q - w - 1)
        BY <2>2
      <4> QED BY <4>1
    <3>2. cap * q = cap * w + cap + cap * d /\ cap * d \in Nat /\ cap * w \in Nat
      BY <3>1
    <3> QED BY <1>5, <3>2
  <2> QED BY <2>1, <2>2
<1>7. CASE w = q
  <2>1. a = r + 1
    BY <1>5, <1>7
  <2>2. a % cap = a
    OBVIOUS
  <2> QED BY <1>1, <1>2, <1>4, <2>1, <2>2
<1>8. CASE w = q + 1
  <2>1. cap * w = cap * q + cap /\ cap * q \in Nat
    BY <1>8
  <2>2. r + 1 = cap /\ a = 0
    BY <1>5, <2>1
  <2>3. cap % cap = 0
    OBVIOUS
  <2> QED BY <1>1, <1>2, <1>4, <2>2, <2>3
<1> QED BY <1>6, <1>7, <1>8

\* The latest of a sequence and one more.
LEMMA LatestGrows ==
  ASSUME NEW A, NEW seq \in Seq(A), NEW x \in A, NEW n \in 0..Len(seq)
  PROVE  LatestOf(Append(seq, x), n + 1) = Append(LatestOf(seq, n), x)
<1> DEFINE more == Append(seq, x)
           latest == LatestOf(seq, n)
           after == LatestOf(more, n + 1)
           grown == Append(latest, x)
<1>1. /\ Len(more) = Len(seq) + 1 /\ more[Len(seq) + 1] = x /\ Len(seq) \in Nat /\ n \in Nat /\ n + 1 \in Nat
      /\ more \in Seq(A) /\ \A i \in 1..Len(seq) : more[i] = seq[i]
  OBVIOUS
<1> HIDE DEF more
<1>2. /\ latest \in Seq(A) /\ Len(latest) = n
      /\ \A d \in 0..(n - 1) : latest[n - d] = seq[Len(seq) - d]
  <2>1. /\ latest \in Seq(A) /\ Len(latest) = (IF Len(seq) > n THEN n ELSE Len(seq))
        /\ \A d \in 0..(Len(latest) - 1) : latest[Len(latest) - d] = seq[Len(seq) - d]
    BY <1>1, LatestOfIs
  <2> HIDE DEF latest
  <2> QED BY <1>1, <2>1
<1>3. /\ after \in Seq(A) /\ Len(after) = n + 1
      /\ \A d \in 0..n : after[n + 1 - d] = more[Len(more) - d]
  <2>1. PICK m \in Nat : m = n + 1
    BY <1>1
  <2>2. /\ LatestOf(more, m) \in Seq(A)
        /\ Len(LatestOf(more, m)) = (IF Len(more) > m THEN m ELSE Len(more))
        /\ \A d \in 0..(Len(LatestOf(more, m)) - 1) :
             LatestOf(more, m)[Len(LatestOf(more, m)) - d] = more[Len(more) - d]
    BY <1>1, LatestOfIs
  <2>3. after = LatestOf(more, m)
    BY Zenon, <2>1
  <2> HIDE DEF after
  <2>4. Len(after) = m
    BY <1>1, <2>1, <2>2, <2>3
  <2>5. \A d \in 0..(m - 1) : after[m - d] = more[Len(more) - d]
    BY Zenon, <2>2, <2>3, <2>4
  <2>6. after \in Seq(A)
    BY Zenon, <2>2, <2>3
  <2> QED BY <1>1, <2>1, <2>4, <2>5, <2>6
<1> HIDE DEF latest, after
<1>4. grown \in Seq(A) /\ Len(grown) = n + 1 /\ grown[n + 1] = x /\ \A i \in 1..n : grown[i] = latest[i]
  BY <1>1, <1>2
<1> HIDE DEF grown
<1>5. ASSUME NEW i \in 1..(n + 1)
      PROVE  after[i] = grown[i]
  <2>1. PICK d \in 0..n : i = n + 1 - d
    <3>1. n + 1 - i \in 0..n /\ i = n + 1 - (n + 1 - i)
      BY <1>1
    <3> QED BY <3>1
  <2>2. after[i] = more[Len(more) - d]
    BY <1>3, <2>1
  <2>3. CASE d = 0
    BY <1>1, <1>4, <2>1, <2>2, <2>3
  <2>4. CASE d # 0
    <3>1. d - 1 \in 0..(n - 1) /\ i = n - (d - 1) /\ i \in 1..n
          /\ Len(more) - d = Len(seq) - (d - 1) /\ Len(seq) - (d - 1) \in 1..Len(seq)
      BY <1>1, <2>1, <2>4
    <3>2. latest[n - (d - 1)] = seq[Len(seq) - (d - 1)]
      BY <1>2, <3>1
    <3> QED BY <1>1, <1>4, <2>2, <3>1, <3>2
  <2> QED BY <2>3, <2>4
<1>6. after = grown
  BY <1>3, <1>4, <1>5, SeqEqual
<1> QED BY <1>6 DEF after, more, grown, latest

\* What is known of a calibrator's fields.
LEMMA CalibratorTypes ==
  ASSUME NEW c \in Calibrators
  PROVE  /\ c.pairs \in [0..(MaxPairs - 1) -> Cells] /\ c.writeIdx \in Nat /\ c.pairCount \in Nat
         /\ c.bins \in Bins /\ c.n \in Nat
         /\ c = [pairs |-> c.pairs, writeIdx |-> c.writeIdx, pairCount |-> c.pairCount,
                 bins |-> c.bins, n |-> c.n]
BY DEF Calibrators

\* A new calibrator is good for no pairs.
LEMMA NewIsGood ==
  ASSUME NEW since \in Nat
  PROVE  CalibratorGood(<<>>, NewCalibrator, since)
<1> DEFINE c == NewCalibrator
<1>1. MaxPairs \in Nat \ {0}
  BY LearningAssumption
<1>2. /\ c.pairs = [i \in 0..(MaxPairs - 1) |-> <<>>] /\ c.writeIdx = 0 /\ c.pairCount = 0
      /\ c.bins = NoBins /\ c.n = 0
  BY DEF NewCalibrator
<1>3. c \in Calibrators
  <2>1. [i \in 0..(MaxPairs - 1) |-> <<>>] \in [0..(MaxPairs - 1) -> Cells]
    BY DEF Cells
  <2> QED BY <2>1, NoBinsIs DEF NewCalibrator, Calibrators
<1>4. <<>> \in Seq(PairKinds) /\ Len(<<>>) = 0
  OBVIOUS
<1> HIDE DEF c
<1>5. Ring(Unwrapped(c.pairs), MaxPairs, c.pairCount, c.writeIdx % MaxPairs, <<>>)
  <2>1. c.writeIdx % MaxPairs = 0
    BY <1>1, <1>2
  <2>2. Unwrapped(c.pairs) = [i \in 0..(MaxPairs - 1) |-> Unwrapped(c.pairs)[i]]
    BY DEF Unwrapped
  <2> QED BY <1>1, <1>2, <1>4, <2>1, <2>2 DEF Ring
<1>6. c.bins = BinsOf(LatestOf(<<>>, c.n))
  <2>1. LatestOf(<<>>, 0) = <<>>
    BY <1>4 DEF LatestOf
  <2>2. BinsOf(<<>>) = NoBins
    <3>1. PICK n, s : n = 0 /\ s = <<>>
      OBVIOUS
    <3>2. n \in Nat /\ s \in [1..n -> PairKinds]
      BY <3>1
    <3>3. PICK f : BinsAlong(f, n, s) /\ f[n] = BinsOf(s)
      BY <3>2, BinsAlongExists
    <3> QED BY <3>1, <3>3 DEF BinsAlong
  <2> QED BY <1>2, <2>1, <2>2
<1> QED BY <1>1, <1>2, <1>3, <1>4, <1>5, <1>6 DEF CalibratorGood, c

\* The window of the reliability lies within the history.
LEMMA LatestPairs ==
  ASSUME NEW seq \in Seq(PairKinds), NEW n \in 0..Len(seq)
  PROVE  LatestOf(seq, n) \in Seq(PairKinds)
<1>1. n \in Nat
  OBVIOUS
<1> QED BY <1>1, LatestOfIs

\* A recorded pair keeps the calibrator good, one pair later.
LEMMA RecordIsGood ==
  ASSUME NEW seq, NEW c, NEW since \in Nat, CalibratorGood(seq, c, since), NEW pair \in PairKinds
  PROVE  CalibratorGood(Append(seq, pair), RecordPair(c, pair), since + 1)
<1> DEFINE d == RecordPair(c, pair)
           more == Append(seq, pair)
           pos == c.writeIdx % MaxPairs
<1>1. MaxPairs \in Nat \ {0}
  BY LearningAssumption
<1>2. /\ seq \in Seq(PairKinds) /\ c \in Calibrators
      /\ Ring(Unwrapped(c.pairs), MaxPairs, c.pairCount, pos, seq)
      /\ c.pairCount <= c.n /\ c.n <= Len(seq) /\ c.n <= MaxPairs + since
      /\ c.bins = BinsOf(LatestOf(seq, c.n))
  BY DEF CalibratorGood
<1>3. /\ c.pairs \in [0..(MaxPairs - 1) -> Cells] /\ c.writeIdx \in Nat /\ c.pairCount \in Nat
      /\ c.bins \in Bins /\ c.n \in Nat
  BY <1>2, CalibratorTypes
<1>4. /\ d.pairs = [c.pairs EXCEPT ![pos] = <<pair>>] /\ d.writeIdx = c.writeIdx + 1
      /\ d.pairCount = (IF c.pairCount < MaxPairs THEN c.pairCount + 1 ELSE c.pairCount)
      /\ d.bins = UpdateBin(c.bins, pair) /\ d.n = c.n + 1
      /\ d = [pairs |-> d.pairs, writeIdx |-> d.writeIdx, pairCount |-> d.pairCount,
              bins |-> d.bins, n |-> d.n]
  BY DEF RecordPair
<1>5. more \in Seq(PairKinds) /\ Len(more) = Len(seq) + 1 /\ Len(seq) \in Nat
  BY <1>2
<1>6. pos \in 0..(MaxPairs - 1) /\ d.writeIdx % MaxPairs = (pos + 1) % MaxPairs
  BY <1>1, <1>3, <1>4, ModuloOneMore
<1> HIDE DEF d, more, pos
<1>7. d \in Calibrators
  <2>1. <<pair>> \in Cells
    BY DEF Cells
  <2>2. d.pairs \in [0..(MaxPairs - 1) -> Cells]
    BY <1>3, <1>4, <1>6, <2>1
  <2>3. d.bins \in Bins
    BY <1>3, <1>4, UpdateBinIs
  <2>4. d.writeIdx \in Nat /\ d.pairCount \in Nat /\ d.n \in Nat
    BY <1>1, <1>3, <1>4, SMTT(30)
  <2> QED BY <1>4, <2>2, <2>3, <2>4 DEF Calibrators
<1>8. Ring(Unwrapped(d.pairs), MaxPairs, d.pairCount, d.writeIdx % MaxPairs, more)
  <2> DEFINE u == Unwrapped(c.pairs)
  <2>1. Unwrapped(d.pairs) = [u EXCEPT ![pos] = pair]
    <3>1. \A j \in 0..(MaxPairs - 1) : d.pairs[j] = IF j = pos THEN <<pair>> ELSE c.pairs[j]
      BY <1>3, <1>4, <1>6
    <3>2. <<pair>>[1] = pair
      OBVIOUS
    <3>3. \A j \in 0..(MaxPairs - 1) : d.pairs[j][1] = IF j = pos THEN pair ELSE c.pairs[j][1]
      BY <3>1, <3>2
    <3> QED BY <1>6, <3>3 DEF Unwrapped
  <2> HIDE DEF u
  <2>2. Ring(u, MaxPairs, c.pairCount, pos, seq)
    BY <1>2 DEF u
  <2>3. Ring([u EXCEPT ![pos] = pair], MaxPairs,
             IF c.pairCount < MaxPairs THEN c.pairCount + 1 ELSE c.pairCount,
             (pos + 1) % MaxPairs, Append(seq, pair))
    BY <1>1, <1>2, <2>2, RingMovesOn
  <2> QED BY Zenon, <1>4, <1>6, <2>1, <2>3 DEF more
<1>9. d.pairCount <= d.n /\ d.n <= Len(more) /\ d.n <= MaxPairs + (since + 1)
  <2>1. PICK k \in Nat, n \in Nat, l \in Nat : k = c.pairCount /\ n = c.n /\ l = Len(seq)
    BY <1>3, <1>5
  <2>2. d.pairCount = (IF k < MaxPairs THEN k + 1 ELSE k) /\ d.n = n + 1 /\ Len(more) = l + 1
    BY Zenon, <1>4, <1>5, <2>1
  <2>3. k <= n /\ n <= l /\ n <= MaxPairs + since
    BY Zenon, <1>2, <2>1
  <2> QED BY <1>1, <2>2, <2>3
<1>10. d.bins = BinsOf(LatestOf(more, d.n))
  <2>1. PICK n \in 0..Len(seq) : n = c.n
    BY <1>2, <1>3, <1>5
  <2>2. LatestOf(Append(seq, pair), n + 1) = Append(LatestOf(seq, n), pair)
    BY <1>2, LatestGrows
  <2>3. LatestOf(seq, n) \in Seq(PairKinds)
    BY <1>2, LatestPairs
  <2>4. BinsOf(Append(LatestOf(seq, n), pair)) = UpdateBin(BinsOf(LatestOf(seq, n)), pair)
    BY <2>3, BinsOfMore
  <2>5. c.bins = BinsOf(LatestOf(seq, n)) /\ d.n = n + 1
    BY Zenon, <1>2, <1>4, <2>1
  <2> QED BY Zenon, <1>4, <2>2, <2>4, <2>5 DEF more
<1> QED BY <1>5, <1>7, <1>8, <1>9, <1>10 DEF CalibratorGood, d, more

\* Without a pair of its own a calibrator only grows older.
LEMMA OlderIsGood ==
  ASSUME NEW seq, NEW c, NEW since \in Nat, CalibratorGood(seq, c, since)
  PROVE  CalibratorGood(seq, c, since + 1)
<1>1. MaxPairs \in Nat \ {0}
  BY LearningAssumption
<1>2. c.n <= MaxPairs + since /\ c \in Calibrators
  BY DEF CalibratorGood
<1>3. c.n \in Nat
  BY <1>2, CalibratorTypes
<1>4. c.n <= MaxPairs + (since + 1)
  BY <1>1, <1>2, <1>3
<1> QED BY <1>4 DEF CalibratorGood

\* The ring read in order is the latest of the pairs.
LEMMA PairsAre ==
  ASSUME NEW seq, NEW c, NEW since, CalibratorGood(seq, c, since)
  PROVE  PairsArray(c) = LatestOf(seq, MaxPairs) /\ Len(LatestOf(seq, MaxPairs)) = c.pairCount
<1> DEFINE pos == c.writeIdx % MaxPairs
           start == IF c.pairCount < MaxPairs THEN 0 ELSE pos
           u == Unwrapped(c.pairs)
<1>1. MaxPairs \in Nat \ {0}
  BY LearningAssumption
<1>2. /\ seq \in Seq(PairKinds) /\ c \in Calibrators
      /\ Ring(u, MaxPairs, c.pairCount, pos, seq)
  BY DEF CalibratorGood
<1>3. pos \in 0..(MaxPairs - 1) /\ c.pairCount \in Nat
  BY <1>2, CalibratorTypes DEF Ring
<1>4. /\ [i \in 1..c.pairCount |-> u[((IF c.pairCount < MaxPairs THEN 0 ELSE pos) + i - 1) % MaxPairs]]
           = LatestOf(seq, MaxPairs)
      /\ Len(LatestOf(seq, MaxPairs)) = c.pairCount
  <2> HIDE DEF u, pos
  <2> QED BY <1>1, <1>2, RingReads
<1>5. start \in Nat
  BY <1>3
<1>6. PairsArray(c) = [i \in 1..c.pairCount |-> c.pairs[(start + i - 1) % MaxPairs][1]]
  BY DEF PairsArray
<1> HIDE DEF start, pos
<1>7. ASSUME NEW i \in 1..c.pairCount
      PROVE  u[(start + i - 1) % MaxPairs] = c.pairs[(start + i - 1) % MaxPairs][1]
  <2>1. PICK x \in Nat : x = start + i - 1
    BY <1>5
  <2>2. x % MaxPairs \in 0..(MaxPairs - 1)
    BY <1>1, ModuloOneMore
  <2>3. u[x % MaxPairs] = c.pairs[x % MaxPairs][1]
    BY <2>2 DEF Unwrapped
  <2> QED BY Zenon, <2>1, <2>3
<1> HIDE DEF u
<1>8. PairsArray(c) = [i \in 1..c.pairCount |-> u[(start + i - 1) % MaxPairs]]
  BY Zenon, <1>6, <1>7
<1> QED BY Zenon, <1>4, <1>8 DEF start

\* A refit counts what the ring holds.
LEMMA FitIsGood ==
  ASSUME NEW seq, NEW c, NEW since \in Nat, CalibratorGood(seq, c, since)
  PROVE  CalibratorGood(seq, FitOne(c), 0)
<1>1. MaxPairs \in Nat \ {0} /\ MinFit \in Nat /\ MinFit <= MaxPairs
  BY LearningAssumption
<1>2. /\ seq \in Seq(PairKinds) /\ c \in Calibrators
      /\ Ring(Unwrapped(c.pairs), MaxPairs, c.pairCount, c.writeIdx % MaxPairs, seq)
      /\ c.pairCount <= c.n /\ c.n <= Len(seq) /\ c.bins = BinsOf(LatestOf(seq, c.n))
  BY DEF CalibratorGood
<1>3. /\ c.pairs \in [0..(MaxPairs - 1) -> Cells] /\ c.writeIdx \in Nat /\ c.pairCount \in Nat
      /\ c.bins \in Bins /\ c.n \in Nat
      /\ c = [pairs |-> c.pairs, writeIdx |-> c.writeIdx, pairCount |-> c.pairCount,
              bins |-> c.bins, n |-> c.n]
  BY <1>2, CalibratorTypes
<1>4. c.pairCount = (IF Len(seq) > MaxPairs THEN MaxPairs ELSE Len(seq)) /\ Len(seq) \in Nat
  BY <1>2 DEF Ring
<1>5. CASE c.pairCount < MinFit
  <2>1. FitOne(c) = c
    BY <1>5 DEF FitOne
  <2>2. c.n <= MaxPairs + 0
    BY <1>1, <1>2, <1>3, <1>4, <1>5
  <2> QED BY <1>2, <2>1, <2>2 DEF CalibratorGood
<1>6. CASE ~(c.pairCount < MinFit)
  <2> DEFINE d == FitOne(c)
  <2>1. d = CountedAnew(c)
    BY <1>6 DEF FitOne
  <2>2. PairsArray(c) = LatestOf(seq, MaxPairs)
    BY PairsAre
  <2>3. LatestOf(seq, MaxPairs) = LatestOf(seq, c.pairCount)
    <3>1. CASE Len(seq) > MaxPairs
      BY <1>4, <3>1
    <3>2. CASE ~(Len(seq) > MaxPairs)
      BY <1>4, <3>2 DEF LatestOf
    <3> QED BY <3>1, <3>2
  <2> DEFINE bins == BinsOf(PairsArray(c))
  <2>4. d = [pairs |-> c.pairs, writeIdx |-> c.writeIdx, pairCount |-> c.pairCount,
             bins |-> bins, n |-> c.pairCount]
    <3>1. d = [c EXCEPT !.bins = bins, !.n = c.pairCount]
      BY <2>1 DEF CountedAnew, BinsOf
    <3> HIDE DEF bins, d
    <3> QED BY <1>3, <3>1
  <2>5. bins = BinsOf(LatestOf(seq, c.pairCount))
    BY Zenon, <2>2, <2>3
  <2>6. bins \in Bins
    <3>1. PICK k \in 0..Len(seq) : k = c.pairCount
      BY <1>1, <1>4
    <3>2. LatestOf(seq, k) \in Seq(PairKinds)
      BY <1>2, LatestPairs
    <3>3. PairKinds # {}
      BY DEF PairKinds
    <3>4. BinsOf(LatestOf(seq, k)) \in Bins
      BY <3>2, <3>3, BinsOfMore
    <3> QED BY Zenon, <2>5, <3>1, <3>4
  <2> HIDE DEF d, bins
  <2>7. d.pairs = c.pairs /\ d.writeIdx = c.writeIdx /\ d.pairCount = c.pairCount
        /\ d.bins = bins /\ d.n = c.pairCount
    BY <2>4
  <2>8. d \in Calibrators
    BY <1>3, <2>4, <2>6 DEF Calibrators
  <2>9. d.pairCount <= d.n /\ d.n <= Len(seq) /\ d.n <= MaxPairs + 0
    BY <1>1, <1>3, <1>4, <2>7
  <2>10. Ring(Unwrapped(d.pairs), MaxPairs, d.pairCount, d.writeIdx % MaxPairs, seq)
    BY Zenon, <1>2, <2>7
  <2>11. d.bins = BinsOf(LatestOf(seq, d.n))
    BY Zenon, <2>5, <2>7
  <2> QED BY <1>2, <2>8, <2>9, <2>10, <2>11 DEF CalibratorGood, d
<1> QED BY <1>5, <1>6

\* A new regime is the last of the order, and the oldest makes room.
LEMMA OrderIs ==
  ASSUME regimeOrder \in Seq(Regimes), NEW regime \in Regimes
  PROVE  /\ WithRegime(regime) \in Seq(Regimes)
         /\ Range(WithRegime(regime)) \subseteq Range(regimeOrder) \cup {regime}
<1>1. MaxRegimes \in Nat \ {0}
  BY LearningAssumption
<1>2. CASE regime \in Range(regimeOrder)
  BY <1>2 DEF WithRegime
<1>3. CASE regime \notin Range(regimeOrder)
  <2> DEFINE old == IF Len(regimeOrder) >= MaxRegimes THEN Tail(regimeOrder) ELSE regimeOrder
  <2>1. old \in Seq(Regimes) /\ Range(old) \subseteq Range(regimeOrder)
    <3>1. CASE Len(regimeOrder) >= MaxRegimes
      <4>1. Len(regimeOrder) \in Nat \ {0}
        BY <1>1, <3>1
      <4>2. /\ Tail(regimeOrder) \in Seq(Regimes) /\ Len(Tail(regimeOrder)) = Len(regimeOrder) - 1
            /\ \A i \in 1..(Len(regimeOrder) - 1) : Tail(regimeOrder)[i] = regimeOrder[i + 1]
        BY <4>1
      <4>3. \A i \in 1..(Len(regimeOrder) - 1) : i + 1 \in 1..Len(regimeOrder)
        BY <4>1
      <4>4. DOMAIN Tail(regimeOrder) = 1..(Len(regimeOrder) - 1) /\ DOMAIN regimeOrder = 1..Len(regimeOrder)
        BY <4>2
      <4> QED BY <3>1, <4>2, <4>3, <4>4 DEF Range
    <3>2. CASE ~(Len(regimeOrder) >= MaxRegimes)
      BY <3>2
    <3> QED BY <3>1, <3>2
  <2>2. WithRegime(regime) = Append(old, regime)
    BY <1>3 DEF WithRegime
  <2> HIDE DEF old
  <2>3. /\ Append(old, regime) \in Seq(Regimes) /\ Len(Append(old, regime)) = Len(old) + 1
        /\ Append(old, regime)[Len(old) + 1] = regime
        /\ \A i \in 1..Len(old) : Append(old, regime)[i] = old[i]
    BY <2>1
  <2>4. ASSUME NEW x \in Range(Append(old, regime))
        PROVE  x \in Range(old) \/ x = regime
    <3>1. PICK i \in 1..(Len(old) + 1) : x = Append(old, regime)[i]
      BY <2>3 DEF Range
    <3>2. i = Len(old) + 1 \/ i \in 1..Len(old)
      BY <2>1
    <3>3. DOMAIN old = 1..Len(old)
      BY <2>1
    <3> QED BY <2>3, <3>1, <3>2, <3>3 DEF Range
  <2> QED BY <2>1, <2>2, <2>3, <2>4
<1> QED BY <1>2, <1>3

\* There is the global calibrator only, and it is new.
LEMMA CalibrationInitInv == LearningInit => CalibrationInv
<1> SUFFICES ASSUME LearningInit
             PROVE  CalibrationInv
  OBVIOUS
<1>1. /\ observedPairs = [r \in {"global"} |-> <<>>] /\ calibrators = [r \in {"global"} |-> NewCalibrator]
      /\ regimeOrder = <<>> /\ sinceRefit = 0
  BY DEF LearningInit
<1>2. regimeOrder \in Seq(Regimes) /\ Range(regimeOrder) = {}
  BY <1>1 DEF Range
<1>3. sinceRefit \in 0..(RefitEvery - 1)
  BY <1>1, LearningAssumption
<1>4. CalibratorGood(<<>>, NewCalibrator, 0)
  BY NewIsGood
<1> QED BY <1>1, <1>2, <1>3, <1>4 DEF CalibrationInv

\* Observations keep it: recorded twice, with an eviction, with a refit, or
\* none of these.
LEMMA CalibrationNextInv == CalibrationInv /\ [CalibrationNext]_calibrationVars => CalibrationInv'
<1> SUFFICES ASSUME CalibrationInv, [CalibrationNext]_calibrationVars
             PROVE  CalibrationInv'
  OBVIOUS
<1>1. RefitEvery \in Nat \ {0} /\ "global" \notin Regimes
  BY LearningAssumption
<1>2. /\ regimeOrder \in Seq(Regimes) /\ sinceRefit \in 0..(RefitEvery - 1)
      /\ DOMAIN calibrators = {"global"} \cup Range(regimeOrder)
      /\ \A r \in {"global"} \cup Range(regimeOrder) : CalibratorGood(observedPairs[r], calibrators[r], sinceRefit)
  BY DEF CalibrationInv
<1>3. CASE UNCHANGED calibrationVars
  <2>1. UNCHANGED <<observedPairs, calibrators, regimeOrder, sinceRefit>>
    BY <1>3 DEF calibrationVars
  <2> QED BY <1>2, <2>1 DEF CalibrationInv
<1>4. ASSUME NEW pair \in PairKinds, NEW regime \in Regimes \cup {"global"}, ObservePair(pair, regime)
      PROVE  CalibrationInv'
  <2> DEFINE order == IF regime = "global" THEN regimeOrder ELSE WithRegime(regime)
             kept(r) == r = "global" \/ r \in Range(regimeOrder)
             told(r) == r = "global" \/ r = regime
             before(r) == IF kept(r) THEN calibrators[r] ELSE NewCalibrator
             after(r) == IF told(r) THEN RecordPair(before(r), pair) ELSE before(r)
             seen(r) == IF kept(r) THEN observedPairs[r] ELSE <<>>
             refit == sinceRefit + 1 >= RefitEvery
             alive == {"global"} \cup Range(order)
             now(r) == IF told(r) THEN Append(seen(r), pair) ELSE seen(r)
  <2>1. /\ regimeOrder' = order
        /\ calibrators' = [r \in alive |-> IF refit THEN FitOne(after(r)) ELSE after(r)]
        /\ observedPairs' = [r \in alive |-> now(r)]
        /\ sinceRefit' = IF refit THEN 0 ELSE sinceRefit + 1
    BY <1>4 DEF ObservePair
  <2>2. order \in Seq(Regimes) /\ \A r \in alive : kept(r) \/ told(r)
    <3>1. CASE regime = "global"
      BY <1>2, <3>1
    <3>2. CASE regime # "global"
      <4>1. regime \in Regimes
        BY <3>2
      <4>2. /\ WithRegime(regime) \in Seq(Regimes)
            /\ Range(WithRegime(regime)) \subseteq Range(regimeOrder) \cup {regime}
        BY <1>2, <4>1, OrderIs
      <4> QED BY <3>2, <4>2
    <3> QED BY <3>1, <3>2
  <2>3. ASSUME NEW r \in alive
        PROVE  CalibratorGood(now(r), after(r), sinceRefit + 1)
    <3>1. sinceRefit \in Nat
      BY <1>2
    <3>2. CalibratorGood(seen(r), before(r), sinceRefit)
      <4>1. CASE kept(r)
        BY <1>2, <4>1
      <4>2. CASE ~kept(r)
        <5>1. CalibratorGood(<<>>, NewCalibrator, sinceRefit)
          BY <3>1, NewIsGood
        <5> QED BY Zenon, <4>2, <5>1
      <4> QED BY <4>1, <4>2
    <3> HIDE DEF seen, before
    <3>3. CASE told(r)
      <4>1. CalibratorGood(Append(seen(r), pair), RecordPair(before(r), pair), sinceRefit + 1)
        BY <3>1, <3>2, RecordIsGood
      <4> QED BY Zenon, <3>3, <4>1
    <3>4. CASE ~told(r)
      <4>1. CalibratorGood(seen(r), before(r), sinceRefit + 1)
        BY <3>1, <3>2, OlderIsGood
      <4> QED BY Zenon, <3>4, <4>1
    <3> QED BY <3>3, <3>4
  <2> HIDE DEF alive, now, after, order
  <2>4. CASE refit
    <3>1. \A r \in alive : CalibratorGood(now(r), FitOne(after(r)), 0)
      <4>1. sinceRefit + 1 \in Nat
        BY <1>2
      <4> QED BY <2>3, <4>1, FitIsGood
    <3>2. /\ calibrators' = [r \in alive |-> FitOne(after(r))] /\ sinceRefit' = 0
      BY <2>1, <2>4
    <3>3. \A r \in alive : CalibratorGood(observedPairs'[r], calibrators'[r], sinceRefit')
      BY Zenon, <2>1, <3>1, <3>2
    <3>4. sinceRefit' \in 0..(RefitEvery - 1) /\ DOMAIN calibrators' = alive
      BY <1>1, <3>2
    <3> QED BY <2>1, <2>2, <3>3, <3>4 DEF CalibrationInv, alive
  <2>5. CASE ~refit
    <3>1. /\ calibrators' = [r \in alive |-> after(r)] /\ sinceRefit' = sinceRefit + 1
      BY <2>1, <2>5
    <3>2. \A r \in alive : CalibratorGood(observedPairs'[r], calibrators'[r], sinceRefit')
      BY Zenon, <2>1, <2>3, <3>1
    <3>3. sinceRefit' \in 0..(RefitEvery - 1) /\ DOMAIN calibrators' = alive
      BY <1>1, <1>2, <2>5, <3>1
    <3> QED BY <2>1, <2>2, <3>2, <3>3 DEF CalibrationInv, alive
  <2> QED BY <2>4, <2>5
<1> QED BY <1>3, <1>4 DEF CalibrationNext

\* The reliability is then that of the latest pairs.
LEMMA CalibrationInvImplies == CalibrationInv => ReliabilityIsRecent
<1> SUFFICES ASSUME CalibrationInv, NEW r \in DOMAIN calibrators
             PROVE  LET c == calibrators[r] IN
                    /\ PairsArray(c) = LatestOf(observedPairs[r], MaxPairs)
                    /\ c.pairCount <= c.n /\ c.n <= Len(observedPairs[r]) /\ c.n < MaxPairs + RefitEvery
                    /\ c.bins = FoldLeft(UpdateBin, NoBins, LatestOf(observedPairs[r], c.n))
  BY DEF ReliabilityIsRecent
<1> DEFINE c == calibrators[r]
           seq == observedPairs[r]
<1>1. MaxPairs \in Nat \ {0} /\ RefitEvery \in Nat \ {0}
  BY LearningAssumption
<1>2. CalibratorGood(seq, c, sinceRefit) /\ sinceRefit \in 0..(RefitEvery - 1)
  BY DEF CalibrationInv
<1> HIDE DEF c, seq
<1>3. PairsArray(c) = LatestOf(seq, MaxPairs)
  BY <1>2, PairsAre
<1>4. c.pairCount <= c.n /\ c.n <= Len(seq) /\ c.n <= MaxPairs + sinceRefit /\ c.bins = BinsOf(LatestOf(seq, c.n))
      /\ c \in Calibrators
  BY <1>2 DEF CalibratorGood
<1>5. c.n \in Nat
  BY <1>4, CalibratorTypes
<1>6. c.n < MaxPairs + RefitEvery
  BY <1>1, <1>2, <1>4, <1>5
<1> QED BY <1>3, <1>4, <1>6 DEF c, seq, BinsOf

(* Between refits the reliability of a regime is that of its latest pairs, *)
(* all of the ring and less than refitEvery more, each counted once; for   *)
(* any sizes of the ring, any number of regimes, of pairs and of           *)
(* evictions. (calibration-state.ts record, fitOne)                        *)
THEOREM ReliabilityFollowsPairs == LearningInit /\ [][CalibrationNext]_calibrationVars => []ReliabilityIsRecent
BY CalibrationInitInv, CalibrationNextInv, CalibrationInvImplies, PTL
-----------------------------------------------------------------------------
(* The ranks of opportunities.                                             *)
\* An opportunity and its score.
Scores == [id : Int, score : Int]
\* Inductive: the ranks are those of the window as it is.
RanksInv ==
  /\ ranked \in Seq(Scores) /\ inserted \in Nat
  /\ ranks = [i \in DOMAIN ranked |-> RankIn(ranked, i)]

\* Scores are numbers.
LEMMA ScoreIsNumber ==
  ASSUME NEW window \in Seq(Scores), NEW i \in 1..Len(window)
  PROVE  window[i].score \in Int
<1>1. window[i] \in Scores
  BY ElementOfSeq
<1>2. \A s \in Scores : s.score \in Int
  BY DEF Scores
<1> QED BY <1>1, <1>2

\* Those that come before the i-th: a higher score, or the same and earlier.
Ahead(window, i) ==
  {j \in DOMAIN window : window[j].score > window[i].score
                         \/ (window[j].score = window[i].score /\ j < i)}

\* A rank is a place in the window.
LEMMA RankIsInRange ==
  ASSUME NEW window \in Seq(Scores), NEW i \in 1..Len(window)
  PROVE  RankIn(window, i) \in 1..Len(window)
<1> DEFINE n == Len(window)
<1>1. n \in Nat /\ DOMAIN window = 1..n
  OBVIOUS
<1>2. IsFiniteSet(1..n) /\ Cardinality(1..n) = n
  BY <1>1, UpToIsFinite
<1>3. IsFiniteSet((1..n) \ {i}) /\ Cardinality((1..n) \ {i}) = n - 1
  BY <1>2, FS_RemoveElement
<1>4. Ahead(window, i) \in SUBSET ((1..n) \ {i})
  <2>1. window[i].score \in Int
    BY ScoreIsNumber
  <2> QED BY <1>1, <2>1 DEF Ahead
<1>5. IsFiniteSet(Ahead(window, i)) /\ Cardinality(Ahead(window, i)) <= n - 1
  BY <1>3, <1>4, FS_Subset
<1>6. Cardinality(Ahead(window, i)) \in Nat
  BY <1>5, FS_CardinalityType
<1>7. RankIn(window, i) = 1 + Cardinality(Ahead(window, i))
  BY DEF RankIn, Ahead
<1> QED BY <1>1, <1>5, <1>6, <1>7

\* One that comes before another has a lower rank.
LEMMA RankFollows ==
  ASSUME NEW window \in Seq(Scores), NEW i \in 1..Len(window), NEW j \in 1..Len(window),
         window[i].score > window[j].score \/ (window[i].score = window[j].score /\ i < j)
  PROVE  RankIn(window, i) < RankIn(window, j)
<1> DEFINE n == Len(window)
           A == Ahead(window, i)
           B == Ahead(window, j)
<1>1. n \in Nat /\ DOMAIN window = 1..n /\ \A k \in 1..n : window[k].score \in Int
  BY ScoreIsNumber
<1>2. A \in SUBSET B /\ i \in B /\ i \notin A /\ B \in SUBSET (1..n)
  BY <1>1 DEF Ahead
<1> HIDE DEF A, B
<1> HIDE DEF n
<1>3. IsFiniteSet(1..n)
  BY <1>1, UpToIsFinite
<1>4. IsFiniteSet(B)
  BY <1>2, <1>3, FS_Subset
<1>5. IsFiniteSet(A) /\ Cardinality(A) <= Cardinality(B) /\ Cardinality(A) # Cardinality(B)
  BY <1>2, <1>4, FS_Subset
<1>6. Cardinality(A) \in Nat /\ Cardinality(B) \in Nat
  BY <1>4, <1>5, FS_CardinalityType
<1>7. RankIn(window, i) = 1 + Cardinality(A) /\ RankIn(window, j) = 1 + Cardinality(B)
  BY DEF RankIn, Ahead, A, B
<1> QED BY <1>5, <1>6, <1>7

\* Nothing is ranked at first.
LEMMA RanksInitInv == LearningInit => RanksInv
<1> SUFFICES ASSUME LearningInit
             PROVE  RanksInv
  OBVIOUS
<1>1. ranked = <<>> /\ ranks = <<>> /\ inserted = 0
  BY DEF LearningInit
<1>2. <<>> \in Seq(Scores) /\ DOMAIN <<>> = {} /\ \A f : DOMAIN f = {} /\ f \in Seq(Scores) => f = <<>>
  OBVIOUS
<1>3. [i \in DOMAIN <<>> |-> RankIn(<<>>, i)] = <<>>
  <2>1. Len(<<>>) = 0
    OBVIOUS
  <2>2. [i \in 1..0 |-> RankIn(<<>>, i)] = <<>>
    BY EmptySeq
  <2> QED BY <2>2
<1> QED BY <1>1, <1>2, <1>3 DEF RanksInv

\* Insertions and resets rank anew.
LEMMA RanksNextInv == RanksInv /\ [RankNext]_rankVars => RanksInv'
<1> SUFFICES ASSUME RanksInv, [RankNext]_rankVars
             PROVE  RanksInv'
  OBVIOUS
<1>1. ASSUME NEW score \in 0..2, ScoreAndInsert(score)
      PROVE  RanksInv'
  <2> DEFINE rec == [id |-> inserted + 1, score |-> score]
             kept == LatestOf(Append(ranked, rec), MaxWindow)
  <2>1. rec \in Scores /\ inserted + 1 \in Nat
    BY DEF RanksInv, Scores
  <2>2. Append(ranked, rec) \in Seq(Scores)
    BY <2>1 DEF RanksInv
  <2>3. kept \in Seq(Scores)
    BY <2>2, LearningAssumption, LatestOfIs
  <2>4. ranked' = kept /\ inserted' = inserted + 1
        /\ ranks' = [i \in DOMAIN kept |-> RankIn(kept, i)]
    BY <1>1 DEF ScoreAndInsert, RankedAfter
  <2> QED BY <2>1, <2>3, <2>4 DEF RanksInv
<1>2. CASE UNCHANGED rankVars
  BY <1>2 DEF rankVars, RanksInv
<1> QED BY <1>1, <1>2 DEF RankNext

\* Ranks of the window follow its scores and are all its places.
LEMMA RanksInvImplies == RanksInv => RanksFollowScores
<1> SUFFICES ASSUME RanksInv
             PROVE  RanksFollowScores
  OBVIOUS
<1> DEFINE n == Len(ranked)
<1>1. n \in Nat /\ DOMAIN ranked = 1..n /\ ranked \in Seq(Scores)
  BY DEF RanksInv
<1>2. ranks \in [1..n -> 1..n]
  BY <1>1, RankIsInRange DEF RanksInv
<1>3. ASSUME NEW i \in 1..n, NEW j \in 1..n, ranked[i].score > ranked[j].score
      PROVE  ranks[i] < ranks[j]
  BY <1>1, <1>3, RankFollows DEF RanksInv
<1>4. ASSUME NEW i \in 1..n, NEW j \in 1..n, ranks[i] = ranks[j]
      PROVE  i = j
  <2>1. ranked[i].score \in Int /\ ranked[j].score \in Int
    BY <1>1, ScoreIsNumber
  <2>2. ranks[i] = RankIn(ranked, i) /\ ranks[j] = RankIn(ranked, j)
    BY <1>1 DEF RanksInv
  <2>3. RankIn(ranked, i) \in Int /\ RankIn(ranked, j) \in Int
    BY <1>2, <2>2
  <2>4. CASE ranked[i].score > ranked[j].score \/ (ranked[i].score = ranked[j].score /\ i < j)
    <3>1. RankIn(ranked, i) < RankIn(ranked, j)
      BY <1>1, <2>4, RankFollows
    <3>2. \A x, y \in Int : x < y => x # y
      OBVIOUS
    <3> QED BY Zenon, <1>4, <2>2, <2>3, <3>1, <3>2
  <2>5. CASE ranked[j].score > ranked[i].score \/ (ranked[j].score = ranked[i].score /\ j < i)
    <3>1. RankIn(ranked, j) < RankIn(ranked, i)
      BY <1>1, <2>5, RankFollows
    <3>2. \A x, y \in Int : x < y => x # y
      OBVIOUS
    <3> QED BY Zenon, <1>4, <2>2, <2>3, <3>1, <3>2
  <2> QED BY <2>1, <2>4, <2>5
<1>5. ranks \in Injection(1..n, 1..n)
  BY <1>2, <1>4, Fun_IsInj
<1>6. IsFiniteSet(1..n)
  BY <1>1, UpToIsFinite
<1>7. ranks \in Surjection(1..n, 1..n)
  BY <1>5, <1>6, FS_Injection
<1>8. Range(ranks) = 1..n
  BY <1>7, Fun_SurjectionProperties
<1> QED BY <1>1, <1>3, <1>8 DEF RanksFollowScores

(* Ranks are 1, 2, ... without gap or tie and follow the scores, for any   *)
(* window and any scores. (opportunity-ranker.ts rerank)                   *)
THEOREM RanksFollow == LearningInit /\ [][RankNext]_rankVars => []RanksFollowScores
BY RanksInitInv, RanksNextInv, RanksInvImplies, PTL
-----------------------------------------------------------------------------
(* The record of a model.                                                  *)
\* Inductive, with types: no more right answers than answers.
RecordInv == recentResults \in [correct : Nat, total : Nat] /\ recentResults.correct <= recentResults.total

\* Nothing was answered at first.
LEMMA RecordInitInv == LearningInit => RecordInv
BY DEF LearningInit, RecordInv

\* An answer adds to both, and a scaling down rounds both the same way.
LEMMA RecordNextInv == RecordInv /\ [PerfNext]_perfVars => RecordInv'
<1> SUFFICES ASSUME RecordInv, [PerfNext]_perfVars
             PROVE  RecordInv'
  OBVIOUS
<1>1. ASSUME NEW c \in Nat, NEW t \in Nat, c <= t
      PROVE  /\ (9 * c) \div 10 \in Nat /\ (9 * t) \div 10 \in Nat
             /\ (9 * c) \div 10 <= (9 * t) \div 10
  BY <1>1
<1>2. recentResults.correct \in Nat /\ recentResults.total \in Nat
      /\ recentResults.correct <= recentResults.total
  BY DEF RecordInv
<1>3. ASSUME NEW right \in BOOLEAN, ObserveModel(right)
      PROVE  RecordInv'
  <2>1. PICK c \in Nat : c = recentResults.correct + (IF right THEN 1 ELSE 0)
    BY <1>2
  <2>2. PICK t \in Nat : t = recentResults.total + 1
    BY <1>2
  <2>3. c <= t
    BY <1>2, <2>1, <2>2
  <2>4. recentResults' = IF t > RecentCap THEN [correct |-> (9 * c) \div 10, total |-> (9 * t) \div 10]
                         ELSE [correct |-> c, total |-> t]
    BY <1>3, <2>1, <2>2 DEF ObserveModel, Scaled
  <2> QED BY <1>1, <2>3, <2>4 DEF RecordInv
<1>4. CASE UNCHANGED perfVars
  BY <1>4 DEF perfVars, RecordInv
<1> QED BY <1>3, <1>4 DEF PerfNext

\* So it is a rate.
LEMMA RecordInvImplies == RecordInv => RecordIsARate
BY DEF RecordInv, RecordIsARate

(* There are never more right answers than answers, however often both are *)
(* scaled down. (model-performance.ts observe)                             *)
THEOREM RatesAreRates == LearningInit /\ [][PerfNext]_perfVars => []RecordIsARate
BY RecordInitInv, RecordNextInv, RecordInvImplies, PTL

\* The bounds of the history, of the regimes, of the window and of the record.
PointTypes == Len(points) <= MaxPoints
RegimeTypes == Len(regimeOrder) <= MaxRegimes
WindowTypes == Len(ranked) <= MaxWindow
RecordTypes == recentResults.total <= RecentCap

\* With the inductive invariants, the types of what is learned.
LEMMA LearningTypesMean ==
  EngineInv /\ PointTypes /\ CalibrationInv /\ RegimeTypes /\ RanksInv /\ WindowTypes /\ RecordInv /\ RecordTypes
    => LearningTypeOK
<1> SUFFICES ASSUME EngineInv, PointTypes, CalibrationInv, RegimeTypes,
                    RanksInv, WindowTypes, RecordInv, RecordTypes
             PROVE  LearningTypeOK
  OBVIOUS
<1>1. points \in Seq(1..3) /\ engine \in IncrementalEngines
  BY DEF EngineInv, EngineGood
<1>2. engine.lagLen \in Nat /\ engine.shortLen \in Nat /\ engine.count \in Nat
  BY <1>1, EngineTypes
<1>3. PICK n \in Nat : n = Len(points)
  BY <1>1
<1>4. /\ engine.lagLen = (IF n > LagCap THEN LagCap ELSE n)
      /\ engine.shortLen = (IF n > ShortCap THEN ShortCap ELSE n) /\ engine.count = n
  BY <1>3, Zenon DEF EngineInv, EngineGood, RingsMatch, Ring
<1>5. engine.lagLen \in 0..LagCap /\ engine.shortLen \in 0..ShortCap /\ engine.count \in 0..MaxPoints
  BY <1>3, <1>4, LearningAssumption DEF PointTypes
<1>6. Len(ranked) = Len(ranks)
  <2>1. ranked \in Seq(Scores) /\ ranks = [i \in DOMAIN ranked |-> RankIn(ranked, i)]
    BY Zenon DEF RanksInv
  <2>2. ranks = [i \in 1..Len(ranked) |-> RankIn(ranked, i)] /\ Len(ranked) \in Nat
    BY <2>1
  <2> QED BY <2>2
<1>7. recentResults.total \in 0..RecentCap
  BY LearningAssumption DEF RecordInv, RecordTypes
<1> QED BY <1>1, <1>5, <1>6, <1>7, Zenon
     DEF LearningTypeOK, PointTypes, RegimeTypes, WindowTypes, CalibrationInv

\* Nothing was learned at first.
LEMMA LearningTypesInit == LearningInit => PointTypes /\ RegimeTypes /\ WindowTypes /\ RecordTypes
BY LearningAssumption DEF LearningInit, PointTypes, RegimeTypes, WindowTypes, RecordTypes

\* Points are learned and seeded within the bound.
LEMMA PointTypesNext ==
  ASSUME EngineInv, PointTypes, [EngineNext]_engineVars
  PROVE  PointTypes'
<1>0. points \in Seq(1..3) /\ Len(points) <= MaxPoints /\ MaxPoints \in Nat \ {0, 1}
  BY LearningAssumption DEF EngineInv, EngineGood, PointTypes
<1>1. \/ UNCHANGED points \/ points' = <<>> \/ points' = <<1, 3>>
      \/ Len(points) < MaxPoints /\ \E p \in 0..3 : points' = Append(points, p)
  BY Zenon DEF EngineNext, UpdateEngine, SeedEngine, engineVars
<1>2. ASSUME NEW p, Len(points) < MaxPoints, points' = Append(points, p)
      PROVE  Len(points') <= MaxPoints
  <2>1. Len(Append(points, p)) = Len(points) + 1
    BY <1>0
  <2> QED BY <1>0, <1>2, <2>1
<1>3. Len(<<>>) <= MaxPoints /\ Len(<<1, 3>>) <= MaxPoints
  BY <1>0
<1> QED BY <1>0, <1>1, <1>2, <1>3, Zenon DEF PointTypes

\* A regime more drops the first when there are too many.
LEMMA RegimeTypesNext ==
  ASSUME CalibrationInv, RegimeTypes, [CalibrationNext]_calibrationVars
  PROVE  RegimeTypes'
<1>0. regimeOrder \in Seq(Regimes) /\ Len(regimeOrder) <= MaxRegimes /\ MaxRegimes \in Nat \ {0}
  BY LearningAssumption DEF CalibrationInv, RegimeTypes
<1>1. UNCHANGED regimeOrder \/ \E regime : regimeOrder' = WithRegime(regime)
  BY Zenon DEF CalibrationNext, ObservePair, calibrationVars
<1>2. ASSUME NEW regime PROVE Len(WithRegime(regime)) <= MaxRegimes
  <2> DEFINE old == IF Len(regimeOrder) >= MaxRegimes THEN Tail(regimeOrder) ELSE regimeOrder
  <2>1. WithRegime(regime) = regimeOrder \/ WithRegime(regime) = Append(old, regime)
    BY Zenon DEF WithRegime
  <2>2. old \in Seq(Regimes) /\ Len(old) < MaxRegimes
    BY <1>0
  <2> HIDE DEF old
  <2>3. Len(Append(old, regime)) = Len(old) + 1
    BY <2>2
  <2>4. Len(Append(old, regime)) <= MaxRegimes
    BY <1>0, <2>2, <2>3
  <2> QED BY <1>0, <2>1, <2>4, Zenon
<1> QED BY <1>0, <1>1, <1>2, Zenon DEF RegimeTypes

\* The window of ranks holds no more than it may.
LEMMA WindowTypesNext ==
  ASSUME RanksInv, WindowTypes, [RankNext]_rankVars
  PROVE  WindowTypes'
<1>0. ranked \in Seq(Scores) /\ inserted \in Nat /\ Len(ranked) <= MaxWindow /\ MaxWindow \in Nat
  BY LearningAssumption DEF RanksInv, WindowTypes
<1>1. ASSUME NEW score \in 0..2, ScoreAndInsert(score)
      PROVE  Len(ranked') <= MaxWindow
  <2> DEFINE rec == [id |-> inserted + 1, score |-> score]
             all == Append(ranked, rec)
  <2>1. rec \in Scores
    BY <1>0 DEF Scores
  <2>2. all \in Seq(Scores)
    BY <1>0, <2>1
  <2>3. ranked' = LatestOf(all, MaxWindow)
    BY <1>1, Zenon DEF ScoreAndInsert
  <2> HIDE DEF all
  <2>4. Len(LatestOf(all, MaxWindow)) = IF Len(all) > MaxWindow THEN MaxWindow ELSE Len(all)
    BY <1>0, <2>2, LatestOfIs
  <2>5. Len(LatestOf(all, MaxWindow)) <= MaxWindow
    BY <1>0, <2>2, <2>4
  <2> QED BY <2>3, <2>5, Zenon
<1>2. UNCHANGED ranked \/ \E score \in 0..2 : ScoreAndInsert(score)
  BY Zenon DEF RankNext, rankVars
<1> QED BY <1>0, <1>1, <1>2, Zenon DEF WindowTypes

\* The record is scaled down at its cap.
LEMMA RecordTypesNext ==
  ASSUME RecordInv, RecordTypes, [PerfNext]_perfVars
  PROVE  RecordTypes'
<1>0. recentResults.total \in Nat /\ recentResults.total <= RecentCap /\ RecentCap \in Nat
  BY LearningAssumption DEF RecordInv, RecordTypes
<1>1. ASSUME NEW right \in BOOLEAN, ObserveModel(right) PROVE recentResults'.total <= RecentCap
  <2>1. PICK t \in Nat : t = recentResults.total + 1
    BY <1>0
  <2>2. PICK c : c = recentResults.correct + (IF right THEN 1 ELSE 0)
    OBVIOUS
  <2>3. recentResults' = IF t > RecentCap THEN [correct |-> (9 * c) \div 10, total |-> (9 * t) \div 10]
                         ELSE [correct |-> c, total |-> t]
    BY <1>1, <2>1, <2>2 DEF ObserveModel, Scaled
  <2>4. recentResults'.total = IF t > RecentCap THEN (9 * t) \div 10 ELSE t
    BY <2>3
  <2>5. t <= RecentCap + 1
    BY <1>0, <2>1
  <2>6. t > RecentCap => (9 * t) \div 10 <= RecentCap
    BY <1>0, <2>5
  <2> QED BY <1>0, <2>4, <2>6
<1> QED BY <1>0, <1>1, Zenon DEF PerfNext, perfVars, RecordTypes
-----------------------------------------------------------------------------
(* The engine of ACIE: what it learned, its streaks, its snapshots.        *)
\* A crash as the database has it.
Taught == [id : Int, reached : BOOLEAN]
Rounds == [id : Nat \ {0}, reached : BOOLEAN]
CrashRecords == [id : Int, reached : BOOLEAN, seen : Int, models : Int]
\* The regimes the detector names.
RegimeNames == {"deep-low", "low-cluster", "high-activity", "normal", "unknown"}
\* The online state: streaks, regime and the count to the next validation.
Onlines == [below : Nat, above : Nat, regime : RegimeNames, duration : Nat, sinceHeavy : Nat,
            psiFrom : Int]
\* What an engine is made of.
Engines == [processed : Seq(Int), learned : Seq(CrashRecords), losses : Nat, online : Onlines,
            context : Int, modelsFrom : Int, evidence : Int, heavy : BOOLEAN, restored : Seq(Int)]

\* Every crash of the history was scored by the look at those before it or by the
\* look of the one before it, and its models by the same.
TaughtInOrder(learned) ==
  \A i \in 1..Len(learned) :
    learned[i].seen \in {i - 1, LookBefore(learned, i - 1)} /\ learned[i].models = learned[i].seen

\* What is pending was computed by one look, and so was what is left of the last.
Looks(e) ==
  /\ e.context # NoLook => e.modelsFrom = e.context
  /\ e.context = NoLook => /\ e.online.psiFrom = LookBefore(e.learned, Len(e.learned))
                           /\ e.modelsFrom = e.online.psiFrom
  /\ Len(e.learned) = 0 => e.online.psiFrom = NoLook
Asked(e) == Len(e.learned) = 0 \/ e.context = Len(e.learned)

\* What a snapshot taught comes first.
Ordered(e) == \A i, j \in 1..Len(e.learned) : i < j /\ e.learned[j].id <= 0 => e.learned[i].id <= 0

\* The last k are x and the one before them is not; d is the distance to the end.
EndsIn(crashes, x, k) ==
  \A d \in 0..(Len(crashes) - 1) :
    (d < k => crashes[Len(crashes) - d] = x) /\ (d = k => crashes[Len(crashes) - d] # x)

\* What is held are the ids of the last crashes, each once.
IdsHeld(processed, learned) ==
  /\ Len(processed) = (IF Len(learned) > Remembered THEN Remembered ELSE Len(learned))
  /\ \A d \in 0..(Len(processed) - 1) : processed[Len(processed) - d] = learned[Len(learned) - d].id
\* No id is remembered twice.
EachOnce(ids) == \A i, j \in 1..Len(ids) : ids[i] = ids[j] => i = j

\* Losses and streaks are those at the end of the crash points.
StreaksAre(crashes, losses, online) ==
  /\ losses = online.below /\ (online.below = 0 \/ online.above = 0)
  /\ EndsIn(crashes, FALSE, online.below) /\ EndsIn(crashes, TRUE, online.above)

\* An engine that agrees with what it was taught, each crash in its order.
Plain(e) ==
  /\ e \in Engines /\ e.context \in {NoLook, Len(e.learned)} /\ TaughtInOrder(e.learned)
  /\ StreaksAre(CrashPoints(e.learned), e.losses, e.online) /\ Looks(e)
\* Validation that is due is under way, or owed.
Due(e, owed) == e.online.sinceHeavy >= HeavyEvery => e.heavy \/ owed
\* The ids it remembers are those of the last crashes, each once.
Clean(e) == IdsHeld(e.processed, e.learned) /\ EachOnce(e.processed)

\* A snapshot whose streaks are those of its crash points.
GoodSnapshot(s) ==
  /\ s \in [online : Onlines, crashes : Seq(BOOLEAN), losses : Nat, rounds : Seq(Int)]
  /\ Len(s.crashes) = 0 => s.online.psiFrom = NoLook
  /\ Len(s.crashes) <= KeptCrashes
  /\ StreaksAre(s.crashes, s.losses, s.online)

\* Inductive: the engine is plain, owes what is due, and is clean unless a
\* crash was refused; and so for the snapshot it exported.
AcieInv ==
  /\ Plain(acie) /\ Due(acie, heavyOwed) /\ (spoiled = {} => Clean(acie))
  /\ Asked(acie) /\ Ordered(acie) /\ completed \in Seq(Rounds)
  /\ exported = <<>> \/ \E s : GoodSnapshot(s) /\ exported = <<s>>

\* The end of a sequence.
LEMMA LastOfIs ==
  ASSUME NEW A, NEW s \in Seq(A), NEW n \in Nat
  PROVE  /\ LastOf(s, n) \in Seq(A)
         /\ Len(LastOf(s, n)) = IF Len(s) > n THEN n ELSE Len(s)
         /\ \A d \in 0..(Len(LastOf(s, n)) - 1) : LastOf(s, n)[Len(LastOf(s, n)) - d] = s[Len(s) - d]
<1>1. CASE Len(s) > n
  <2>1. LastOf(s, n) = SubSeq(s, Len(s) - n + 1, Len(s))
    BY <1>1 DEF LastOf
  <2>2. /\ SubSeq(s, Len(s) - n + 1, Len(s)) \in Seq(A)
        /\ Len(SubSeq(s, Len(s) - n + 1, Len(s))) = n
        /\ \A i \in 1..n : SubSeq(s, Len(s) - n + 1, Len(s))[i] = s[Len(s) - n + i]
    BY <1>1
  <2> QED BY <1>1, <2>1, <2>2
<1>2. CASE Len(s) <= n
  BY <1>2 DEF LastOf
<1> QED BY <1>1, <1>2

\* The crash points that are kept, from the end.
LEMMA CrashPointsAre ==
  ASSUME NEW learned \in Seq(CrashRecords)
  PROVE  /\ CrashPoints(learned) \in Seq(BOOLEAN)
         /\ Len(CrashPoints(learned)) = IF Len(learned) > KeptCrashes THEN KeptCrashes ELSE Len(learned)
         /\ \A d \in 0..(Len(CrashPoints(learned)) - 1) :
              CrashPoints(learned)[Len(CrashPoints(learned)) - d] = learned[Len(learned) - d].reached
<1> DEFINE recent == LastOf(learned, KeptCrashes)
<1>1. /\ recent \in Seq(CrashRecords)
      /\ Len(recent) = IF Len(learned) > KeptCrashes THEN KeptCrashes ELSE Len(learned)
      /\ \A d \in 0..(Len(recent) - 1) : recent[Len(recent) - d] = learned[Len(learned) - d]
  BY AcieAssumption, LastOfIs
<1>2. CrashPoints(learned) = [i \in 1..Len(recent) |-> recent[i].reached]
  BY <1>1 DEF CrashPoints
<1> HIDE DEF recent
<1>3. \A i \in 1..Len(recent) : recent[i].reached \in BOOLEAN
  <2>1. \A i \in 1..Len(recent) : recent[i] \in CrashRecords
    BY <1>1, ElementOfSeq
  <2>2. \A c \in CrashRecords : c.reached \in BOOLEAN
    BY DEF CrashRecords
  <2> QED BY <2>1, <2>2
<1>4. Len(recent) \in Nat
  BY <1>1
<1>5. CrashPoints(learned) \in Seq(BOOLEAN) /\ Len(CrashPoints(learned)) = Len(recent)
  BY <1>2, <1>3, <1>4
<1>6. ASSUME NEW d \in 0..(Len(recent) - 1)
      PROVE  CrashPoints(learned)[Len(recent) - d] = learned[Len(learned) - d].reached
  <2>1. Len(recent) - d \in 1..Len(recent)
    BY <1>4
  <2>2. recent[Len(recent) - d] = learned[Len(learned) - d]
    BY <1>1
  <2>3. CrashPoints(learned)[Len(recent) - d] = recent[Len(recent) - d].reached
    BY <2>1, <1>2
  <2> QED BY <2>2, <2>3
<1> QED BY <1>1, <1>5, <1>6

\* One more crash: the others move on by one.
LEMMA OneMoreCrash ==
  ASSUME NEW learned \in Seq(CrashRecords), NEW c \in CrashRecords
  PROVE  LET before == CrashPoints(learned)
             after == CrashPoints(Append(learned, c))
         IN  /\ Len(after) > 0 => after[Len(after)] = c.reached
             /\ \A d \in 1..(Len(after) - 1) :
                  d - 1 \in 0..(Len(before) - 1) /\ after[Len(after) - d] = before[Len(before) - (d - 1)]
<1> DEFINE more == Append(learned, c)
<1>1. /\ more \in Seq(CrashRecords) /\ Len(more) = Len(learned) + 1 /\ more[Len(more)] = c
      /\ \A i \in 1..Len(learned) : more[i] = learned[i]
  OBVIOUS
<1> HIDE DEF more
<1> DEFINE before == CrashPoints(learned)
           after == CrashPoints(more)
<1>2. /\ Len(before) = IF Len(learned) > KeptCrashes THEN KeptCrashes ELSE Len(learned)
      /\ \A d \in 0..(Len(before) - 1) : before[Len(before) - d] = learned[Len(learned) - d].reached
      /\ Len(after) = IF Len(more) > KeptCrashes THEN KeptCrashes ELSE Len(more)
      /\ \A d \in 0..(Len(after) - 1) : after[Len(after) - d] = more[Len(more) - d].reached
  BY <1>1, CrashPointsAre
<1>3. KeptCrashes \in Nat /\ Len(learned) \in Nat
  BY AcieAssumption
<1> HIDE DEF before, after
<1>4. Len(after) > 0 => after[Len(after)] = c.reached
  <2>1. Len(after) > 0 => after[Len(after) - 0] = more[Len(more) - 0].reached
    BY <1>1, <1>2, <1>3
  <2> QED BY <2>1, <1>1, <1>2, <1>3
<1>5. ASSUME NEW d \in 1..(Len(after) - 1)
      PROVE  d - 1 \in 0..(Len(before) - 1) /\ after[Len(after) - d] = before[Len(before) - (d - 1)]
  <2>1. d - 1 \in 0..(Len(before) - 1) /\ d \in 0..(Len(after) - 1)
    BY <1>1, <1>2, <1>3
  <2>2. /\ after[Len(after) - d] = more[Len(more) - d].reached
        /\ before[Len(before) - (d - 1)] = learned[Len(learned) - (d - 1)].reached
    BY <2>1, <1>2
  <2>3. Len(more) - d = Len(learned) - (d - 1) /\ Len(more) - d \in 1..Len(learned)
    BY <2>1, <1>1, <1>2, <1>3
  <2> QED BY <2>1, <2>2, <2>3, <1>1
<1> QED BY <1>4, <1>5 DEF before, after, more

\* A run at the end goes on with one more crash, or breaks.
LEMMA RunGoesOn ==
  ASSUME NEW learned \in Seq(CrashRecords), NEW c \in CrashRecords, NEW x \in BOOLEAN, NEW k \in Nat,
         EndsIn(CrashPoints(learned), x, k)
  PROVE  EndsIn(CrashPoints(Append(learned, c)), x, IF c.reached = x THEN k + 1 ELSE 0)
<1> DEFINE before == CrashPoints(learned)
           after == CrashPoints(Append(learned, c))
           m == IF c.reached = x THEN k + 1 ELSE 0
<1>1. /\ Len(after) > 0 => after[Len(after)] = c.reached
      /\ \A d \in 1..(Len(after) - 1) :
           d - 1 \in 0..(Len(before) - 1) /\ after[Len(after) - d] = before[Len(before) - (d - 1)]
  BY OneMoreCrash
<1>2. Append(learned, c) \in Seq(CrashRecords)
  OBVIOUS
<1>3. after \in Seq(BOOLEAN) /\ Len(after) \in Nat
  <2>1. CrashPoints(Append(learned, c)) \in Seq(BOOLEAN)
    BY <1>2, CrashPointsAre
  <2> QED BY <2>1
<1>4. \A d \in 0..(Len(before) - 1) :
        (d < k => before[Len(before) - d] = x) /\ (d = k => before[Len(before) - d] # x)
  BY DEF EndsIn
<1> HIDE DEF before, after
<1>5. ASSUME NEW d \in 0..(Len(after) - 1)
      PROVE  (d < m => after[Len(after) - d] = x) /\ (d = m => after[Len(after) - d] # x)
  <2>1. CASE d = 0
    <3>1. after[Len(after) - d] = c.reached
      BY <1>1, <1>3, <2>1
    <3>2. (d < m => c.reached = x) /\ (d = m => c.reached # x)
      BY <2>1
    <3> QED BY <3>1, <3>2
  <2>2. CASE d # 0
    <3>1. d - 1 \in 0..(Len(before) - 1) /\ after[Len(after) - d] = before[Len(before) - (d - 1)]
      BY <1>1, <1>3, <2>2
    <3>2. (d < m => d - 1 < k) /\ (d = m => d - 1 = k)
      BY <2>2
    <3> QED BY <3>1, <3>2, <1>4
  <2> QED BY <2>1, <2>2
<1> QED BY <1>5 DEF EndsIn, after

\* The streak of a sequence that ends in k times x.
LEMMA StreakIs ==
  ASSUME NEW crashes \in Seq(BOOLEAN), NEW x \in BOOLEAN, NEW k \in Nat, EndsIn(crashes, x, k)
  PROVE  Streak(crashes, x) = Min({k, Len(crashes)})
<1> DEFINE n == Len(crashes)
           m == IF k <= n THEN k ELSE n
           S == {l \in 0..n : \A i \in (n - l + 1)..n : crashes[i] = x}
<1>1. n \in Nat /\ m \in 0..n
  OBVIOUS
<1>2. \A d \in 0..(n - 1) : (d < k => crashes[n - d] = x) /\ (d = k => crashes[n - d] # x)
  BY DEF EndsIn
<1>3. m \in S
  <2>1. ASSUME NEW i \in (n - m + 1)..n
        PROVE  crashes[i] = x
    <3>1. n - i \in 0..(n - 1) /\ n - i < k /\ n - (n - i) = i
      BY <1>1
    <3> QED BY <3>1, <1>2
  <2> QED BY <1>1, <2>1
<1>4. ASSUME NEW l \in S
      PROVE  m >= l
  <2> SUFFICES ASSUME l > m
               PROVE  FALSE
    BY <1>1
  <2>1. k \in 0..(n - 1) /\ n - k \in (n - l + 1)..n
    BY <1>1
  <2>2. crashes[n - k] = x
    BY <2>1
  <2> QED BY <2>1, <2>2, <1>2
<1>5. Max(S) = m
  <2>1. S \in SUBSET Int
    OBVIOUS
  <2> HIDE DEF S, m
  <2> QED BY <2>1, <1>3, <1>4, MaxIs
<1>6. Min({k, n}) = m
  <2>1. {k, n} \in SUBSET Int /\ m \in {k, n} /\ \A y \in {k, n} : m <= y
    BY <1>1
  <2> HIDE DEF m
  <2> QED BY <2>1, MinIs
<1>7. Streak(crashes, x) = Max(S)
  BY DEF Streak
<1> QED BY <1>5, <1>6, <1>7

\* The sequence says of a regime; which one does not matter here.
LEMMA RegimeIsName == \A crashes : DetectRegime(crashes) \in RegimeNames
BY Zenon DEF DetectRegime, RegimeNames

\* What is learned of a crash.
LEMMA LearnIs ==
  ASSUME NEW e \in Engines, NEW id \in Int, NEW reached \in BOOLEAN
  PROVE  LET f == Learn(e, id, reached)
             c == [id |-> id, reached |-> reached, seen |-> LookOf(e), models |-> ModelsLookOf(e)]
         IN  /\ f \in Engines /\ c \in CrashRecords
             /\ f.processed = e.processed /\ f.learned = Append(e.learned, c)
             /\ f.losses = (IF reached THEN 0 ELSE e.losses + 1)
             /\ f.online.below = (IF reached THEN 0 ELSE e.online.below + 1)
             /\ f.online.above = (IF reached THEN e.online.above + 1 ELSE 0)
             /\ f.context = NoLook /\ f.modelsFrom = e.modelsFrom /\ f.online.psiFrom = LookOf(e)
             /\ f.online.sinceHeavy >= HeavyEvery => f.heavy
<1> DEFINE c == [id |-> id, reached |-> reached, seen |-> LookOf(e), models |-> ModelsLookOf(e)]
           learned == Append(e.learned, c)
           online == ApplyOnlineUpdate(e.online, LookOf(e), reached, DetectRegime(CrashPoints(learned)))
           f == Learn(e, id, reached)
<1>1. /\ e.processed \in Seq(Int) /\ e.learned \in Seq(CrashRecords) /\ e.losses \in Nat /\ e.online \in Onlines
      /\ e.context \in Int /\ e.evidence \in Int
  BY DEF Engines
<1>2. e.heavy \in BOOLEAN
  BY Zenon DEF Engines
<1>3. LookOf(e) \in Int /\ c \in CrashRecords
  <2>1. e.modelsFrom \in Int /\ e.online.psiFrom \in Int
    BY <1>1 DEF Engines, Onlines
  <2>2. LookOf(e) \in Int
    BY <1>1, <2>1 DEF LookOf
  <2>3. ModelsLookOf(e) \in Int
    BY <2>1, <2>2 DEF ModelsLookOf
  <2> QED BY <2>2, <2>3 DEF CrashRecords
<1>4. learned \in Seq(CrashRecords) /\ Len(learned) \in Nat
  BY <1>1, <1>3
<1>5. \A r \in RegimeNames : ApplyOnlineUpdate(e.online, LookOf(e), reached, r) \in Onlines
  BY <1>1, <1>3, SMTT(30) DEF ApplyOnlineUpdate, Onlines
<1>6. online \in Onlines
  BY <1>5, RegimeIsName
<1>7. \A r : /\ ApplyOnlineUpdate(e.online, LookOf(e), reached, r).below = (IF reached THEN 0 ELSE e.online.below + 1)
             /\ ApplyOnlineUpdate(e.online, LookOf(e), reached, r).above = (IF reached THEN e.online.above + 1 ELSE 0)
             /\ ApplyOnlineUpdate(e.online, LookOf(e), reached, r).psiFrom = LookOf(e)
  BY DEF ApplyOnlineUpdate
<1>8. f = [e EXCEPT !.learned = learned, !.losses = IF reached THEN 0 ELSE e.losses + 1, !.online = online,
                    !.heavy = e.heavy \/ online.sinceHeavy >= HeavyEvery,
                    !.evidence = IF e.evidence = -1 THEN Len(learned) ELSE e.evidence,
                    !.context = NoLook]
  BY DEF Learn
<1> HIDE DEF c, learned, online, f
<1>9. PICK h \in BOOLEAN : h = (e.heavy \/ online.sinceHeavy >= HeavyEvery)
  OBVIOUS
<1>10. PICK x \in Nat : x = (IF reached THEN 0 ELSE e.losses + 1)
  BY <1>1
<1>11. PICK v \in Int : v = (IF e.evidence = -1 THEN Len(learned) ELSE e.evidence)
  BY <1>1, <1>4
<1>12. /\ f \in Engines /\ f.processed = e.processed /\ f.learned = learned
       /\ f.losses = x /\ f.online = online /\ f.heavy = h /\ f.context = NoLook
       /\ f.modelsFrom = e.modelsFrom
  <2>1. f = [e EXCEPT !.learned = learned, !.losses = x, !.online = online, !.heavy = h, !.evidence = v,
                      !.context = NoLook]
    BY Zenon, <1>8, <1>9, <1>10, <1>11
  <2>2. NoLook \in Int
    BY DEF NoLook
  <2> QED BY Zenon, <2>1, <2>2, <1>4, <1>6 DEF Engines
<1>13. online.below = (IF reached THEN 0 ELSE e.online.below + 1)
       /\ online.above = (IF reached THEN e.online.above + 1 ELSE 0)
       /\ online.psiFrom = LookOf(e)
  BY <1>7 DEF online
<1> QED BY Zenon, <1>3, <1>9, <1>10, <1>12, <1>13 DEF c, learned, f

\* A crash that is learned leaves the engine plain, and a validation that is due
\* is on its way.
LEMMA LearnKeepsPlain ==
  ASSUME NEW e, Plain(e), NEW id \in Int, NEW reached \in BOOLEAN
  PROVE  Plain(Learn(e, id, reached)) /\ \A owed : Due(Learn(e, id, reached), owed)
<1> DEFINE f == Learn(e, id, reached)
           c == [id |-> id, reached |-> reached, seen |-> LookOf(e), models |-> ModelsLookOf(e)]
<1>1. e \in Engines /\ e.context \in {NoLook, Len(e.learned)} /\ TaughtInOrder(e.learned)
      /\ StreaksAre(CrashPoints(e.learned), e.losses, e.online) /\ Looks(e)
  BY DEF Plain
<1>2. /\ f \in Engines /\ c \in CrashRecords
      /\ f.learned = Append(e.learned, c)
      /\ f.losses = (IF reached THEN 0 ELSE e.losses + 1)
      /\ f.online.below = (IF reached THEN 0 ELSE e.online.below + 1)
      /\ f.online.above = (IF reached THEN e.online.above + 1 ELSE 0)
      /\ f.context = NoLook /\ f.modelsFrom = e.modelsFrom /\ f.online.psiFrom = LookOf(e)
  BY <1>1, LearnIs
<1>3. f.online.sinceHeavy >= HeavyEvery => f.heavy
  BY <1>1, LearnIs
<1>4. c.seen = LookOf(e) /\ c.models = ModelsLookOf(e) /\ c.reached = reached
  OBVIOUS
<1>5. e.learned \in Seq(CrashRecords)
  BY <1>1 DEF Engines
<1> HIDE DEF f, c
<1>6. TaughtInOrder(f.learned) /\ Looks(f)
  <2>1. /\ LookOf(e) \in {Len(e.learned), LookBefore(e.learned, Len(e.learned))}
        /\ e.modelsFrom = LookOf(e)
    BY <1>1 DEF LookOf, Looks
  <2>2. ModelsLookOf(e) = LookOf(e)
    BY <2>1 DEF ModelsLookOf
  <2>3. PICK x : x = LookOf(e)
    OBVIOUS
  <2>4. c.seen = x /\ c.models = x /\ f.online.psiFrom = x /\ f.modelsFrom = x
        /\ x \in {Len(e.learned), LookBefore(e.learned, Len(e.learned))}
    BY <1>2, <1>4, <2>1, <2>2, <2>3, Zenon
  <2>5. ASSUME NEW L \in Seq(CrashRecords), TaughtInOrder(L), x \in {Len(L), LookBefore(L, Len(L))}
        PROVE  /\ TaughtInOrder(Append(L, c)) /\ Len(Append(L, c)) # 0
               /\ LookBefore(Append(L, c), Len(Append(L, c))) = x
    <3> DEFINE M == Append(L, c)
    <3>1. /\ Len(M) = Len(L) + 1 /\ M[Len(L) + 1] = c /\ Len(L) \in Nat
          /\ \A i \in 1..Len(L) : M[i] = L[i]
      BY <1>2, <2>5
    <3> HIDE DEF M
    <3>2. Len(M) # 0 /\ LookBefore(M, Len(M)) = x
      BY <2>4, <3>1 DEF LookBefore
    <3>3. \A i \in 0..Len(L) : LookBefore(M, i) = LookBefore(L, i)
      BY <3>1 DEF LookBefore
    <3>4. ASSUME NEW i \in 1..Len(M)
          PROVE  M[i].seen \in {i - 1, LookBefore(M, i - 1)} /\ M[i].models = M[i].seen
      <4>1. CASE i = Len(L) + 1
        <5>1. M[i] = c /\ i - 1 = Len(L) /\ LookBefore(M, i - 1) = LookBefore(L, Len(L))
          BY <3>1, <3>3, <4>1
        <5> QED BY <2>4, <2>5, <5>1
      <4>2. CASE i \in 1..Len(L)
        <5>1. M[i] = L[i] /\ LookBefore(M, i - 1) = LookBefore(L, i - 1)
          BY <3>1, <3>3, <4>2
        <5> QED BY <2>5, <4>2, <5>1 DEF TaughtInOrder
      <4> QED BY <3>1, <4>1, <4>2
    <3> QED BY <3>2, <3>4 DEF TaughtInOrder, M
  <2>6. /\ TaughtInOrder(f.learned) /\ Len(f.learned) # 0 /\ LookBefore(f.learned, Len(f.learned)) = x
    BY <1>1, <1>2, <1>5, <2>4, <2>5
  <2> QED BY <1>2, <2>4, <2>6, Zenon DEF Looks
<1>7. StreaksAre(CrashPoints(f.learned), f.losses, f.online)
  <2>1. /\ e.losses = e.online.below /\ (e.online.below = 0 \/ e.online.above = 0)
        /\ EndsIn(CrashPoints(e.learned), FALSE, e.online.below)
        /\ EndsIn(CrashPoints(e.learned), TRUE, e.online.above)
    BY <1>1 DEF StreaksAre
  <2>2. e.online.below \in Nat /\ e.online.above \in Nat
    BY <1>1 DEF Engines, Onlines
  <2>3. /\ EndsIn(CrashPoints(f.learned), FALSE, IF c.reached = FALSE THEN e.online.below + 1 ELSE 0)
        /\ EndsIn(CrashPoints(f.learned), TRUE, IF c.reached = TRUE THEN e.online.above + 1 ELSE 0)
    BY <1>2, <1>5, <2>1, <2>2, RunGoesOn
  <2>4. /\ f.online.below = (IF c.reached = FALSE THEN e.online.below + 1 ELSE 0)
        /\ f.online.above = (IF c.reached = TRUE THEN e.online.above + 1 ELSE 0)
    BY <1>2, <1>4
  <2>5. /\ EndsIn(CrashPoints(f.learned), FALSE, f.online.below)
        /\ EndsIn(CrashPoints(f.learned), TRUE, f.online.above)
    BY <2>3, <2>4
  <2>6. f.losses = f.online.below /\ (f.online.below = 0 \/ f.online.above = 0)
    BY <1>2, <2>1
  <2> QED BY <2>5, <2>6 DEF StreaksAre
<1>8. Plain(f)
  BY <1>2, <1>6, <1>7 DEF Plain
<1>9. \A owed : Due(f, owed)
  BY Zenon, <1>3 DEF Due
<1> QED BY <1>8, <1>9 DEF f

\* What is remembered of a round.
LEMMA RememberIs ==
  ASSUME NEW e \in Engines, NEW id \in Int
  PROVE  /\ Remember(e, id) \in Engines
         /\ Remember(e, id).processed = LastOf(Append(e.processed, id), Remembered)
         /\ Remember(e, id).learned = e.learned /\ Remember(e, id).losses = e.losses
         /\ Remember(e, id).online = e.online /\ Remember(e, id).heavy = e.heavy
         /\ Remember(e, id).context = e.context /\ Remember(e, id).modelsFrom = e.modelsFrom
<1>1. e.processed \in Seq(Int)
  BY DEF Engines
<1>2. Append(e.processed, id) \in Seq(Int)
  BY <1>1
<1>3. LastOf(Append(e.processed, id), Remembered) \in Seq(Int)
  BY <1>2, AcieAssumption, LastOfIs
<1> QED BY Zenon, <1>3 DEF Engines, Remember

\* An id remembered changes nothing of that.
LEMMA RememberKeepsPlain ==
  ASSUME NEW e, Plain(e), NEW id \in Int
  PROVE  /\ Plain(Remember(e, id)) /\ (Asked(e) => Asked(Remember(e, id)))
         /\ (Ordered(e) => Ordered(Remember(e, id)))
         /\ \A owed : Due(e, owed) => Due(Remember(e, id), owed)
<1>1. e \in Engines
  BY DEF Plain
<1>2. /\ Remember(e, id) \in Engines
      /\ Remember(e, id).learned = e.learned /\ Remember(e, id).losses = e.losses
      /\ Remember(e, id).online = e.online /\ Remember(e, id).heavy = e.heavy
      /\ Remember(e, id).context = e.context /\ Remember(e, id).modelsFrom = e.modelsFrom
  BY <1>1, RememberIs
<1> QED BY Zenon, <1>2 DEF Plain, Looks, Due, Asked, Ordered

\* A round that is not held is held once, after it was learned.
LEMMA HeldWindow ==
  ASSUME NEW p \in Seq(Int), NEW L \in Seq(CrashRecords), IdsHeld(p, L), EachOnce(p), NEW c \in CrashRecords,
         \A i \in 1..Len(p) : p[i] # c.id
  PROVE  LET q == LastOf(Append(p, c.id), Remembered) IN IdsHeld(q, Append(L, c)) /\ EachOnce(q)
<1>1. /\ Len(p) = (IF Len(L) > Remembered THEN Remembered ELSE Len(L))
      /\ \A d \in 0..(Len(p) - 1) : p[Len(p) - d] = L[Len(L) - d].id
      /\ \A i, j \in 1..Len(p) : p[i] = p[j] => i = j
  BY DEF IdsHeld, EachOnce
<1>2. Remembered \in Nat
  BY AcieAssumption
<1>3. c.id \in Int
  BY DEF CrashRecords
<1> DEFINE P == Append(p, c.id)
           q == LastOf(P, Remembered)
           M == Append(L, c)
<1>4. /\ P \in Seq(Int) /\ Len(P) = Len(p) + 1 /\ P[Len(p) + 1] = c.id /\ \A i \in 1..Len(p) : P[i] = p[i]
      /\ M \in Seq(CrashRecords) /\ Len(M) = Len(L) + 1 /\ M[Len(L) + 1] = c /\ \A i \in 1..Len(L) : M[i] = L[i]
      /\ Len(p) \in Nat /\ Len(L) \in Nat
  BY <1>3
<1> HIDE DEF P, M
<1>5. /\ q \in Seq(Int) /\ Len(q) = (IF Len(P) > Remembered THEN Remembered ELSE Len(P))
      /\ \A d \in 0..(Len(q) - 1) : q[Len(q) - d] = P[Len(P) - d]
  BY <1>2, <1>4, LastOfIs
<1> HIDE DEF q
<1>6. Len(q) \in Nat /\ Len(q) <= Len(P) /\ Len(P) \in Nat
  BY <1>2, <1>4, <1>5
<1>7. Len(q) = (IF Len(M) > Remembered THEN Remembered ELSE Len(M))
  BY <1>1, <1>2, <1>4, <1>5
<1>8. ASSUME NEW d \in 0..(Len(q) - 1)
      PROVE  q[Len(q) - d] = M[Len(M) - d].id
  <2>1. q[Len(q) - d] = P[Len(P) - d]
    BY <1>5
  <2>2. CASE d = 0
    <3>1. P[Len(P) - d] = c.id /\ M[Len(M) - d] = c
      BY <1>4, <2>2
    <3> QED BY <2>1, <3>1
  <2>3. CASE d # 0
    <3>1. d - 1 \in 0..(Len(p) - 1) /\ Len(P) - d = Len(p) - (d - 1) /\ Len(M) - d = Len(L) - (d - 1)
          /\ Len(P) - d \in 1..Len(p) /\ Len(M) - d \in 1..Len(L)
      BY <1>1, <1>2, <1>4, <1>5, <2>3
    <3>2. P[Len(P) - d] = p[Len(p) - (d - 1)] /\ M[Len(M) - d] = L[Len(L) - (d - 1)]
      BY <1>4, <3>1
    <3> QED BY <2>1, <3>1, <3>2, <1>1
  <2> QED BY <2>2, <2>3
<1>9. ASSUME NEW i \in 1..Len(P), NEW j \in 1..Len(P), P[i] = P[j]
      PROVE  i = j
  <2>1. CASE i = Len(p) + 1 /\ j # Len(p) + 1
    <3>1. j \in 1..Len(p)
      BY <1>4, <2>1
    <3> QED BY <1>4, <1>9, <2>1, <3>1
  <2>2. CASE i # Len(p) + 1 /\ j = Len(p) + 1
    <3>1. i \in 1..Len(p)
      BY <1>4, <2>2
    <3> QED BY <1>4, <1>9, <2>2, <3>1
  <2>3. CASE i # Len(p) + 1 /\ j # Len(p) + 1
    <3>1. i \in 1..Len(p) /\ j \in 1..Len(p)
      BY <1>4, <2>3
    <3>2. p[i] = p[j]
      BY <1>4, <1>9, <3>1
    <3> QED BY <1>1, <3>1, <3>2
  <2> QED BY <2>1, <2>2, <2>3
<1>10. ASSUME NEW i \in 1..Len(q), NEW j \in 1..Len(q), q[i] = q[j]
       PROVE  i = j
  <2>1. PICK a \in 0..(Len(q) - 1) : i = Len(q) - a
    <3>1. Len(q) - i \in 0..(Len(q) - 1) /\ i = Len(q) - (Len(q) - i)
      BY <1>6
    <3> QED BY <3>1
  <2>2. PICK b \in 0..(Len(q) - 1) : j = Len(q) - b
    <3>1. Len(q) - j \in 0..(Len(q) - 1) /\ j = Len(q) - (Len(q) - j)
      BY <1>6
    <3> QED BY <3>1
  <2>3. P[Len(P) - a] = P[Len(P) - b]
    BY <2>1, <2>2, <1>5, <1>10
  <2>4. Len(P) - a \in 1..Len(P) /\ Len(P) - b \in 1..Len(P)
    BY <1>6
  <2>5. Len(P) - a = Len(P) - b
    BY <2>3, <2>4, <1>9
  <2>6. \A m \in Nat : m - a = m - b => a = b
    OBVIOUS
  <2>7. a = b
    BY <2>5, <2>6, <1>6
  <2> QED BY <2>1, <2>2, <2>7
<1>11. IdsHeld(q, M) /\ EachOnce(q)
  BY <1>7, <1>8, <1>10 DEF IdsHeld, EachOnce
<1> QED BY <1>11 DEF P, q, M

\* A crash taught after its id was remembered leaves the ids those of the
\* crashes.
LEMMA LearnKeepsClean ==
  ASSUME NEW e \in Engines, Clean(e), NEW id \in Int, NEW reached \in BOOLEAN, ~KnownRound(e, id)
  PROVE  Clean(Learn(Remember(e, id), id, reached))
<1> DEFINE g == Remember(e, id)
           f == Learn(g, id, reached)
           c == [id |-> id, reached |-> reached, seen |-> LookOf(g), models |-> ModelsLookOf(g)]
<1>1. e.processed \in Seq(Int) /\ e.learned \in Seq(CrashRecords)
  BY DEF Engines
<1>2. /\ g \in Engines
      /\ g.processed = LastOf(Append(e.processed, id), Remembered)
      /\ g.learned = e.learned
  BY RememberIs
<1> HIDE DEF g
<1>3. c \in CrashRecords /\ f.learned = Append(g.learned, c) /\ f.processed = g.processed
  BY <1>2, LearnIs, SMTT(30)
<1>4. c.id = id
  OBVIOUS
<1> HIDE DEF f, c
<1>5. \A i \in 1..Len(e.processed) : e.processed[i] # c.id
  BY <1>1, <1>4 DEF KnownRound, Range
<1>6. IdsHeld(e.processed, e.learned) /\ EachOnce(e.processed)
  BY DEF Clean
<1>7. /\ IdsHeld(LastOf(Append(e.processed, c.id), Remembered), Append(e.learned, c))
      /\ EachOnce(LastOf(Append(e.processed, c.id), Remembered))
  BY <1>1, <1>3, <1>5, <1>6, HeldWindow
<1>8. Clean(f)
  BY <1>2, <1>3, <1>4, <1>7 DEF Clean
<1> QED BY <1>8 DEF f, g

\* One crash, learned or not.
LEMMA IngestKeeps ==
  ASSUME NEW e, Plain(e), NEW id \in Int, NEW reached \in BOOLEAN
  PROVE  /\ Plain(Ingest(e, id, reached))
         /\ \A owed : Due(e, owed) => Due(Ingest(e, id, reached), owed)
         /\ Clean(e) => Clean(Ingest(e, id, reached))
<1>1. CASE KnownRound(e, id)
  BY <1>1 DEF Ingest
<1>2. CASE ~KnownRound(e, id)
  <2>1. Ingest(e, id, reached) = Learn(Remember(e, id), id, reached)
    BY <1>2 DEF Ingest
  <2>2. Plain(Remember(e, id))
    BY RememberKeepsPlain
  <2>3. /\ Plain(Learn(Remember(e, id), id, reached))
        /\ \A owed : Due(Learn(Remember(e, id), id, reached), owed)
    BY <2>2, LearnKeepsPlain
  <2>4. Clean(e) => Clean(Learn(Remember(e, id), id, reached))
    <3>1. e \in Engines
      BY DEF Plain
    <3> QED BY <1>2, <3>1, LearnKeepsClean
  <2> QED BY <2>1, <2>3, <2>4
<1> QED BY <1>1, <1>2

\* An evaluation keeps all of it.
LEMMA EvaluationKeeps ==
  ASSUME NEW e, Plain(e)
  PROVE  /\ Plain(BuildEvaluation(e)) /\ Asked(BuildEvaluation(e))
         /\ (Ordered(e) => Ordered(BuildEvaluation(e)))
         /\ \A owed : Due(e, owed) => Due(BuildEvaluation(e), owed)
         /\ Clean(e) => Clean(BuildEvaluation(e))
<1> DEFINE f == BuildEvaluation(e)
<1>1. /\ e \in Engines /\ TaughtInOrder(e.learned) /\ StreaksAre(CrashPoints(e.learned), e.losses, e.online)
      /\ Looks(e)
  BY DEF Plain
<1>2. Len(e.learned) \in Int /\ Len(e.learned) # NoLook
  <2>1. e.learned \in Seq(CrashRecords)
    BY <1>1 DEF Engines
  <2> QED BY <2>1 DEF NoLook
<1>3. /\ f \in Engines /\ f.learned = e.learned /\ f.losses = e.losses /\ f.online = e.online
      /\ f.heavy = e.heavy /\ f.context = Len(e.learned) /\ f.modelsFrom = Len(e.learned)
      /\ f.processed = e.processed
  BY Zenon, <1>1, <1>2 DEF BuildEvaluation, Engines
<1> HIDE DEF f
<1>4. Plain(f) /\ (Clean(e) => Clean(f)) /\ Asked(f) /\ (Ordered(e) => Ordered(f))
  <2>1. Looks(f)
    BY <1>1, <1>2, <1>3, Zenon DEF Looks
  <2>2. Plain(f)
    BY <1>1, <1>3, <2>1 DEF Plain
  <2> QED BY <1>3, <2>2, Zenon DEF Clean, Asked, Ordered
<1>5. \A owed : Due(e, owed) => Due(f, owed)
  BY Zenon, <1>3 DEF Due
<1> QED BY <1>4, <1>5 DEF f

\* A fold of crashes goes through engines, the i-th of which is in H[i].
LEMMA IngestAlong ==
  ASSUME NEW n \in Nat, NEW rs \in [1..n -> Taught], NEW e, NEW H,
         e \in H[0],
         \A i \in 0..n : \A x \in H[i] : Plain(x),
         \A i \in 1..n : \A x \in H[i - 1] : Ingest(x, rs[i].id, rs[i].reached) \in H[i]
  PROVE  FoldLeft(LAMBDA acc, r : Ingest(acc, r.id, r.reached), e, rs) \in H[n]
<1> DEFINE E == {x \in Engines : Plain(x)}
           step == [i \in 1..n |-> [x \in E |-> Ingest(x, rs[i].id, rs[i].reached)]]
           F == CHOOSE it : it = [s \in SUBSET DOMAIN rs |->
                   IF s = {} THEN e ELSE Ingest(it[s \ {Max(s)}], rs[Max(s)].id, rs[Max(s)].reached)]
<1>1. \A i \in 1..n : rs[i].id \in Int /\ rs[i].reached \in BOOLEAN
  BY DEF Taught
<1>2. e \in E
  BY DEF Plain
<1>3. step \in [1..n -> [E -> E]]
  <2>1. ASSUME NEW i \in 1..n, NEW x \in E
        PROVE  Ingest(x, rs[i].id, rs[i].reached) \in E
    <3>1. Plain(Ingest(x, rs[i].id, rs[i].reached))
      BY <1>1, IngestKeeps
    <3> QED BY <3>1 DEF Plain
  <2> HIDE DEF E
  <2> QED BY <2>1
<1> HIDE DEF E
<1>4. PICK it : Folding(E, n, e, step, it)
  <2> HIDE DEF step
  <2> QED BY <1>2, <1>3, FoldingExists
<1>5. it = [s \in SUBSET DOMAIN rs |->
              IF s = {} THEN e ELSE Ingest(it[s \ {Max(s)}], rs[Max(s)].id, rs[Max(s)].reached)]
  <2>1. it \in [SUBSET (1..n) -> E] /\ DOMAIN rs = 1..n
    BY <1>4 DEF Folding
  <2>2. ASSUME NEW s \in SUBSET (1..n), s # {}
        PROVE  it[s] = Ingest(it[s \ {Max(s)}], rs[Max(s)].id, rs[Max(s)].reached)
    <3>1. Max(s) \in 1..n
      <4>1. s \in SUBSET (0..n)
        OBVIOUS
      <4>2. Max(s) \in s
        BY <2>2, <4>1, MaxExists
      <4> QED BY <4>2
    <3>2. it[s \ {Max(s)}] \in E
      BY <2>1
    <3>3. it[s] = step[Max(s)][it[s \ {Max(s)}]]
      BY <1>4, <2>2 DEF Folding
    <3> QED BY <3>1, <3>2, <3>3
  <2>3. it[{}] = e
    BY <1>4 DEF Folding
  <2> HIDE DEF step
  <2> QED BY <2>1, <2>2, <2>3
<1>6. F = [s \in SUBSET DOMAIN rs |->
             IF s = {} THEN e ELSE Ingest(F[s \ {Max(s)}], rs[Max(s)].id, rs[Max(s)].reached)]
  BY <1>5
<1>7. FoldLeft(LAMBDA acc, r : Ingest(acc, r.id, r.reached), e, rs) = F[DOMAIN rs]
  BY DEF FoldLeft, MapThenFoldSet
<1> HIDE DEF F
<1>8. DOMAIN rs = 1..n
  OBVIOUS
<1>9. F[1..0] = e
  <2>1. {} \in SUBSET DOMAIN rs /\ 1..0 = {}
    OBVIOUS
  <2> QED BY <1>6, <2>1
<1>10. ASSUME NEW i \in 1..n
       PROVE  F[1..i] = Ingest(F[1..(i - 1)], rs[i].id, rs[i].reached)
  <2>1. /\ 1..i \in SUBSET DOMAIN rs /\ 1..i # {}
        /\ Max(1..i) = i /\ (1..i) \ {Max(1..i)} = 1..(i - 1)
    BY <1>8, FoldSteps
  <2>2. F[1..i] = Ingest(F[(1..i) \ {Max(1..i)}], rs[Max(1..i)].id, rs[Max(1..i)].reached)
    BY <1>6, <2>1
  <2> QED BY <2>1, <2>2
<1> DEFINE S == {i \in 0..n : F[1..i] \in H[i]}
<1>11. 0 \in S
  BY <1>9
<1>12. \A i \in 1..n : i - 1 \in S => i \in S
  BY <1>10
<1>13. n \in S
  <2> HIDE DEF S
  <2>1. \A i \in 0..n : i \in S
    BY <1>11, <1>12, UpTo
  <2> QED BY <2>1
<1> QED BY <1>7, <1>8, <1>13

\* So does a seed of any history, one crash after the other.
LEMMA SeedKeeps ==
  ASSUME NEW e, Plain(e), NEW rs \in Seq(Taught), NEW owed
  PROVE  /\ Plain(SeedHistory(e, rs)) /\ (Due(e, owed) => Due(SeedHistory(e, rs), owed))
         /\ Asked(SeedHistory(e, rs))
         /\ Clean(e) => Clean(SeedHistory(e, rs))
<1> DEFINE late == LastOf(rs, KeptCrashes)
           n == Len(late)
           G == {x \in Engines : Plain(x) /\ (Due(e, owed) => Due(x, owed)) /\ (Clean(e) => Clean(x))}
           H == [i \in 0..n |-> G]
           f == FoldLeft(LAMBDA acc, r : Ingest(acc, r.id, r.reached), e, late)
<1>1. late \in Seq(Taught)
  BY AcieAssumption, LastOfIs
<1>2. n \in Nat /\ late \in [1..n -> Taught]
  BY <1>1
<1> HIDE DEF late, n
<1>3. \A i \in 1..n : late[i].id \in Int /\ late[i].reached \in BOOLEAN
  BY <1>2 DEF Taught
<1>4. e \in G
  BY DEF Plain
<1>5. ASSUME NEW x \in G, NEW i \in 1..n
      PROVE  Ingest(x, late[i].id, late[i].reached) \in G
  <2>1. Plain(x)
    OBVIOUS
  <2>2. /\ Plain(Ingest(x, late[i].id, late[i].reached))
        /\ Due(x, owed) => Due(Ingest(x, late[i].id, late[i].reached), owed)
        /\ Clean(x) => Clean(Ingest(x, late[i].id, late[i].reached))
    BY <1>3, <2>1, IngestKeeps
  <2>3. Ingest(x, late[i].id, late[i].reached) \in Engines
    BY <2>2 DEF Plain
  <2> QED BY Zenon, <2>2, <2>3
<1>6. \A x \in G : Plain(x)
  OBVIOUS
<1> HIDE DEF G
<1>7. e \in H[0] /\ H[n] = G
  BY <1>2, <1>4
<1>8. \A i \in 0..n : \A x \in H[i] : Plain(x)
  BY <1>6
<1>9. \A i \in 1..n : \A x \in H[i - 1] : Ingest(x, late[i].id, late[i].reached) \in H[i]
  <2>1. \A i \in 1..n : i - 1 \in 0..n /\ i \in 0..n
    BY <1>2
  <2> QED BY <1>5, <2>1
<1> HIDE DEF H
<1>10. f \in H[n]
  BY <1>2, <1>7, <1>8, <1>9, IngestAlong
<1> HIDE DEF f
<1>11. f \in G
  BY <1>7, <1>10
<1>12. Plain(f) /\ (Due(e, owed) => Due(f, owed)) /\ (Clean(e) => Clean(f))
  BY <1>11 DEF G
<1>13. /\ Plain(BuildEvaluation(f)) /\ Asked(BuildEvaluation(f)) /\ (Due(f, owed) => Due(BuildEvaluation(f), owed))
       /\ Clean(f) => Clean(BuildEvaluation(f))
  BY <1>12, EvaluationKeeps
<1>14. SeedHistory(e, rs) = BuildEvaluation(f)
  BY DEF SeedHistory, f, late
<1> QED BY Zenon, <1>12, <1>13, <1>14

\* The crashes of a snapshot, under ids of their own.
AsTaught(crashes) == [i \in DOMAIN crashes |-> [id |-> -i, reached |-> crashes[i]]]

\* After i crashes of a snapshot.
Restored(crashes, i) ==
  {x \in Engines :
     /\ Plain(x) /\ Clean(x) /\ (\A owed : Due(x, owed))
     /\ Len(x.learned) = i /\ \A j \in 1..i : x.learned[j].reached = crashes[j] /\ x.learned[j].id <= 0
     /\ \A j \in 1..Len(x.processed) : x.processed[j] >= -i}

\* A new engine is plain.
LEMMA NewEngine ==
  /\ EngineInit \in Engines /\ Plain(EngineInit) /\ Clean(EngineInit)
  /\ Asked(EngineInit) /\ Ordered(EngineInit)
  /\ \A owed : Due(EngineInit, owed)
<1>1. <<>> \in Seq(Int) /\ <<>> \in Seq(CrashRecords) /\ Len(<<>>) = 0
  OBVIOUS
<1>2. OnlineInit \in Onlines
  BY DEF OnlineInit, Onlines, RegimeNames, NoLook
<1>3. NoLook \in Int
  BY DEF NoLook
<1>4. /\ EngineInit \in Engines /\ EngineInit.learned = <<>> /\ EngineInit.losses = 0
      /\ EngineInit.online = OnlineInit /\ EngineInit.context = NoLook /\ EngineInit.processed = <<>>
      /\ EngineInit.modelsFrom = NoLook
  BY <1>1, <1>2, <1>3, SMT DEF EngineInit, Engines
<1>5. /\ OnlineInit.below = 0 /\ OnlineInit.above = 0 /\ OnlineInit.sinceHeavy = 0
      /\ OnlineInit.psiFrom = NoLook
  BY DEF OnlineInit
<1>6. CrashPoints(<<>>) \in Seq(BOOLEAN) /\ Len(CrashPoints(<<>>)) = 0
  <2>1. /\ CrashPoints(<<>>) \in Seq(BOOLEAN)
        /\ Len(CrashPoints(<<>>)) = IF Len(<<>>) > KeptCrashes THEN KeptCrashes ELSE Len(<<>>)
    BY <1>1, CrashPointsAre
  <2> QED BY <2>1, <1>1, AcieAssumption
<1>7. StreaksAre(CrashPoints(<<>>), 0, OnlineInit)
  <2>1. \A x, k : EndsIn(CrashPoints(<<>>), x, k)
    BY <1>6 DEF EndsIn
  <2> QED BY Zenon, <1>5, <2>1 DEF StreaksAre
<1>8. Plain(EngineInit)
  <2>1. Looks(EngineInit)
    BY <1>1, <1>4, <1>5 DEF Looks, LookBefore
  <2> QED BY <1>1, <1>4, <1>7, <2>1 DEF Plain, TaughtInOrder
<1>9. Clean(EngineInit)
  BY <1>1, <1>4, AcieAssumption DEF Clean, IdsHeld, EachOnce
<1>10. \A owed : Due(EngineInit, owed)
  BY <1>4, <1>5, AcieAssumption DEF Due
<1>11. Asked(EngineInit) /\ Ordered(EngineInit)
  BY <1>1, <1>4 DEF Asked, Ordered
<1> QED BY <1>4, <1>8, <1>9, <1>10, <1>11

\* One crash more of a snapshot is taught under a number no round has.
LEMMA RestoresOneMore ==
  ASSUME NEW crashes \in Seq(BOOLEAN), NEW i \in 1..Len(crashes), NEW x \in Restored(crashes, i - 1)
  PROVE  Ingest(x, -i, crashes[i]) \in Restored(crashes, i)
<1> DEFINE g == Remember(x, -i)
           f == Learn(g, -i, crashes[i])
           c == [id |-> -i, reached |-> crashes[i], seen |-> LookOf(g), models |-> ModelsLookOf(g)]
<1>1. /\ x \in Engines /\ Plain(x) /\ Clean(x) /\ \A owed : Due(x, owed)
      /\ Len(x.learned) = i - 1
      /\ \A j \in 1..(i - 1) : x.learned[j].reached = crashes[j] /\ x.learned[j].id <= 0
      /\ \A j \in 1..Len(x.processed) : x.processed[j] >= -(i - 1)
  BY DEF Restored
<1>2. x.processed \in Seq(Int) /\ x.learned \in Seq(CrashRecords)
  BY <1>1 DEF Engines
<1>3. crashes[i] \in BOOLEAN /\ -i \in Int
  BY ElementOfSeq
<1>4. ~KnownRound(x, -i)
  <2>1. i \in Int /\ ~(-i >= -(i - 1))
    OBVIOUS
  <2>2. \A j \in 1..Len(x.processed) : x.processed[j] # -i
    BY <1>1, <2>1
  <2>3. DOMAIN x.processed = 1..Len(x.processed)
    BY <1>2
  <2> QED BY Zenon, <2>2, <2>3 DEF KnownRound, Range
<1>5. Ingest(x, -i, crashes[i]) = f
  BY <1>4 DEF Ingest
<1>6. /\ g \in Engines /\ g.processed = LastOf(Append(x.processed, -i), Remembered)
      /\ g.learned = x.learned
  BY <1>1, <1>3, RememberIs
<1>7. Plain(f) /\ Clean(f) /\ \A owed : Due(f, owed)
  <2>1. /\ Plain(Ingest(x, -i, crashes[i])) /\ (Clean(x) => Clean(Ingest(x, -i, crashes[i])))
        /\ \A owed : Due(x, owed) => Due(Ingest(x, -i, crashes[i]), owed)
    BY <1>1, <1>3, IngestKeeps
  <2> QED BY <1>1, <1>5, <2>1
<1> HIDE DEF g
<1>8. /\ f \in Engines /\ c \in CrashRecords /\ f.processed = g.processed /\ f.learned = Append(g.learned, c)
  BY <1>3, <1>6, LearnIs
<1>9. c.reached = crashes[i] /\ c.id <= 0
  OBVIOUS
<1> HIDE DEF f, c
<1>10. Len(f.learned) = i /\ \A j \in 1..i : f.learned[j].reached = crashes[j] /\ f.learned[j].id <= 0
  <2>1. Len(f.learned) = i /\ f.learned[i] = c /\ \A j \in 1..(i - 1) : f.learned[j] = x.learned[j]
    BY <1>1, <1>2, <1>6, <1>8
  <2> QED BY <1>1, <1>9, <2>1
<1>11. \A j \in 1..Len(f.processed) : f.processed[j] >= -i
  <2> DEFINE P == Append(x.processed, -i)
             q == LastOf(P, Remembered)
  <2>1. P \in Seq(Int) /\ \A j \in 1..Len(P) : P[j] >= -i
    BY <1>1, <1>2, <1>3
  <2> HIDE DEF P
  <2>2. /\ q \in Seq(Int) /\ Len(q) = IF Len(P) > Remembered THEN Remembered ELSE Len(P)
        /\ \A d \in 0..(Len(q) - 1) : q[Len(q) - d] = P[Len(P) - d]
    BY <2>1, AcieAssumption, LastOfIs
  <2>3. Len(q) \in Nat /\ Len(q) <= Len(P) /\ Len(P) \in Nat
    BY <2>1, <2>2, AcieAssumption
  <2> HIDE DEF q
  <2>4. ASSUME NEW j \in 1..Len(q)
        PROVE  q[j] >= -i
    <3>1. PICK d \in 0..(Len(q) - 1) : j = Len(q) - d
      <4>1. Len(q) - j \in 0..(Len(q) - 1) /\ j = Len(q) - (Len(q) - j)
        BY <2>3
      <4> QED BY <4>1
    <3>2. q[j] = P[Len(P) - d]
      BY Zenon, <2>2, <3>1
    <3>3. Len(P) - d \in 1..Len(P)
      BY <2>3
    <3> QED BY <2>1, <3>2, <3>3
  <2>5. f.processed = q
    BY <1>6, <1>8 DEF q, P
  <2> QED BY <2>4, <2>5
<1>12. f \in Restored(crashes, i)
  BY <1>7, <1>8, <1>10, <1>11 DEF Restored
<1> QED BY <1>5, <1>12

\* What is restored of a snapshot is what was in it.
LEMMA ImportIs ==
  ASSUME NEW s, GoodSnapshot(s)
  PROVE  /\ Plain(ImportSnapshot(EngineInit, s)) /\ Clean(ImportSnapshot(EngineInit, s))
         /\ Asked(ImportSnapshot(EngineInit, s)) /\ Ordered(ImportSnapshot(EngineInit, s))
         /\ Due(ImportSnapshot(EngineInit, s), s.online.sinceHeavy >= HeavyEvery)
<1> DEFINE crashes == s.crashes
           rs == AsTaught(crashes)
           n == Len(crashes)
           H == [i \in 0..n |-> Restored(crashes, i)]
           f == FoldLeft(LAMBDA acc, r : Ingest(acc, r.id, r.reached), EngineInit, rs)
<1>1. /\ crashes \in Seq(BOOLEAN) /\ n <= KeptCrashes /\ n \in Nat
      /\ s.online \in Onlines /\ s.losses \in Nat /\ StreaksAre(crashes, s.losses, s.online)
      /\ s.rounds \in Seq(Int) /\ (n = 0 => s.online.psiFrom = NoLook)
  BY DEF GoodSnapshot
<1> HIDE DEF crashes
<1>2. rs \in [1..n -> Taught] /\ rs \in Seq(Taught) /\ Len(rs) = n
      /\ \A i \in 1..n : rs[i].id = -i /\ rs[i].reached = crashes[i]
  <2>1. \A i \in 1..n : [id |-> -i, reached |-> crashes[i]] \in Taught
    BY <1>1, ElementOfSeq DEF Taught
  <2>2. rs = [i \in 1..n |-> [id |-> -i, reached |-> crashes[i]]]
    BY <1>1 DEF AsTaught
  <2> QED BY <2>1, <2>2, <1>1
<1>3. LastOf(rs, KeptCrashes) = rs
  BY <1>1, <1>2, AcieAssumption DEF LastOf
<1> HIDE DEF rs
<1>4. EngineInit \in Restored(crashes, 0)
  <2>1. EngineInit.learned = <<>> /\ EngineInit.processed = <<>>
    BY DEF EngineInit
  <2> QED BY <2>1, NewEngine DEF Restored
<1>5. EngineInit \in H[0] /\ H[n] = Restored(crashes, n)
  BY <1>1, <1>4
<1>6. \A i \in 0..n : \A x \in H[i] : Plain(x)
  BY DEF Restored
<1>7. \A i \in 1..n : \A x \in H[i - 1] : Ingest(x, rs[i].id, rs[i].reached) \in H[i]
  <2>1. \A i \in 1..n : i - 1 \in 0..n /\ i \in 0..n
    BY <1>1
  <2>2. \A i \in 1..n : \A x \in Restored(crashes, i - 1) : Ingest(x, -i, crashes[i]) \in Restored(crashes, i)
    BY <1>1, RestoresOneMore
  <2> QED BY <1>2, <2>1, <2>2
<1> HIDE DEF H
<1>8. f \in H[n]
  BY <1>1, <1>2, <1>5, <1>6, <1>7, IngestAlong
<1> HIDE DEF f
<1>9. /\ f \in Engines /\ Plain(f) /\ Clean(f) /\ Len(f.learned) = n
      /\ \A j \in 1..n : f.learned[j].reached = crashes[j] /\ f.learned[j].id <= 0
  BY <1>5, <1>8 DEF Restored
<1> DEFINE g == Restore(EngineInit, crashes)
           h == ImportSnapshot(EngineInit, s)
<1>10. /\ Plain(g) /\ Clean(g) /\ Asked(g) /\ Len(g.learned) = n /\ (n # 0 => g.context = n)
       /\ \A j \in 1..n : g.learned[j].reached = crashes[j] /\ g.learned[j].id <= 0
  <2>1. CASE n = 0
    <3>1. crashes = <<>>
      BY <1>1, <2>1, EmptySeq
    <3>2. g = EngineInit
      BY <3>1 DEF Restore
    <3>3. Len(EngineInit.learned) = 0
      BY DEF EngineInit
    <3> HIDE DEF g, n
    <3> QED BY <2>1, <3>2, <3>3, NewEngine
  <2>2. CASE n # 0
    <3>1. crashes # <<>>
      BY <1>1, <2>2
    <3>2. g = BuildEvaluation(f)
      BY <1>3, <3>1 DEF Restore, SeedHistory, AsTaught, f, rs
    <3>3. g.learned = f.learned
      BY <1>9, <3>2, Zenon DEF BuildEvaluation, Engines
    <3>4. Plain(g) /\ Clean(g) /\ Asked(g)
      BY <1>9, <3>2, EvaluationKeeps
    <3> HIDE DEF g
    <3>5. n # 0 => g.context = n
      BY <1>9, <3>3, <3>4 DEF Asked
    <3> QED BY <1>9, <3>3, <3>4, <3>5
  <2> QED BY <2>1, <2>2
<1> HIDE DEF g
<1>12. h = [g EXCEPT !.online = s.online, !.losses = s.losses, !.restored = s.rounds]
  BY DEF ImportSnapshot, g, crashes
<1> HIDE DEF h
<1>13. /\ g \in Engines /\ g.context \in {NoLook, Len(g.learned)} /\ TaughtInOrder(g.learned) /\ Looks(g)
  BY <1>10 DEF Plain
<1>14. /\ h \in Engines /\ h.learned = g.learned /\ h.processed = g.processed /\ h.context = g.context
       /\ h.modelsFrom = g.modelsFrom /\ h.online = s.online /\ h.losses = s.losses
  BY Zenon, <1>1, <1>12, <1>13 DEF Engines
<1>15. CrashPoints(h.learned) = crashes
  <2>1. h.learned \in Seq(CrashRecords) /\ Len(h.learned) = n /\ \A j \in 1..n : h.learned[j].reached = crashes[j]
    BY <1>10, <1>13, <1>14 DEF Engines
  <2> DEFINE cp == CrashPoints(h.learned)
  <2>2. /\ cp \in Seq(BOOLEAN) /\ Len(cp) = (IF Len(h.learned) > KeptCrashes THEN KeptCrashes ELSE Len(h.learned))
        /\ \A d \in 0..(Len(cp) - 1) : cp[Len(cp) - d] = h.learned[Len(h.learned) - d].reached
    BY <2>1, CrashPointsAre
  <2> HIDE DEF cp
  <2>3. Len(cp) = n
    BY <1>1, <2>1, <2>2, AcieAssumption
  <2>4. ASSUME NEW j \in 1..n
        PROVE  cp[j] = crashes[j]
    <3>1. n - j \in 0..(n - 1) /\ n - (n - j) = j
      BY <1>1
    <3> QED BY <2>1, <2>2, <2>3, <3>1
  <2>5. cp = crashes
    BY <1>1, <2>2, <2>3, <2>4, SeqEqual
  <2> QED BY <2>5 DEF cp
<1>16. Plain(h)
  <2>1. StreaksAre(CrashPoints(h.learned), h.losses, h.online)
    BY <1>1, <1>14, <1>15
  <2>2. Looks(h)
    <3>1. g.context # NoLook => g.modelsFrom = g.context
      BY <1>13 DEF Looks
    <3>2. CASE n = 0
      <4>1. g.online.psiFrom = NoLook /\ LookBefore(g.learned, 0) = NoLook
        BY <1>10, <1>13, <3>2 DEF Looks, LookBefore
      <4>2. g.context = NoLook => g.modelsFrom = NoLook
        BY <1>13, <4>1 DEF Looks
      <4> QED BY <1>1, <1>10, <1>14, <3>1, <3>2, <4>1, <4>2, Zenon DEF Looks
    <3>3. CASE n # 0
      <4>1. g.context = n /\ n # NoLook
        BY <1>1, <1>10, <3>3 DEF NoLook
      <4> QED BY <1>10, <1>14, <3>1, <3>3, <4>1, Zenon DEF Looks
    <3> QED BY <3>2, <3>3
  <2> QED BY <1>13, <1>14, <2>1, <2>2 DEF Plain
<1>17. Clean(h)
  BY <1>10, <1>14 DEF Clean
<1>18. Due(h, s.online.sinceHeavy >= HeavyEvery)
  BY Zenon, <1>14 DEF Due
<1>19. Asked(h) /\ Ordered(h)
  BY <1>1, <1>10, <1>14 DEF Asked, Ordered
<1> QED BY <1>16, <1>17, <1>18, <1>19 DEF h

\* Rounds of the database are seeded after what a snapshot taught.
LEMMA IngestOrders ==
  ASSUME NEW e, Plain(e), Ordered(e), NEW id \in Nat \ {0}, NEW reached \in BOOLEAN
  PROVE  Ordered(Ingest(e, id, reached))
<1>1. CASE KnownRound(e, id)
  BY <1>1 DEF Ingest
<1>2. CASE ~KnownRound(e, id)
  <2> DEFINE g == Remember(e, id)
             f == Learn(g, id, reached)
             c == [id |-> id, reached |-> reached, seen |-> LookOf(g), models |-> ModelsLookOf(g)]
  <2>1. e \in Engines /\ id \in Int
    BY DEF Plain
  <2>2. g \in Engines /\ g.learned = e.learned
    BY <2>1, RememberIs
  <2>5. Ingest(e, id, reached) = f
    BY <1>2 DEF Ingest
  <2> HIDE DEF g
  <2>3. f.learned = Append(g.learned, c) /\ c \in CrashRecords
    BY <2>1, <2>2, LearnIs
  <2>4. ~(c.id <= 0)
    OBVIOUS
  <2> HIDE DEF f, c
  <2>6. e.learned \in Seq(CrashRecords)
    BY <2>1 DEF Engines
  <2>7. /\ Len(f.learned) = Len(e.learned) + 1 /\ f.learned[Len(e.learned) + 1] = c /\ Len(e.learned) \in Nat
        /\ \A i \in 1..Len(e.learned) : f.learned[i] = e.learned[i]
    BY <2>2, <2>3, <2>6
  <2>8. ASSUME NEW i \in 1..Len(f.learned), NEW j \in 1..Len(f.learned), i < j, f.learned[j].id <= 0
        PROVE  f.learned[i].id <= 0
    <3>1. j # Len(e.learned) + 1
      BY <2>4, <2>7, <2>8
    <3>2. i \in 1..Len(e.learned) /\ j \in 1..Len(e.learned)
      BY <2>7, <2>8, <3>1
    <3>3. f.learned[i] = e.learned[i] /\ f.learned[j] = e.learned[j]
      BY <2>7, <3>2
    <3> QED BY <2>8, <3>2, <3>3 DEF Ordered
  <2>9. Ordered(f)
    BY <2>8 DEF Ordered
  <2> QED BY <2>5, <2>9
<1> QED BY <1>1, <1>2

\* So does a seed.
LEMMA SeedOrders ==
  ASSUME NEW e, Plain(e), Ordered(e), NEW rs \in Seq(Rounds)
  PROVE  Ordered(SeedHistory(e, rs))
<1> DEFINE late == LastOf(rs, KeptCrashes)
           n == Len(late)
           G == {x \in Engines : Plain(x) /\ Ordered(x)}
           H == [i \in 0..n |-> G]
           f == FoldLeft(LAMBDA acc, r : Ingest(acc, r.id, r.reached), e, late)
<1>1. late \in Seq(Rounds)
  BY AcieAssumption, LastOfIs
<1>2. n \in Nat /\ late \in [1..n -> Rounds]
  BY <1>1
<1> HIDE DEF late, n
<1>3. \A i \in 1..n : late[i].id \in Nat \ {0} /\ late[i].reached \in BOOLEAN
  BY <1>2 DEF Rounds
<1>4. e \in G
  BY DEF Plain
<1>5. ASSUME NEW x \in G, NEW i \in 1..n
      PROVE  Ingest(x, late[i].id, late[i].reached) \in G
  <2>1. Plain(x) /\ Ordered(x) /\ late[i].id \in Int
    BY <1>3
  <2>2. Plain(Ingest(x, late[i].id, late[i].reached))
    BY <1>3, <2>1, IngestKeeps
  <2>3. Ordered(Ingest(x, late[i].id, late[i].reached))
    BY <1>3, <2>1, IngestOrders
  <2>4. Ingest(x, late[i].id, late[i].reached) \in Engines
    BY <2>2 DEF Plain
  <2> QED BY Zenon, <2>2, <2>3, <2>4
<1>6. \A x \in G : Plain(x)
  OBVIOUS
<1> HIDE DEF G
<1>7. e \in H[0] /\ H[n] = G
  BY <1>2, <1>4
<1>8. \A i \in 0..n : \A x \in H[i] : Plain(x)
  BY <1>6
<1>9. \A i \in 1..n : \A x \in H[i - 1] : Ingest(x, late[i].id, late[i].reached) \in H[i]
  <2>1. \A i \in 1..n : i - 1 \in 0..n /\ i \in 0..n
    BY <1>2
  <2> QED BY <1>5, <2>1
<1> HIDE DEF H
<1>10. late \in [1..n -> Taught]
  <2>1. Rounds \subseteq Taught
    BY DEF Rounds, Taught
  <2> QED BY <1>2, <2>1
<1>11. f \in H[n]
  BY <1>2, <1>7, <1>8, <1>9, <1>10, IngestAlong
<1> HIDE DEF f
<1>12. Plain(f) /\ Ordered(f)
  BY <1>7, <1>11 DEF G
<1>13. SeedHistory(e, rs) = BuildEvaluation(f)
  BY DEF SeedHistory, f, late
<1> QED BY <1>12, <1>13, EvaluationKeeps

\* What a call begins with.
LEMMA SeededIs ==
  ASSUME AcieInv
  PROVE  /\ Plain(Seeded) /\ Due(Seeded, heavyOwed) /\ (spoiled = {} => Clean(Seeded))
         /\ Asked(Seeded) /\ Ordered(Seeded)
<1>1. completed \in Seq(Taught)
  <2>1. Rounds \subseteq Taught
    BY DEF Rounds, Taught
  <2> QED BY <2>1 DEF AcieInv
<1>2. CASE Seeded = SeedHistory(acie, completed)
  BY <1>1, <1>2, SeedKeeps, SeedOrders DEF AcieInv
<1>3. CASE Seeded = acie
  BY <1>3 DEF AcieInv
<1> QED BY <1>2, <1>3 DEF Seeded

\* The engine starts with nothing.
LEMMA AcieInitInv == AcieInit => AcieInv
BY NewEngine DEF AcieInit, AcieInv

\* Crashes, evaluations, exports, imports, restarts and validation keep it.
LEMMA AcieNextInv == AcieInv /\ [AcieNext]_acieVars => AcieInv'
<1> SUFFICES ASSUME AcieInv, [AcieNext]_acieVars
             PROVE  AcieInv'
  OBVIOUS
<1> USE DEF AcieInv
<1>1. CASE EvaluateNext
  <2>1. /\ Plain(Seeded) /\ Due(Seeded, heavyOwed) /\ (spoiled = {} => Clean(Seeded))
        /\ Asked(Seeded) /\ Ordered(Seeded)
    BY SeededIs
  <2>2. acie' = Seeded \/ acie' = BuildEvaluation(Seeded)
    BY <1>1 DEF EvaluateNext
  <2>3. /\ Plain(acie') /\ Due(acie', heavyOwed) /\ (spoiled = {} => Clean(acie'))
        /\ Asked(acie') /\ Ordered(acie')
    BY <2>1, <2>2, EvaluationKeeps
  <2> QED BY <1>1, <2>3 DEF EvaluateNext
<1>2. CASE HeavyEvidence
  <2>1. acie \in Engines /\ acie.online \in Onlines /\ acie.learned \in Seq(CrashRecords)
    BY DEF Plain, Engines
  <2>2. CASE acie' = [acie EXCEPT !.heavy = FALSE, !.evidence = Len(acie.learned), !.online.sinceHeavy = 0]
    <3>1. PICK on \in Onlines : /\ on = [acie.online EXCEPT !.sinceHeavy = 0]
                                /\ on.below = acie.online.below /\ on.above = acie.online.above
                                /\ on.sinceHeavy = 0 /\ on.psiFrom = acie.online.psiFrom
      <4>1. ASSUME NEW o \in Onlines
            PROVE  /\ [o EXCEPT !.sinceHeavy = 0] \in Onlines
                   /\ [o EXCEPT !.sinceHeavy = 0].below = o.below
                   /\ [o EXCEPT !.sinceHeavy = 0].above = o.above
                   /\ [o EXCEPT !.sinceHeavy = 0].sinceHeavy = 0
                   /\ [o EXCEPT !.sinceHeavy = 0].psiFrom = o.psiFrom
        <5>1. o = [below |-> o.below, above |-> o.above, regime |-> o.regime, duration |-> o.duration,
                   sinceHeavy |-> o.sinceHeavy, psiFrom |-> o.psiFrom]
              /\ o.psiFrom \in Int
              /\ o.below \in Nat /\ o.above \in Nat /\ o.regime \in RegimeNames /\ o.duration \in Nat
          BY DEF Onlines
        <5>2. [o EXCEPT !.sinceHeavy = 0]
                = [below |-> o.below, above |-> o.above, regime |-> o.regime, duration |-> o.duration,
                   sinceHeavy |-> 0, psiFrom |-> o.psiFrom]
          BY <5>1
        <5> QED BY <5>1, <5>2 DEF Onlines
      <4> QED BY Zenon, <2>1, <4>1
    <3>2. PICK v \in Int : v = Len(acie.learned)
      BY <2>1
    <3>3. acie' = [acie EXCEPT !.heavy = FALSE, !.evidence = v, !.online = on]
      BY <2>1, <2>2, <3>1, <3>2 DEF Engines
    <3>4. /\ acie' \in Engines /\ acie'.learned = acie.learned /\ acie'.losses = acie.losses
          /\ acie'.context = acie.context /\ acie'.modelsFrom = acie.modelsFrom
          /\ acie'.processed = acie.processed /\ acie'.online = on
      BY Zenon, <2>1, <3>1, <3>2, <3>3 DEF Engines
    <3>5. Plain(acie')
      BY <3>1, <3>4 DEF Plain, StreaksAre, Looks
    <3>6. Due(acie', heavyOwed')
      BY <3>1, <3>4, AcieAssumption DEF Due
    <3>7. (Clean(acie) => Clean(acie')) /\ Asked(acie') /\ Ordered(acie')
      BY <3>4, Zenon DEF Clean, Asked, Ordered
    <3> QED BY <1>2, <3>5, <3>6, <3>7 DEF HeavyEvidence
  <2>3. CASE acie' = [acie EXCEPT !.heavy = FALSE] /\ heavyOwed' = TRUE
    <3>1. /\ acie' \in Engines /\ acie'.learned = acie.learned /\ acie'.losses = acie.losses
          /\ acie'.context = acie.context /\ acie'.modelsFrom = acie.modelsFrom
          /\ acie'.processed = acie.processed /\ acie'.online = acie.online
      BY Zenon, <2>1, <2>3 DEF Engines
    <3>2. Plain(acie')
      BY <3>1, Zenon DEF Plain, Looks
    <3>3. Due(acie', heavyOwed')
      BY Zenon, <2>3 DEF Due
    <3>4. (Clean(acie) => Clean(acie')) /\ Asked(acie') /\ Ordered(acie')
      BY <3>1, Zenon DEF Clean, Asked, Ordered
    <3> QED BY <1>2, <3>2, <3>3, <3>4 DEF HeavyEvidence
  <2> QED BY <1>2, <2>2, <2>3 DEF HeavyEvidence
<1>3. CASE ExportSnapshot
  <2> DEFINE recent == LastOf(acie.learned, KeptCrashes)
             ids == [i \in DOMAIN recent |-> recent[i].id]
             s == [online |-> acie.online, crashes |-> CrashPoints(acie.learned), losses |-> acie.losses,
                   rounds |-> ids]
  <2>1. acie.online \in Onlines /\ acie.learned \in Seq(CrashRecords) /\ acie.losses \in Nat
        /\ StreaksAre(CrashPoints(acie.learned), acie.losses, acie.online)
    BY DEF Plain, Engines
  <2>6. ids \in Seq(Int)
    <3>1. recent \in Seq(CrashRecords)
      BY <2>1, AcieAssumption, LastOfIs
    <3> HIDE DEF recent
    <3>2. DOMAIN recent = 1..Len(recent) /\ Len(recent) \in Nat
      BY <3>1
    <3>3. \A i \in 1..Len(recent) : recent[i] \in CrashRecords
      BY <3>1, ElementOfSeq
    <3>4. \A i \in 1..Len(recent) : recent[i].id \in Int
      BY <3>3 DEF CrashRecords
    <3> QED BY <3>2, <3>4
  <2> HIDE DEF ids, recent
  <2>2. CrashPoints(acie.learned) \in Seq(BOOLEAN) /\ Len(CrashPoints(acie.learned)) <= KeptCrashes
    <3>1. /\ CrashPoints(acie.learned) \in Seq(BOOLEAN)
          /\ Len(CrashPoints(acie.learned))
               = IF Len(acie.learned) > KeptCrashes THEN KeptCrashes ELSE Len(acie.learned)
      BY <2>1, CrashPointsAre
    <3>2. Len(acie.learned) \in Nat /\ KeptCrashes \in Nat
      BY <2>1, AcieAssumption
    <3> QED BY <3>1, <3>2
  <2>7. Len(CrashPoints(acie.learned)) = 0 => acie.online.psiFrom = NoLook
    <3>1. Len(CrashPoints(acie.learned)) = IF Len(acie.learned) > KeptCrashes THEN KeptCrashes ELSE Len(acie.learned)
      BY <2>1, CrashPointsAre
    <3>2. Len(CrashPoints(acie.learned)) = 0 => Len(acie.learned) = 0
      BY <3>1, AcieAssumption
    <3> QED BY <3>2 DEF Plain, Looks
  <2>3. GoodSnapshot(s)
    BY <2>1, <2>2, <2>6, <2>7 DEF GoodSnapshot
  <2>4. exported' = <<s>>
    BY <1>3 DEF ExportSnapshot, ids, recent
  <2>5. \E x : GoodSnapshot(x) /\ exported' = <<x>>
    BY <2>3, <2>4
  <2> QED BY <1>3, <2>5 DEF ExportSnapshot
<1>4. CASE Restart
  BY <1>4, NewEngine DEF Restart
<1>5. CASE LoadOnBoot
  <2>1. PICK s : GoodSnapshot(s) /\ exported = <<s>>
    BY <1>5 DEF LoadOnBoot
  <2>2. Head(exported) = s
    BY <2>1
  <2>3. acie' = ImportSnapshot(EngineInit, s) /\ heavyOwed' = (s.online.sinceHeavy >= HeavyEvery)
    BY Zenon, <1>5, <2>2 DEF LoadOnBoot
  <2>4. Plain(acie') /\ Clean(acie') /\ Due(acie', heavyOwed') /\ Asked(acie') /\ Ordered(acie')
    BY Zenon, <2>1, <2>3, ImportIs
  <2> QED BY <1>5, <2>4 DEF LoadOnBoot
<1>6. CASE AciePrewarm
  <2>1. Rounds \subseteq Taught
    BY DEF Rounds, Taught
  <2>2. completed \in Seq(Taught)
    BY <2>1
  <2> QED BY <1>6, <2>2, SeedKeeps, SeedOrders DEF AciePrewarm
<1>7. ASSUME NEW id \in 1..CrashIds, OnInvalidCrash(id)
      PROVE  AcieInv'
  <2>1. id \in Int /\ spoiled' # {}
    BY <1>7 DEF OnInvalidCrash
  <2>2. Plain(acie') /\ Due(acie', heavyOwed) /\ Asked(acie') /\ Ordered(acie')
    BY <1>7, <2>1, SeededIs, RememberKeepsPlain DEF OnInvalidCrash
  <2> QED BY <1>7, <2>1, <2>2 DEF OnInvalidCrash
<1>8. ASSUME NEW id \in 1..CrashIds, NEW reached \in BOOLEAN, OnCrash(id, reached)
      PROVE  AcieInv'
  <2> DEFINE e == Seeded
  <2>1. /\ Plain(e) /\ Due(e, heavyOwed) /\ (spoiled = {} => Clean(e)) /\ Ordered(e)
        /\ id \in Int /\ id \in Nat \ {0}
    BY SeededIs
  <2> HIDE DEF e
  <2>2. /\ Plain(Ingest(e, id, reached)) /\ Due(Ingest(e, id, reached), heavyOwed)
        /\ Clean(e) => Clean(Ingest(e, id, reached))
    BY <2>1, IngestKeeps
  <2>3. acie' = BuildEvaluation(Ingest(e, id, reached)) /\ UNCHANGED <<exported, spoiled, heavyOwed>>
    BY <1>8 DEF OnCrash, e
  <2>4. Ordered(Ingest(e, id, reached))
    BY <2>1, IngestOrders
  <2>5. /\ Plain(acie') /\ Due(acie', heavyOwed) /\ (Clean(Ingest(e, id, reached)) => Clean(acie'))
        /\ Asked(acie') /\ Ordered(acie')
    BY <2>2, <2>3, <2>4, EvaluationKeeps
  <2>6. completed' \in Seq(Rounds)
    <3>1. [id |-> id, reached |-> reached] \in Rounds
      BY <2>1 DEF Rounds
    <3> QED BY <1>8, <3>1 DEF OnCrash
  <2> QED BY <2>1, <2>2, <2>3, <2>5, <2>6
<1>9. CASE UNCHANGED acieVars
  BY <1>9 DEF acieVars
<1> QED BY <1>1, <1>2, <1>3, <1>4, <1>5, <1>6, <1>7, <1>8, <1>9 DEF AcieNext

\* It is what the property asks.
LEMMA AcieInvImplies == AcieInv => LearningIsSound
<1> SUFFICES ASSUME AcieInv
             PROVE  LearningIsSound
  OBVIOUS
<1>1. acie \in Engines /\ TaughtInOrder(acie.learned)
      /\ StreaksAre(CrashPoints(acie.learned), acie.losses, acie.online)
  BY DEF AcieInv, Plain
<1>2. acie.learned \in Seq(CrashRecords) /\ acie.processed \in Seq(Int) /\ acie.online \in Onlines
  BY <1>1 DEF Engines
<1>3. NoLookAhead
  <2>1. DOMAIN acie.learned = 1..Len(acie.learned) /\ (Len(acie.learned) = 0 => acie.learned = <<>>)
    BY <1>2, EmptySeq
  <2>2. acie.learned = <<>> \/ acie.context = Len(acie.learned)
    BY <2>1 DEF AcieInv, Asked
  <2> QED BY <1>1, <2>1, <2>2 DEF TaughtInOrder, NoLookAhead
<1>4. AcieStreaksAgree
  <2>1. CrashPoints(acie.learned) \in Seq(BOOLEAN)
    BY <1>2, CrashPointsAre
  <2>2. acie.online.below \in Nat /\ acie.online.above \in Nat
    BY <1>2 DEF Onlines
  <2>3. /\ acie.losses = acie.online.below /\ (acie.online.below = 0 \/ acie.online.above = 0)
        /\ EndsIn(CrashPoints(acie.learned), FALSE, acie.online.below)
        /\ EndsIn(CrashPoints(acie.learned), TRUE, acie.online.above)
    BY <1>1 DEF StreaksAre
  <2> QED BY <2>1, <2>2, <2>3, StreakIs DEF AcieStreaksAgree
<1>5. ValidationNotForgotten
  BY Zenon DEF AcieInv, Due, ValidationNotForgotten
<1>6. ASSUME spoiled = {}
      PROVE  LET held == LastOf(acie.learned, Remembered)
             IN  \A i, j \in DOMAIN held :
                   i < j /\ RoundOf(acie, held[i]) = RoundOf(acie, held[j]) => held[i].id <= 0
  <2> DEFINE held == LastOf(acie.learned, Remembered)
             p == acie.processed
  <2>1. IdsHeld(p, acie.learned) /\ EachOnce(p)
    BY <1>6 DEF AcieInv, Clean
  <2>2. /\ Len(p) = (IF Len(acie.learned) > Remembered THEN Remembered ELSE Len(acie.learned))
        /\ \A d \in 0..(Len(p) - 1) : p[Len(p) - d] = acie.learned[Len(acie.learned) - d].id
        /\ \A i, j \in 1..Len(p) : p[i] = p[j] => i = j
    BY <2>1 DEF IdsHeld, EachOnce
  <2>3. /\ held \in Seq(CrashRecords)
        /\ Len(held) = (IF Len(acie.learned) > Remembered THEN Remembered ELSE Len(acie.learned))
        /\ \A d \in 0..(Len(held) - 1) : held[Len(held) - d] = acie.learned[Len(acie.learned) - d]
    BY <1>2, AcieAssumption, LastOfIs
  <2>4. DOMAIN held = 1..Len(p) /\ Len(held) = Len(p) /\ Len(p) \in Nat
    BY <1>2, <2>2, <2>3
  <2> HIDE DEF held, p
  <2>5. ASSUME NEW i \in 1..Len(p)
        PROVE  held[i].id = p[i]
    <3>1. PICK d \in 0..(Len(p) - 1) : i = Len(p) - d
      <4>1. Len(p) - i \in 0..(Len(p) - 1) /\ i = Len(p) - (Len(p) - i)
        BY <2>4
      <4> QED BY <4>1
    <3>2. /\ p[Len(p) - d] = acie.learned[Len(acie.learned) - d].id
          /\ held[Len(p) - d] = acie.learned[Len(acie.learned) - d]
      BY <2>2, <2>3, <2>4
    <3> QED BY <3>1, <3>2
  <2>6. \A i, j \in DOMAIN held : held[i].id = held[j].id => i = j
    BY <2>2, <2>4, <2>5
  <2>7. ASSUME NEW i \in DOMAIN held, NEW j \in DOMAIN held, i < j,
               RoundOf(acie, held[i]) = RoundOf(acie, held[j])
        PROVE  held[i].id <= 0
    <3> SUFFICES ASSUME ~(held[i].id <= 0)
                 PROVE  FALSE
      OBVIOUS
    <3>1. held[i] \in CrashRecords /\ held[j] \in CrashRecords /\ i \in 1..Len(held) /\ j \in 1..Len(held)
      BY <2>3, ElementOfSeq
    <3>2. PICK a \in 1..Len(acie.learned), b \in 1..Len(acie.learned) :
            a < b /\ held[i] = acie.learned[a] /\ held[j] = acie.learned[b]
      <4>4. Len(held) \in Nat /\ Len(acie.learned) \in Nat /\ Remembered \in Nat
        BY <1>2, <2>4, AcieAssumption
      <4>5. Len(held) <= Len(acie.learned)
        BY <2>3, <4>4
      <4>1. /\ Len(held) - i \in 0..(Len(held) - 1) /\ Len(held) - (Len(held) - i) = i
            /\ Len(held) - j \in 0..(Len(held) - 1) /\ Len(held) - (Len(held) - j) = j
            /\ Len(held) <= Len(acie.learned)
        BY <3>1, <4>4, <4>5
      <4>2. /\ held[i] = acie.learned[Len(acie.learned) - (Len(held) - i)]
            /\ held[j] = acie.learned[Len(acie.learned) - (Len(held) - j)]
        BY <2>3, <4>1
      <4>6. i \in Int /\ j \in Int /\ 1 <= i /\ i < j /\ j <= Len(held)
        BY <2>7, <3>1, <4>4
      <4> DEFINE n == Len(acie.learned)
                 m == Len(held)
      <4>7. n \in Nat /\ m \in Nat /\ m <= n /\ j <= m
        BY <4>4, <4>5, <4>6
      <4> HIDE DEF n, m
      <4>3. n - (m - i) \in 1..n /\ n - (m - j) \in 1..n /\ n - (m - i) < n - (m - j)
        BY <4>6, <4>7
      <4> QED BY <4>2, <4>3 DEF n, m
    <3>3. ~(held[j].id <= 0)
      BY <3>2 DEF AcieInv, Ordered
    <3>4. held[i].id > 0 /\ held[j].id > 0
      BY <3>1, <3>3 DEF CrashRecords
    <3>5. held[i].id = held[j].id
      BY <2>7, <3>4 DEF RoundOf
    <3>6. i = j
      BY <2>6, <3>5
    <3> QED BY <2>7, <3>1, <3>6
  <2> QED BY <2>7 DEF held
<1>7. LearnedOnce
  BY <1>6 DEF LearnedOnce
<1> QED BY <1>3, <1>4, <1>5, <1>7 DEF LearningIsSound

(* A crash that is taught counts in the streaks as it ends, is scored by   *)
(* what was said before it, and as long as none was refused its id is      *)
(* taught once while its record is held; only a round that came with a     *)
(* snapshot, under an id of its own, may be taught again under its true    *)
(* id. Validation that is due is not forgotten. For any number of rounds,  *)
(* over seeds, refused crashes, snapshots and restarts.                    *)
(* (prediction/acie/engine.ts)                                             *)
THEOREM EachCrashTeachesOnce == AcieInit /\ [][AcieNext]_acieVars => []LearningIsSound
BY AcieInitInv, AcieNextInv, AcieInvImplies, PTL

\* An engine holds the ids it may hold, its evidence is of what it learned, and
\* unless it took a snapshot it counts no more than it learned.
EngineFits(e) ==
  /\ Len(e.processed) <= Remembered /\ e.evidence \in -1..Len(e.learned)
  /\ (\A i \in 1..Len(e.learned) : e.learned[i].id > 0) =>
       e.losses <= Len(e.learned) /\ e.online.duration <= Len(e.learned)
EmptySnapshot(s) == s.crashes = <<>> => s.losses = 0 /\ s.online.duration = 0
AcieTypes ==
  /\ EngineFits(acie) /\ \A s : exported = <<s>> => EmptySnapshot(s)
  /\ Len(completed) <= CrashIds /\ spoiled \subseteq 1..CrashIds
  /\ booting \in BOOLEAN /\ heavyOwed \in BOOLEAN

\* With AcieInv, the types of the engine.
LEMMA AcieTypesMean == AcieInv /\ AcieTypes => AcieTypeOK
<1> SUFFICES ASSUME AcieInv, AcieTypes PROVE AcieTypeOK
  OBVIOUS
<1>1. acie \in Engines /\ EngineFits(acie)
  BY DEF AcieInv, Plain, AcieTypes
<1>2. /\ acie.losses \in Nat /\ acie.online \in Onlines /\ acie.learned \in Seq(CrashRecords)
  BY <1>1 DEF Engines
<1>3. acie.heavy \in BOOLEAN
  BY <1>1, Zenon DEF Engines
<1>4. acie.online.duration \in Nat
  BY <1>2 DEF Onlines
<1>5. DOMAIN acie.learned = 1..Len(acie.learned)
  BY <1>2
<1> QED BY <1>1, <1>2, <1>3, <1>4, <1>5, Zenon DEF AcieTypeOK, AcieTypes, EngineFits

\* What is learned is evidence, a run and a loss at most.
LEMMA LearnFits ==
  ASSUME NEW e \in Engines, EngineFits(e), NEW id \in Int, NEW reached \in BOOLEAN
  PROVE  EngineFits(Learn(e, id, reached))
<1> DEFINE c == [id |-> id, reached |-> reached, seen |-> LookOf(e), models |-> ModelsLookOf(e)]
           learned == Append(e.learned, c)
           online == ApplyOnlineUpdate(e.online, LookOf(e), reached, DetectRegime(CrashPoints(learned)))
           f == Learn(e, id, reached)
<1>1. /\ e.processed \in Seq(Int) /\ e.learned \in Seq(CrashRecords) /\ e.losses \in Nat /\ e.online \in Onlines
      /\ e.evidence \in Int
  BY DEF Engines
<1>2. f = [e EXCEPT !.learned = learned, !.losses = IF reached THEN 0 ELSE e.losses + 1, !.online = online,
                    !.heavy = e.heavy \/ online.sinceHeavy >= HeavyEvery,
                    !.evidence = IF e.evidence = -1 THEN Len(learned) ELSE e.evidence,
                    !.context = NoLook]
  BY DEF Learn
<1>3. f.learned = learned /\ f.processed = e.processed
  BY LearnIs
<1>4. /\ Len(learned) = Len(e.learned) + 1 /\ Len(e.learned) \in Nat
      /\ \A i \in 1..Len(e.learned) : learned[i] = e.learned[i]
  BY <1>1
<1>5. \A r : \/ ApplyOnlineUpdate(e.online, LookOf(e), reached, r).duration = e.online.duration + 1
             \/ ApplyOnlineUpdate(e.online, LookOf(e), reached, r).duration = 1
  BY DEF ApplyOnlineUpdate
<1> HIDE DEF c, learned, online, f
<1>6. online.duration = e.online.duration + 1 \/ online.duration = 1
  BY <1>5 DEF online
<1>7. /\ f.losses = (IF reached THEN 0 ELSE e.losses + 1) /\ f.online = online
      /\ f.evidence = (IF e.evidence = -1 THEN Len(learned) ELSE e.evidence)
  BY <1>2, Zenon DEF Engines
<1>8. f.evidence \in -1..Len(learned)
  BY <1>1, <1>4, <1>7 DEF EngineFits
<1>9. ASSUME \A i \in 1..Len(learned) : learned[i].id > 0
      PROVE  f.losses <= Len(learned) /\ f.online.duration <= Len(learned)
  <2>1. \A i \in 1..Len(e.learned) : e.learned[i].id > 0
    BY <1>4, <1>9
  <2>2. e.losses <= Len(e.learned) /\ e.online.duration <= Len(e.learned)
    BY <2>1 DEF EngineFits
  <2>3. e.online.duration \in Nat
    BY <1>1 DEF Onlines
  <2>4. f.losses <= Len(learned)
    BY <1>1, <1>4, <1>7, <2>2
  <2>5. online.duration <= Len(learned)
    BY <1>4, <1>6, <2>2, <2>3
  <2> QED BY <1>7, <2>4, <2>5
<1> QED BY <1>3, <1>8, <1>9, Zenon DEF EngineFits, f

\* An id remembered changes nothing else.
LEMMA RememberFits ==
  ASSUME NEW e \in Engines, EngineFits(e), NEW id \in Int
  PROVE  EngineFits(Remember(e, id))
<1> DEFINE f == Remember(e, id)
           P == Append(e.processed, id)
           q == LastOf(P, Remembered)
<1>1. P \in Seq(Int) /\ Remembered \in Nat
  BY AcieAssumption DEF Engines
<1>2. f.learned = e.learned /\ f.losses = e.losses /\ f.online = e.online /\ f.processed = q
  BY RememberIs
<1>3. f.evidence = e.evidence
  BY Zenon DEF Remember, Engines
<1> HIDE DEF f, P
<1>4. Len(q) = IF Len(P) > Remembered THEN Remembered ELSE Len(P)
  BY <1>1, LastOfIs
<1> HIDE DEF q
<1>5. Len(q) <= Remembered
  BY <1>1, <1>4
<1> QED BY <1>2, <1>3, <1>5, Zenon DEF EngineFits, f

\* So does a crash, learned or refused.
LEMMA IngestFits ==
  ASSUME NEW e, Plain(e), EngineFits(e), NEW id \in Int, NEW reached \in BOOLEAN
  PROVE  EngineFits(Ingest(e, id, reached))
<1>1. e \in Engines
  BY DEF Plain
<1>2. Remember(e, id) \in Engines /\ EngineFits(Remember(e, id))
  BY <1>1, RememberIs, RememberFits
<1>3. EngineFits(Learn(Remember(e, id), id, reached))
  BY <1>2, LearnFits
<1> QED BY <1>3, Zenon DEF Ingest

\* An evaluation changes neither.
LEMMA EvaluationFits ==
  ASSUME NEW e \in Engines, EngineFits(e)
  PROVE  EngineFits(BuildEvaluation(e))
<1>1. /\ BuildEvaluation(e).learned = e.learned /\ BuildEvaluation(e).losses = e.losses
      /\ BuildEvaluation(e).online = e.online /\ BuildEvaluation(e).processed = e.processed
      /\ BuildEvaluation(e).evidence = e.evidence
  BY Zenon DEF BuildEvaluation, Engines
<1> QED BY <1>1, Zenon DEF EngineFits

\* A new engine has nothing.
LEMMA NewEngineFits == EngineFits(EngineInit)
<1>1. /\ EngineInit.learned = <<>> /\ EngineInit.losses = 0 /\ EngineInit.online = OnlineInit
      /\ EngineInit.processed = <<>> /\ EngineInit.evidence = -1
  BY DEF EngineInit
<1>2. OnlineInit.duration = 0
  BY DEF OnlineInit
<1>3. Len(<<>>) = 0 /\ 0 <= Remembered /\ -1 \in -1..0 /\ 0 <= 0
  BY AcieAssumption
<1> QED BY <1>1, <1>2, <1>3, Zenon DEF EngineFits

\* A seed is a new engine that learns one crash after the other.
LEMMA SeedFits ==
  ASSUME NEW e, Plain(e), EngineFits(e), NEW rs \in Seq(Taught)
  PROVE  EngineFits(SeedHistory(e, rs))
<1> DEFINE late == LastOf(rs, KeptCrashes)
           n == Len(late)
           G == {x \in Engines : Plain(x) /\ EngineFits(x)}
           H == [i \in 0..n |-> G]
           f == FoldLeft(LAMBDA acc, r : Ingest(acc, r.id, r.reached), e, late)
<1>1. late \in Seq(Taught)
  BY AcieAssumption, LastOfIs
<1>2. n \in Nat /\ late \in [1..n -> Taught]
  BY <1>1
<1> HIDE DEF late, n
<1>3. \A i \in 1..n : late[i].id \in Int /\ late[i].reached \in BOOLEAN
  BY <1>2 DEF Taught
<1>4. e \in G
  BY DEF Plain
<1>5. ASSUME NEW x \in G, NEW i \in 1..n
      PROVE  Ingest(x, late[i].id, late[i].reached) \in G
  <2>1. Plain(x) /\ EngineFits(x)
    OBVIOUS
  <2>2. Plain(Ingest(x, late[i].id, late[i].reached)) /\ EngineFits(Ingest(x, late[i].id, late[i].reached))
    BY <1>3, <2>1, IngestKeeps, IngestFits
  <2>3. Ingest(x, late[i].id, late[i].reached) \in Engines
    BY <2>2 DEF Plain
  <2> QED BY Zenon, <2>2, <2>3
<1>6. \A x \in G : Plain(x)
  OBVIOUS
<1> HIDE DEF G
<1>7. e \in H[0] /\ H[n] = G
  BY <1>2, <1>4
<1>8. \A i \in 0..n : \A x \in H[i] : Plain(x)
  BY <1>6
<1>9. \A i \in 1..n : \A x \in H[i - 1] : Ingest(x, late[i].id, late[i].reached) \in H[i]
  <2>1. \A i \in 1..n : i - 1 \in 0..n /\ i \in 0..n
    BY <1>2
  <2> QED BY <1>5, <2>1
<1> HIDE DEF H
<1>10. f \in H[n]
  BY <1>2, <1>7, <1>8, <1>9, IngestAlong
<1> HIDE DEF f
<1>11. f \in Engines /\ EngineFits(f)
  BY <1>7, <1>10 DEF G
<1>12. SeedHistory(e, rs) = BuildEvaluation(f)
  BY DEF SeedHistory, f, late
<1> QED BY <1>11, <1>12, EvaluationFits

\* A snapshot with a crash leaves one under an id of its own; one without has no
\* losses.
LEMMA ImportFits ==
  ASSUME NEW s, GoodSnapshot(s), EmptySnapshot(s)
  PROVE  EngineFits(ImportSnapshot(EngineInit, s))
<1> DEFINE Own(x) == \E j \in 1..Len(x.learned) : x.learned[j].id <= 0
           crashes == s.crashes
           rs == AsTaught(crashes)
           n == Len(crashes)
           G(i) == {x \in Engines : Plain(x) /\ EngineFits(x) /\ (IF i = 0 THEN x = EngineInit ELSE Own(x))}
           H == [i \in 0..n |-> G(i)]
           f == FoldLeft(LAMBDA acc, r : Ingest(acc, r.id, r.reached), EngineInit, rs)
<1>1. /\ crashes \in Seq(BOOLEAN) /\ n <= KeptCrashes /\ n \in Nat
      /\ s.online \in Onlines /\ s.losses \in Nat
  BY DEF GoodSnapshot
<1> HIDE DEF crashes
<1>2. rs \in [1..n -> Taught] /\ rs \in Seq(Taught) /\ Len(rs) = n
      /\ \A i \in 1..n : rs[i].id = -i /\ rs[i].reached = crashes[i]
  <2>1. \A i \in 1..n : [id |-> -i, reached |-> crashes[i]] \in Taught
    BY <1>1, ElementOfSeq DEF Taught
  <2>2. rs = [i \in 1..n |-> [id |-> -i, reached |-> crashes[i]]]
    BY <1>1 DEF AsTaught
  <2> QED BY <2>1, <2>2, <1>1
<1>3. LastOf(rs, KeptCrashes) = rs
  BY <1>1, <1>2, AcieAssumption DEF LastOf
<1> HIDE DEF rs
<1>4. EngineInit \in G(0)
  BY NewEngine, NewEngineFits
<1>5. ASSUME NEW i \in 1..n, NEW x \in G(i - 1)
      PROVE  Ingest(x, -i, crashes[i]) \in G(i)
  <2> DEFINE y == Ingest(x, -i, crashes[i])
  <2>1. x \in Engines /\ Plain(x) /\ EngineFits(x) /\ (i = 1 => x = EngineInit) /\ (i # 1 => Own(x))
    OBVIOUS
  <2>2. -i \in Int /\ crashes[i] \in BOOLEAN /\ -i <= 0 /\ i # 0
    BY <1>1, ElementOfSeq
  <2>3. Plain(y) /\ EngineFits(y)
    BY <2>1, <2>2, IngestKeeps, IngestFits
  <2>4. y \in Engines
    BY <2>3 DEF Plain
  <2>5. Own(y)
    <3>1. CASE KnownRound(x, -i)
      <4>1. i # 1
        <5>1. i = 1 => x.processed = <<>>
          BY <2>1 DEF EngineInit
        <5>2. Range(<<>>) = {}
          BY DEF Range
        <5> QED BY <3>1, <5>1, <5>2, Zenon DEF KnownRound
      <4>2. y = x
        BY <3>1, Zenon DEF Ingest
      <4> QED BY <2>1, <4>1, <4>2, Zenon
    <3>2. CASE ~KnownRound(x, -i)
      <4> DEFINE g == Remember(x, -i)
                 c == [id |-> -i, reached |-> crashes[i], seen |-> LookOf(g), models |-> ModelsLookOf(g)]
      <4>1. y = Learn(g, -i, crashes[i])
        BY <3>2, Zenon DEF Ingest
      <4>2. g \in Engines
        BY <2>1, <2>2, RememberIs
      <4>3. Learn(g, -i, crashes[i]).learned = Append(g.learned, c) /\ c \in CrashRecords
        BY <2>2, <4>2, LearnIs
      <4>4. g.learned \in Seq(CrashRecords)
        BY <4>2 DEF Engines
      <4>5. c.id <= 0
        BY <2>2
      <4> HIDE DEF g, c, y
      <4>6. PICK L : L = y.learned
        OBVIOUS
      <4>7. L = Append(g.learned, c)
        BY <4>1, <4>3, <4>6, Zenon
      <4>8. Len(L) \in 1..Len(L) /\ L[Len(L)] = c
        BY <4>4, <4>7
      <4> QED BY <4>5, <4>6, <4>8, Zenon
    <3> QED BY <3>1, <3>2
  <2> HIDE DEF y, Own
  <2> QED BY <2>2, <2>3, <2>4, <2>5, Zenon DEF y
<1>6. \A i \in 0..n : \A x \in G(i) : Plain(x)
  OBVIOUS
<1>7. \A x \in G(n) : x \in Engines /\ Plain(x) /\ EngineFits(x) /\ (n # 0 => Own(x))
  OBVIOUS
<1>8. \A i \in 0..n : H[i] = G(i)
  OBVIOUS
<1> HIDE DEF G, H
<1>9. EngineInit \in H[0] /\ H[n] = G(n)
  BY <1>1, <1>4, <1>8
<1>10. \A i \in 0..n : \A x \in H[i] : Plain(x)
  BY <1>6, <1>8
<1>11. \A i \in 1..n : \A x \in H[i - 1] : Ingest(x, rs[i].id, rs[i].reached) \in H[i]
  <2>1. \A i \in 1..n : i - 1 \in 0..n /\ i \in 0..n
    BY <1>1
  <2> QED BY <1>2, <1>5, <1>8, <2>1
<1>12. f \in H[n]
  BY <1>1, <1>2, <1>9, <1>10, <1>11, IngestAlong
<1> HIDE DEF f
<1>13. f \in Engines /\ EngineFits(f) /\ (n # 0 => Own(f))
  BY <1>7, <1>9, <1>12
<1> DEFINE g == Restore(EngineInit, crashes)
           h == ImportSnapshot(EngineInit, s)
<1>14. g \in Engines /\ EngineFits(g) /\ (n # 0 => Own(g))
  <2>1. CASE n = 0
    <3>1. crashes = <<>>
      BY <1>1, <2>1, EmptySeq
    <3>2. g = EngineInit
      BY <3>1 DEF Restore
    <3> HIDE DEF g, n, Own
    <3> QED BY <2>1, <3>2, NewEngine, NewEngineFits
  <2>2. CASE n # 0
    <3>1. crashes # <<>>
      BY <1>1, <2>2
    <3>2. g = BuildEvaluation(f)
      BY <1>3, <3>1 DEF Restore, SeedHistory, AsTaught, f, rs
    <3>3. g.learned = f.learned
      BY <1>13, <3>2, Zenon DEF BuildEvaluation, Engines
    <3>4. Plain(f)
      BY <1>7, <1>9, <1>12
    <3>5. g \in Engines
      BY <3>2, <3>4, EvaluationKeeps DEF Plain
    <3>6. EngineFits(g)
      BY <1>13, <3>2, EvaluationFits
    <3> HIDE DEF g
    <3>7. Own(g)
      BY <1>13, <2>2, <3>3, Zenon
    <3> HIDE DEF Own
    <3> QED BY <3>5, <3>6, <3>7
  <2> HIDE DEF g, n, Own
  <2> QED BY <2>1, <2>2
<1> HIDE DEF g
<1>16. h = [g EXCEPT !.online = s.online, !.losses = s.losses, !.restored = s.rounds]
  BY DEF ImportSnapshot, g, crashes
<1> HIDE DEF h
<1>17. /\ h.learned = g.learned /\ h.processed = g.processed /\ h.evidence = g.evidence
       /\ h.online = s.online /\ h.losses = s.losses
  BY Zenon, <1>14, <1>16 DEF Engines
<1>18. (\A i \in 1..Len(h.learned) : h.learned[i].id > 0) =>
         h.losses <= Len(h.learned) /\ h.online.duration <= Len(h.learned)
  <2>1. CASE n = 0
    <3>1. crashes = <<>>
      BY <1>1, <2>1, EmptySeq
    <3>2. s.losses = 0 /\ s.online.duration = 0
      BY <3>1 DEF EmptySnapshot, crashes
    <3>3. h.learned \in Seq(CrashRecords)
      BY <1>14, <1>17 DEF Engines
    <3>4. Len(h.learned) >= 0
      BY <3>3
    <3> QED BY <1>17, <3>2, <3>4
  <2>2. CASE n # 0
    <3>1. PICK j \in 1..Len(h.learned) : h.learned[j].id <= 0
      BY <1>14, <1>17, <2>2, Zenon
    <3>2. h.learned[j] \in CrashRecords
      BY <1>14, <1>17, ElementOfSeq DEF Engines
    <3>3. ~(h.learned[j].id > 0)
      BY <3>1, <3>2 DEF CrashRecords
    <3> QED BY <3>1, <3>3, Zenon
  <2> QED BY <2>1, <2>2
<1> QED BY <1>14, <1>17, <1>18, Zenon DEF EngineFits, h

\* The engine starts new, its snapshot empty.
LEMMA AcieTypesInit == AcieInit => AcieTypes
<1> SUFFICES ASSUME AcieInit PROVE AcieTypes
  OBVIOUS
<1>1. Len(completed) <= CrashIds /\ \A s : exported # <<s>>
  BY AcieAssumption DEF AcieInit
<1> QED BY <1>1, NewEngineFits DEF AcieInit, AcieTypes

\* Rounds, evaluations, snapshots and restarts keep the types.
LEMMA AcieTypesNext ==
  ASSUME AcieInv, AcieTypes, [AcieNext]_acieVars
  PROVE  AcieTypes'
<1>0. /\ acie \in Engines /\ Plain(acie) /\ EngineFits(acie) /\ completed \in Seq(Taught)
      /\ acie.learned \in Seq(CrashRecords) /\ CrashIds \in Nat
  <2>1. Rounds \subseteq Taught
    BY DEF Rounds, Taught
  <2> QED BY <2>1, AcieAssumption DEF AcieInv, Plain, AcieTypes, Engines
<1>1. booting' \in BOOLEAN
  <2>1. UNCHANGED booting \/ booting' = FALSE \/ booting' = TRUE
    BY Zenon DEF AcieNext, EvaluateNext, HeavyEvidence, ExportSnapshot, Restart, LoadOnBoot, AciePrewarm,
         OnInvalidCrash, OnCrash, acieVars
  <2> QED BY <2>1 DEF AcieTypes
<1>2. heavyOwed' \in BOOLEAN
  <2>1. \/ UNCHANGED heavyOwed \/ heavyOwed' = FALSE \/ heavyOwed' = TRUE
        \/ heavyOwed' = (Head(exported).online.sinceHeavy >= HeavyEvery)
    BY Zenon DEF AcieNext, EvaluateNext, HeavyEvidence, ExportSnapshot, Restart, LoadOnBoot, AciePrewarm,
         OnInvalidCrash, OnCrash, acieVars
  <2>2. (Head(exported).online.sinceHeavy >= HeavyEvery) \in BOOLEAN
    OBVIOUS
  <2> QED BY <2>1, <2>2, Zenon DEF AcieTypes
<1>3. spoiled' \subseteq 1..CrashIds
  <2>1. \/ UNCHANGED spoiled \/ spoiled' = {}
        \/ \E id \in 1..CrashIds : spoiled' = spoiled \cup {id}
    BY Zenon DEF AcieNext, EvaluateNext, HeavyEvidence, ExportSnapshot, Restart, LoadOnBoot, AciePrewarm,
         OnInvalidCrash, OnCrash, acieVars
  <2> QED BY <2>1, Zenon DEF AcieTypes
<1>4. Len(completed') <= CrashIds
  <2>1. \/ UNCHANGED completed
        \/ \E id \in 1..CrashIds, reached \in BOOLEAN :
             /\ id = Len(completed) + 1
             /\ completed' = Append(completed, [id |-> id, reached |-> reached])
    BY Zenon DEF AcieNext, EvaluateNext, HeavyEvidence, ExportSnapshot, Restart, LoadOnBoot, AciePrewarm,
         OnInvalidCrash, OnCrash, acieVars
  <2>2. ASSUME NEW id \in 1..CrashIds, NEW c, id = Len(completed) + 1, completed' = Append(completed, c)
        PROVE  Len(completed') <= CrashIds
    <3>1. Len(Append(completed, c)) = Len(completed) + 1
      BY <1>0
    <3> QED BY <2>2, <3>1
  <2> QED BY <2>1, <2>2, Zenon DEF AcieTypes
<1>5. ASSUME NEW s, exported' = <<s>> PROVE EmptySnapshot(s)
  <2>1. CASE UNCHANGED exported
    BY <1>5, <2>1 DEF AcieTypes
  <2>2. CASE ExportSnapshot
    <3>1. PICK ids : s = [online |-> acie.online, crashes |-> CrashPoints(acie.learned),
                             losses |-> acie.losses, rounds |-> ids]
      BY <1>5, <2>2 DEF ExportSnapshot
    <3>2. \A i \in 1..Len(acie.learned) : acie.learned[i].id > 0
      BY <1>0, <2>2 DEF ExportSnapshot
    <3>3. acie.losses <= Len(acie.learned) /\ acie.online.duration <= Len(acie.learned)
      BY <1>0, <3>2, Zenon DEF EngineFits
    <3>4. acie.losses \in Nat /\ acie.online.duration \in Nat
      BY <1>0 DEF Engines, Onlines
    <3>5. /\ Len(CrashPoints(acie.learned))
               = IF Len(acie.learned) > KeptCrashes THEN KeptCrashes ELSE Len(acie.learned)
          /\ CrashPoints(acie.learned) \in Seq(BOOLEAN)
      BY <1>0, CrashPointsAre
    <3>6. PICK n \in Nat : n = Len(acie.learned)
      BY <1>0
    <3>7. CrashPoints(acie.learned) = <<>> => n = 0
      BY <3>5, <3>6, AcieAssumption
    <3>8. n = 0 => acie.losses = 0 /\ acie.online.duration = 0
      BY <3>3, <3>4, <3>6
    <3>9. s.crashes = CrashPoints(acie.learned) /\ s.losses = acie.losses /\ s.online = acie.online
      BY <3>1
    <3> QED BY <3>7, <3>8, <3>9, Zenon DEF EmptySnapshot
  <2>3. UNCHANGED exported \/ ExportSnapshot
    BY Zenon DEF AcieNext, EvaluateNext, HeavyEvidence, Restart, LoadOnBoot, AciePrewarm,
         OnInvalidCrash, OnCrash, acieVars
  <2> QED BY <2>1, <2>2, <2>3
<1>6. EngineFits(acie')
  <2>9. Plain(Seeded) /\ EngineFits(Seeded) /\ Seeded \in Engines
    <3>1. Plain(SeedHistory(acie, completed)) /\ EngineFits(SeedHistory(acie, completed))
      BY <1>0, SeedKeeps, SeedFits
    <3>2. Plain(Seeded) /\ EngineFits(Seeded)
      BY <1>0, <3>1, Zenon DEF Seeded
    <3> QED BY <3>2 DEF Plain
  <2>1. CASE EvaluateNext
    BY <2>1, <2>9, EvaluationFits DEF EvaluateNext
  <2>2. CASE HeavyEvidence
    <3>1. acie.online \in Onlines /\ acie.evidence \in Int
      BY <1>0 DEF Engines
    <3>2. CASE acie' = [acie EXCEPT !.heavy = FALSE, !.evidence = Len(acie.learned), !.online.sinceHeavy = 0]
      <4>1. [acie.online EXCEPT !.sinceHeavy = 0].duration = acie.online.duration
        BY <3>1 DEF Onlines
      <4>2. PICK on : on = [acie.online EXCEPT !.sinceHeavy = 0]
        OBVIOUS
      <4>3. PICK v \in Nat : v = Len(acie.learned)
        BY <1>0
      <4>4. acie' = [acie EXCEPT !.heavy = FALSE, !.evidence = v, !.online = on]
        BY <1>0, <3>2, <4>2, <4>3 DEF Engines
      <4>5. /\ acie'.learned = acie.learned /\ acie'.losses = acie.losses
            /\ acie'.processed = acie.processed /\ acie'.online = on /\ acie'.evidence = v
        BY Zenon, <1>0, <4>4 DEF Engines
      <4>6. v \in -1..v
        OBVIOUS
      <4>7. acie'.online.duration = acie.online.duration
        BY <4>1, <4>2, <4>5, Zenon
      <4> QED BY <1>0, <4>3, <4>5, <4>6, <4>7, Zenon DEF EngineFits
    <3>3. CASE acie' = [acie EXCEPT !.heavy = FALSE]
      <4>1. /\ acie'.learned = acie.learned /\ acie'.losses = acie.losses
            /\ acie'.processed = acie.processed /\ acie'.online = acie.online
            /\ acie'.evidence = acie.evidence
        BY Zenon, <1>0, <3>3 DEF Engines
      <4> QED BY <1>0, <4>1, Zenon DEF EngineFits
    <3> QED BY <2>2, <3>2, <3>3, Zenon DEF HeavyEvidence
  <2>3. CASE ExportSnapshot \/ UNCHANGED acieVars
    BY <1>0, <2>3 DEF ExportSnapshot, acieVars
  <2>4. CASE Restart
    BY <2>4, NewEngineFits DEF Restart
  <2>5. CASE LoadOnBoot
    <3>1. PICK s : GoodSnapshot(s) /\ exported = <<s>>
      BY <2>5 DEF LoadOnBoot, AcieInv
    <3>2. Head(exported) = s
      BY <3>1
    <3>3. acie' = ImportSnapshot(EngineInit, s)
      BY Zenon, <2>5, <3>2 DEF LoadOnBoot
    <3>4. EmptySnapshot(s)
      BY <3>1 DEF AcieTypes
    <3> QED BY <3>1, <3>3, <3>4, ImportFits
  <2>6. CASE AciePrewarm
    BY <1>0, <2>6, SeedFits DEF AciePrewarm
  <2>7. ASSUME NEW id \in 1..CrashIds, OnInvalidCrash(id) PROVE EngineFits(acie')
    BY <1>0, <2>7, <2>9, RememberFits DEF OnInvalidCrash
  <2>8. ASSUME NEW id \in 1..CrashIds, NEW reached \in BOOLEAN, OnCrash(id, reached)
        PROVE  EngineFits(acie')
    <3> DEFINE e == Seeded
    <3>1. Plain(e) /\ EngineFits(e)
      BY <2>9
    <3> HIDE DEF e
    <3>2. Plain(Ingest(e, id, reached)) /\ EngineFits(Ingest(e, id, reached))
      BY <3>1, IngestKeeps, IngestFits
    <3>3. acie' = BuildEvaluation(Ingest(e, id, reached))
      BY <2>8 DEF OnCrash, e
    <3>4. Ingest(e, id, reached) \in Engines
      BY <3>2 DEF Plain
    <3> QED BY <3>2, <3>3, <3>4, EvaluationFits
  <2> QED BY <2>1, <2>2, <2>3, <2>4, <2>5, <2>6, <2>7, <2>8, Zenon DEF AcieNext
<1> QED BY <1>1, <1>2, <1>3, <1>4, <1>5, <1>6, Zenon DEF AcieTypes
-----------------------------------------------------------------------------
(* Data sets.                                                              *)
\* Inductive: the rounds are rounds.
DatasetInv == rounds \in Seq(SimRounds)

\* There is none at first.
LEMMA DatasetInitInv == ValidationInit => DatasetInv
BY DEF ValidationInit, DatasetInv

\* One is added at a time.
LEMMA DatasetNextInv == DatasetInv /\ [DatasetNext]_datasetVars => DatasetInv'
<1> SUFFICES ASSUME DatasetInv, [DatasetNext]_datasetVars
             PROVE  DatasetInv'
  OBVIOUS
<1>1. CASE DatasetNext
  <2>1. PICK r \in SimRounds : rounds' = Append(rounds, r)
    BY <1>1 DEF DatasetNext
  <2> QED BY <2>1 DEF DatasetInv
<1>2. CASE UNCHANGED datasetVars
  BY <1>2 DEF datasetVars, DatasetInv
<1> QED BY <1>1, <1>2

\* The rounds are in the order of their crashes, not only next to each other.
LEMMA InOrderThroughout ==
  ASSUME NEW rs \in Seq(SimRounds), AssertChronological(rs),
         NEW u \in 1..Len(rs), NEW v \in 1..Len(rs), u <= v
  PROVE  rs[u].crashed <= rs[v].crashed
<1> DEFINE n == v - u
           S == {k \in 0..n : rs[u].crashed <= rs[u + k].crashed}
<1>1. Len(rs) \in Nat /\ n \in Nat /\ u + n = v
  OBVIOUS
<1>2. \A i \in 1..Len(rs) : rs[i].crashed \in Int
  <2>1. \A i \in 1..Len(rs) : rs[i] \in SimRounds
    BY ElementOfSeq
  <2>2. \A r \in SimRounds : r.crashed \in Int
    BY DEF SimRounds
  <2> QED BY <2>1, <2>2
<1>3. 0 \in S
  <2>1. u + 0 = u /\ 0 \in 0..n
    BY <1>1
  <2> QED BY <1>2, <2>1
<1>4. ASSUME NEW k \in 1..n, k - 1 \in S
      PROVE  k \in S
  <2>1. u + k \in 2..Len(rs) /\ (u + k) - 1 = u + (k - 1) /\ u + (k - 1) \in 1..Len(rs)
    BY <1>1
  <2>2. rs[u + (k - 1)].crashed <= rs[u + k].crashed
    BY <2>1 DEF AssertChronological
  <2>3. rs[u].crashed <= rs[u + (k - 1)].crashed
    BY <1>4
  <2>4. rs[u].crashed <= rs[u + k].crashed
    BY <1>2, <2>1, <2>2, <2>3
  <2> QED BY <2>4
<1>5. n \in S
  <2>1. \A k \in 1..n : k - 1 \in S => k \in S
    BY <1>4
  <2> HIDE DEF S
  <2>2. \A k \in 0..n : k \in S
    BY <1>1, <1>3, <2>1, UpTo
  <2> QED BY <1>1, <2>2
<1> QED BY <1>1, <1>5

\* The first and the last place of an id that occurs.
LEMMA PlacesOfId ==
  ASSUME NEW rs \in Seq(SimRounds), NEW p \in 1..Len(rs), NEW id, rs[p].id = id
  PROVE  /\ FirstPlace(rs, id) \in 1..p /\ rs[FirstPlace(rs, id)].id = id
         /\ LastPlace(rs, id) \in p..Len(rs) /\ rs[LastPlace(rs, id)].id = id
<1> DEFINE n == Len(rs)
           S == {i \in 1..n : rs[i].id = id}
<1>1. n \in Nat /\ DOMAIN rs = 1..n /\ p \in S /\ S \in SUBSET (0..n) /\ S # {}
  OBVIOUS
<1>2. PICK f \in S : \A y \in S : ~(y < f)
  <2> HIDE DEF S
  <2> QED BY <1>1, LeastOf
<1>3. PICK l \in S : \A y \in S : l >= y
  <2> HIDE DEF S
  <2> QED BY <1>1, MaxExists
<1>4. f \in DOMAIN rs /\ rs[f].id = id /\ \A j \in 1..(f - 1) : rs[j].id # id
  BY <1>1, <1>2
<1>5. l \in DOMAIN rs /\ rs[l].id = id /\ \A j \in (l + 1)..Len(rs) : rs[j].id # id
  BY <1>1, <1>3
<1>6. /\ FirstPlace(rs, id) \in DOMAIN rs /\ rs[FirstPlace(rs, id)].id = id
      /\ \A j \in 1..(FirstPlace(rs, id) - 1) : rs[j].id # id
  BY <1>4 DEF FirstPlace
<1>7. /\ LastPlace(rs, id) \in DOMAIN rs /\ rs[LastPlace(rs, id)].id = id
      /\ \A j \in (LastPlace(rs, id) + 1)..Len(rs) : rs[j].id # id
  BY <1>5 DEF LastPlace
<1> QED BY <1>1, <1>6, <1>7

\* Whatever the rounds: a data set that is built is sound.
LEMMA BuiltIsSound ==
  ASSUME NEW rs \in Seq(SimRounds), NEW m \in Nat, BuildDataset(rs, m).built
  PROVE  LET rows == BuildDataset(rs, m).rows IN
         /\ Len(rows) = LargerOf(0, Len(rs) - m)
         /\ \A i \in DOMAIN rows :
              /\ FirstPlace(rs, rows[i].id) = rows[i].place /\ LastPlace(rs, rows[i].id) = rows[i].place
              /\ rows[i].time <= rs[rows[i].place].crashed
              /\ \A u \in rows[i].uses : u < rows[i].place /\ rs[u].crashed <= rs[rows[i].place].crashed
<1> DEFINE rows == BuildSequence(rs, m)
           k == LargerOf(0, Len(rs) - m)
<1>1. /\ AssertChronological(rs) /\ ~IdsRefused(rs, rows, m) /\ ~DetectLeakage(rs, rows, m)
      /\ BuildDataset(rs, m).rows = rows
  BY Zenon DEF BuildDataset
<1>2. k \in Nat /\ (k > 0 => k = Len(rs) - m) /\ Len(rs) \in Nat
  BY DEF LargerOf
<1>3. /\ rows = [i \in 1..k |->
                   [place |-> i + m, id |-> rs[i + m].id, uses |-> 1..(i + m - 1), time |-> FeatureTime(rs[i + m])]]
      /\ DOMAIN rows = 1..k
  BY DEF BuildSequence
<1> HIDE DEF k
<1>4. Len(rows) = k
  <2>1. \A r : r = [i \in 1..k |-> r[i]] => Len(r) = k
    BY <1>2
  <2>2. rows = [i \in 1..k |-> rows[i]]
    BY <1>3
  <2> HIDE DEF rows
  <2> QED BY <2>1, <2>2
<1>5. \A i \in 1..k : /\ rows[i].place = i + m /\ rows[i].id = rs[i + m].id
                      /\ rows[i].uses = 1..(i + m - 1) /\ i + m \in 1..Len(rs)
  BY <1>2, <1>3
<1> HIDE DEF rows
<1>6. /\ \A i, j \in 1..k : i # j => rows[i].id # rows[j].id
      /\ \A i \in 1..k : ~(FirstPlace(rs, rows[i].id) <= m)
  BY <1>1, <1>3 DEF IdsRefused
<1>7. \A i \in 1..k : ~(rows[i].time > Label(rs, rows[i]).crashed)
  BY <1>1, <1>3 DEF DetectLeakage
<1>8. ASSUME NEW i \in 1..k
      PROVE  /\ FirstPlace(rs, rows[i].id) = rows[i].place /\ LastPlace(rs, rows[i].id) = rows[i].place
             /\ rows[i].time <= rs[rows[i].place].crashed
             /\ \A u \in rows[i].uses : u < rows[i].place /\ rs[u].crashed <= rs[rows[i].place].crashed
  <2> DEFINE p == i + m
             id == rows[i].id
             f == FirstPlace(rs, id)
             l == LastPlace(rs, id)
  <2>1. p \in 1..Len(rs) /\ rs[p].id = id /\ rows[i].place = p /\ rows[i].uses = 1..(p - 1)
    BY <1>5
  <2>2. f \in 1..p /\ rs[f].id = id /\ l \in p..Len(rs) /\ rs[l].id = id
    BY <2>1, PlacesOfId
  <2>3. f > m
    BY <1>6, <2>2
  <2> HIDE DEF f, l
  <2>4. f - m \in 1..k /\ (f - m) + m = f
    BY <1>2, <2>1, <2>2, <2>3
  <2>5. rows[f - m].id = id
    BY <1>5, <2>2, <2>4
  <2>6. f = p
    <3>1. f - m = i
      BY <1>6, <2>4, <2>5
    <3> QED BY <2>4, <3>1
  <2>7. l - m \in 1..k /\ (l - m) + m = l
    BY <1>2, <2>1, <2>2, SMTT(30)
  <2>8. rows[l - m].id = id
    BY <1>5, <2>2, <2>7
  <2>9. l = p
    <3>1. l - m = i
      BY <1>6, <2>7, <2>8
    <3> QED BY <2>7, <3>1
  <2>10. rows[i].time <= rs[p].crashed
    <3>1. Label(rs, rows[i]) = rs[p]
      BY <2>6 DEF Label, f
    <3>2. ~(rows[i].time > rs[p].crashed)
      BY <1>7, <3>1
    <3>3. rs[p] \in SimRounds
      BY <2>1, ElementOfSeq
    <3>4. rs[p].crashed \in Int /\ rs[p].started \in Int
      BY <3>3 DEF SimRounds
    <3>5. rows[i].time = FeatureTime(rs[p])
      BY <1>3 DEF rows
    <3>6. rows[i].time \in Int
      BY <3>4, <3>5 DEF FeatureTime
    <3> QED BY <3>2, <3>4, <3>6
  <2>11. ASSUME NEW u \in 1..(p - 1)
         PROVE  u < p /\ rs[u].crashed <= rs[p].crashed
    <3>1. u \in 1..Len(rs) /\ u <= p /\ u < p
      BY <2>1
    <3> QED BY <1>1, <2>1, <3>1, InOrderThroughout
  <2> QED BY <2>1, <2>6, <2>9, <2>10, <2>11 DEF f, l
<1> QED BY <1>1, <1>3, <1>4, <1>8 DEF k

\* So the set that is built of them is sound.
LEMMA DatasetInvImplies == DatasetInv => DatasetIsSound
<1> SUFFICES ASSUME DatasetInv, BuildDataset(rounds, MinHistory).built
             PROVE  LET d == BuildDataset(rounds, MinHistory) IN
                    /\ Len(d.rows) = LargerOf(0, Len(rounds) - MinHistory)
                    /\ \A i \in DOMAIN d.rows :
                         LET row == d.rows[i] IN
                         /\ FirstPlace(rounds, row.id) = row.place /\ LastPlace(rounds, row.id) = row.place
                         /\ row.time <= rounds[row.place].crashed
                         /\ \A u \in row.uses : u < row.place /\ rounds[u].crashed <= rounds[row.place].crashed
  BY DEF DatasetIsSound
<1>1. rounds \in Seq(SimRounds) /\ MinHistory \in Nat
  BY ValidationAssumption DEF DatasetInv
<1> QED BY <1>1, BuiltIsSound

(* A data set that is built, of whatever rounds, labels each row with the  *)
(* outcome of its own round, from features of earlier rounds known no      *)
(* later. (datasets/dataset-builder.ts build)                              *)
THEOREM DatasetsAreSound == ValidationInit /\ [][DatasetNext]_datasetVars => []DatasetIsSound
BY DatasetInitInv, DatasetNextInv, DatasetInvImplies, PTL
-----------------------------------------------------------------------------
(* The windows of a walk-forward.                                          *)
\* The history that a part's rows need is within the part before it.
LEMMA HistoryFits ==
  ASSUME NEW size \in Nat, NEW tenths \in {4, 5}
  PROVE  HistoryFor(size, tenths) \in 0..size
<1>1. CASE tenths = 4
  <2>1. (size * 4) \div 10 \in 0..size
    OBVIOUS
  <2> QED BY <1>1, <2>1 DEF HistoryFor
<1>2. CASE tenths = 5
  <2>1. (size * 5) \div 10 \in 0..size
    OBVIOUS
  <2> QED BY <1>2, <2>1 DEF HistoryFor
<1> QED BY <1>1, <1>2

\* The rows that are scored are those of the part, each from earlier places.
LEMMA RowsOfPart ==
  ASSUME NEW s \in Nat, NEW before \in Nat, NEW size \in Nat
  PROVE  /\ {r.place : r \in ScoredRows(s, before, size, 5)} = Places(s + before, size)
         /\ \A r \in ScoredRows(s, before, size, 5) :
              r.place \in Places(s + before, size) /\ r.uses = Places(s, r.place - s - 1)
<1> DEFINE h == HistoryFor(before, 5)
           row(i) == [place |-> i, uses |-> Places(s, i - s - 1)]
           all == {row(i) : i \in (s + h + 1)..(s + before + size)}
<1>1. h \in 0..before
  BY HistoryFits
<1>2. RowsOfAll(s, before, size, 5) = all
  BY DEF RowsOfAll
<1>3. ScoredRows(s, before, size, 5) = {r \in all : r.place \in Places(s + before, size)}
  BY <1>2 DEF ScoredRows
<1> HIDE DEF h
<1>4. ASSUME NEW p \in Places(s + before, size)
      PROVE  row(p) \in all /\ row(p).place = p
  <2>1. p \in (s + h + 1)..(s + before + size)
    BY <1>1 DEF Places
  <2> QED BY <2>1
<1>5. ASSUME NEW r \in all
      PROVE  r.uses = Places(s, r.place - s - 1)
  OBVIOUS
<1> HIDE DEF all, row
<1> QED BY <1>3, <1>4, <1>5

\* The rounds before a place are before it.
LEMMA EarlierOnly ==
  ASSUME NEW s \in Nat, NEW p \in Int
  PROVE  \A u \in Places(s, p - s - 1) : u < p
BY DEF Places

\* Two windows start a whole number of steps apart.
LEMMA StepsApart ==
  ASSUME NEW k \in Nat, NEW l \in Nat, NEW step \in Nat, k < l
  PROVE  k * step + step <= l * step
<1>1. PICK d \in Nat : l = k + 1 + d
  <2>1. l - k - 1 \in Nat /\ l = k + 1 + (l - k - 1)
    OBVIOUS
  <2> QED BY <2>1
<1>2. l * step = k * step + step + d * step
  BY <1>1
<1>3. d * step \in Nat /\ k * step \in Nat
  OBVIOUS
<1> QED BY <1>2, <1>3

\* What WindowsAreHonest says of the windows of some sizes, here for any.
Honest(n, train, val, test, step) ==
  LET starts == Starts(n, train, val, test, step)
      window(s) == WindowOf(s, train, val, test)
      PlacesOf(rows) == {r.place : r \in rows}
  IN
  /\ \A s \in starts :
       /\ PlacesOf(window(s).validated) = Places(s + train, val)
       /\ PlacesOf(window(s).tested) = Places(s + train + val, test)
       /\ \A i \in window(s).fitted, r \in window(s).validated : i < r.place
       /\ \A r \in window(s).validated \cup window(s).tested \cup AcieTested(s, train, test) :
            \A u \in r.uses : u < r.place
  /\ step >= test =>
       \A s, z \in starts : s # z =>
         PlacesOf(window(s).tested) \cap PlacesOf(window(z).tested) = {}

(* Walk-forward looks at no round before its time, for every number of     *)
(* rounds and every size of the parts. (backtesting/walk-forward.ts)       *)
THEOREM WalkForwardIsHonest ==
  ASSUME NEW n \in Nat, NEW train \in Nat, NEW val \in Nat, NEW test \in Nat, NEW step \in Nat
  PROVE  Honest(n, train, val, test, step)
<1> DEFINE starts == Starts(n, train, val, test, step)
           PlacesOf(rows) == {r.place : r \in rows}
<1>1. \A s \in starts : s \in Nat /\ \E k \in Nat : s = k * step
  BY DEF Starts
<1>2. ASSUME NEW s \in Nat
      PROVE  LET w == WindowOf(s, train, val, test) IN
             /\ PlacesOf(w.validated) = Places(s + train, val)
             /\ PlacesOf(w.tested) = Places(s + train + val, test)
             /\ \A i \in w.fitted, r \in w.validated : i < r.place
             /\ \A r \in w.validated \cup w.tested \cup AcieTested(s, train, test) :
                  \A u \in r.uses : u < r.place
  <2> DEFINE w == WindowOf(s, train, val, test)
  <2>1. /\ w.fitted \subseteq Places(s, train)
        /\ w.validated = ScoredRows(s, train, val, 5)
        /\ w.tested = ScoredRows(s, train + val, test, 5)
    BY DEF WindowOf
  <2> HIDE DEF w
  <2>2. /\ PlacesOf(w.validated) = Places(s + train, val)
        /\ \A r \in w.validated : r.place \in Places(s + train, val) /\ r.uses = Places(s, r.place - s - 1)
    <3>1. /\ {r.place : r \in ScoredRows(s, train, val, 5)} = Places(s + train, val)
          /\ \A r \in ScoredRows(s, train, val, 5) :
               r.place \in Places(s + train, val) /\ r.uses = Places(s, r.place - s - 1)
      BY RowsOfPart
    <3> QED BY <2>1, <3>1
  <2>3. /\ PlacesOf(w.tested) = Places(s + (train + val), test)
        /\ \A r \in w.tested : r.place \in Places(s + (train + val), test) /\ r.uses = Places(s, r.place - s - 1)
    <3>1. train + val \in Nat
      OBVIOUS
    <3> QED BY <2>1, <3>1, RowsOfPart
  <2>4. s + (train + val) = s + train + val
    OBVIOUS
  <2>5. \A i \in w.fitted, r \in w.validated : i < r.place
    <3>1. \A i \in Places(s, train), p \in Places(s + train, val) : i < p
      BY DEF Places
    <3> QED BY <2>1, <2>2, <3>1
  <2>6. \A r \in w.validated \cup w.tested : \A u \in r.uses : u < r.place
    <3>1. \A p \in Places(s + train, val) \cup Places(s + (train + val), test) : p \in Int
      BY DEF Places
    <3> QED BY <2>2, <2>3, <3>1, EarlierOnly
  <2>7. \A r \in AcieTested(s, train, test) : \A u \in r.uses : u < r.place
    BY DEF AcieTested, Places
  <2>8. \A r \in w.validated \cup w.tested \cup AcieTested(s, train, test) : \A u \in r.uses : u < r.place
    BY <2>6, <2>7
  <2> QED BY <2>2, <2>3, <2>4, <2>5, <2>8 DEF w
<1>3. ASSUME step >= test, NEW s \in starts, NEW z \in starts, s # z
      PROVE  PlacesOf(WindowOf(s, train, val, test).tested) \cap PlacesOf(WindowOf(z, train, val, test).tested) = {}
  <2>1. PICK k \in Nat : s = k * step
    BY <1>1
  <2>2. PICK l \in Nat : z = l * step
    BY <1>1
  <2>3. s \in Nat /\ z \in Nat
    BY <1>1
  <2>4. s + step <= z \/ z + step <= s
    <3>1. CASE k < l
      BY <2>1, <2>2, <3>1, StepsApart
    <3>2. CASE l < k
      BY <2>1, <2>2, <3>2, StepsApart
    <3>3. k # l
      BY <1>3, <2>1, <2>2
    <3> QED BY <3>1, <3>2, <3>3
  <2>5. /\ PlacesOf(WindowOf(s, train, val, test).tested) = Places(s + train + val, test)
        /\ PlacesOf(WindowOf(z, train, val, test).tested) = Places(z + train + val, test)
    BY <1>2, <2>3
  <2>6. Places(s + train + val, test) \cap Places(z + train + val, test) = {}
    BY <1>3, <2>3, <2>4 DEF Places
  <2> QED BY <2>5, <2>6
<1> HIDE DEF starts
<1>4. \A s \in starts : s \in Nat
  BY <1>1
<1> QED BY <1>2, <1>3, <1>4 DEF Honest, starts

\* The bounded instance that the property checks.
LEMMA WindowsFollow == WindowsAreHonest
<1> SUFFICES ASSUME NEW n \in 4..8, NEW train \in 1..4, NEW val \in 1..2, NEW test \in 1..2, NEW step \in 1..3
             PROVE  Honest(n, train, val, test, step)
  BY DEF WindowsAreHonest, Honest
<1> QED BY WalkForwardIsHonest
-----------------------------------------------------------------------------
(* The blend of the models and their weights.                              *)

\* A weight adds to both sums, between the least and the greatest of what it weighs.
LEMMA WeighedBetween ==
  ASSUME NEW lo \in Int, NEW hi \in Int, NEW w \in Nat, NEW p \in Int, lo <= p, p <= hi,
         NEW a \in Int, NEW b \in Int, lo * a <= b, b <= hi * a
  PROVE  lo * (a + w) <= b + w * p /\ b + w * p <= hi * (a + w)
<1>1. lo * w <= w * p /\ w * p <= hi * w
  OBVIOUS
<1>2. lo * (a + w) = lo * a + lo * w /\ hi * (a + w) = hi * a + hi * w
  OBVIOUS
<1>3. lo * a \in Int /\ lo * w \in Int /\ hi * a \in Int /\ hi * w \in Int /\ w * p \in Int
  OBVIOUS
<1> QED BY <1>1, <1>2, <1>3

\* A quotient is between the numbers whose multiples its dividend is between.
LEMMA QuotientBetween ==
  ASSUME NEW lo \in Int, NEW hi \in Int, NEW a \in Nat \ {0}, NEW b \in Int,
         lo * a <= b, b <= hi * a
  PROVE  b \div a \in lo..hi
<1>1. PICK q \in Int, r \in 0..(a - 1) : b = a * q + r /\ q = b \div a
  OBVIOUS
<1>2. q >= lo
  <2>1. SUFFICES ASSUME q <= lo - 1 PROVE FALSE
    OBVIOUS
  <2>2. a * q <= a * (lo - 1)
    BY <2>1
  <2>3. a * (lo - 1) = lo * a - a
    OBVIOUS
  <2> QED BY <1>1, <2>2, <2>3
<1>3. q <= hi
  <2>1. SUFFICES ASSUME q >= hi + 1 PROVE FALSE
    OBVIOUS
  <2>2. a * q >= a * (hi + 1)
    BY <2>1
  <2>3. a * (hi + 1) = hi * a + a
    OBVIOUS
  <2> QED BY <1>1, <2>2, <2>3
<1> QED BY <1>1, <1>2, <1>3

\* A number is clamped to the bounds or left as it is.
LEMMA ClampedBetween ==
  ASSUME NEW x \in Int, NEW low \in Int, NEW high \in Int, low <= high
  PROVE  Clamp(x, low, high) = IF x < low THEN low ELSE IF x > high THEN high ELSE x
<1> DEFINE least == IF x < high THEN x ELSE high
           most == IF least > low THEN least ELSE low
<1>1. Min({high, x}) = least
  <2>1. least \in {high, x} /\ \A y \in {high, x} : least <= y
    OBVIOUS
  <2>2. {high, x} \in SUBSET Int
    OBVIOUS
  <2> HIDE DEF least
  <2> QED BY <2>1, <2>2, MinIs
<1>2. Max({low, least}) = most
  <2>1. most \in {low, least} /\ \A y \in {low, least} : most >= y
    OBVIOUS
  <2>2. {low, least} \in SUBSET Int
    OBVIOUS
  <2> HIDE DEF least, most
  <2> QED BY <2>1, <2>2, MaxIs
<1>3. Clamp(x, low, high) = most
  BY <1>1, <1>2, Zenon DEF Clamp
<1> QED BY <1>3

\* The blend of any models is between any bounds of theirs.
LEMMA BlendWithin ==
  ASSUME NEW n \in Nat, NEW weights \in [1..n -> Nat], NEW k \in 1..n, weights[k] > 0,
         NEW probabilities \in [1..n -> Int], NEW lo \in Int, NEW hi \in Int,
         \A i \in 1..n : lo <= probabilities[i] /\ probabilities[i] <= hi,
         lo <= 990, hi >= 10
  PROVE  Blend(probabilities, weights) \in lo..hi
<1>0. PICK weighed : weighed = [i \in 1..n |-> weights[i] * probabilities[i]]
  OBVIOUS
<1>1. /\ weighed \in [1..n -> Int] /\ weights \in [1..n -> Int] /\ DOMAIN weights = 1..n
      /\ \A i \in 1..n : weighed[i] = weights[i] * probabilities[i]
  BY <1>0
<1>2. PICK f, g : /\ SumsOf(f, n, weights) /\ f[n] = Total(weights)
                  /\ SumsOf(g, n, weighed) /\ g[n] = Total(weighed)
  <2> QED BY <1>1, PartialSums
<1>3. /\ f \in [0..n -> Int] /\ g \in [0..n -> Int] /\ f[0] = 0 /\ g[0] = 0
      /\ \A i \in 1..n : f[i] = f[i - 1] + weights[i]
      /\ \A i \in 1..n : g[i] = g[i - 1] + weighed[i]
  BY <1>2, Zenon DEF SumsOf
<1> DEFINE S == {i \in 0..n : /\ f[i] >= 0 /\ lo * f[i] <= g[i] /\ g[i] <= hi * f[i]
                              /\ i >= k => f[i] >= 1}
<1>4. ASSUME NEW i \in 1..n, i - 1 \in S PROVE i \in S
  <2>1. i - 1 \in 0..n /\ weights[i] \in Nat /\ probabilities[i] \in Int
    OBVIOUS
  <2>2. PICK a \in Int, b \in Int, w \in Nat, q \in Int :
          a = f[i - 1] /\ b = g[i - 1] /\ w = weights[i] /\ q = probabilities[i]
    BY <1>3, <2>1
  <2>3. /\ a >= 0 /\ lo * a <= b /\ b <= hi * a /\ lo <= q /\ q <= hi
        /\ (i - 1 >= k => a >= 1)
    BY <1>4, <2>2
  <2>4. lo * (a + w) <= b + w * q /\ b + w * q <= hi * (a + w)
    BY <2>3, WeighedBetween
  <2>5. f[i] = a + w /\ g[i] = b + w * q
    BY <1>1, <1>3, <2>2
  <2>6. i = k => w >= 1
    BY <2>2
  <2>7. i >= k => a + w >= 1
    BY <2>3, <2>6
  <2>8. a + w >= 0
    BY <2>3
  <2> QED BY <2>4, <2>5, <2>7, <2>8
<1>5. \A i \in 0..n : i \in S
  <2>1. 0 \in S
    <3>1. 0 \in 0..n /\ ~(0 >= k) /\ lo * 0 = 0 /\ hi * 0 = 0
      OBVIOUS
    <3>2. f[0] = 0 /\ g[0] = 0
      BY <1>3, Zenon
    <3>3. f[0] >= 0 /\ lo * f[0] <= g[0] /\ g[0] <= hi * f[0]
      BY <3>1, <3>2
    <3> QED BY <3>1, <3>3, Zenon
  <2>2. \A i \in 1..n : i - 1 \in S => i \in S
    BY <1>4
  <2> HIDE DEF S
  <2> QED BY <2>1, <2>2, UpTo
<1>6. PICK tot \in Nat \ {0}, sum \in Int : /\ tot = Total(weights) /\ sum = Total(weighed)
                                            /\ lo * tot <= sum /\ sum <= hi * tot
  <2>1. n \in S /\ f[n] \in Int /\ g[n] \in Int
    BY <1>3, <1>5
  <2>2. f[n] \in Nat \ {0} /\ lo * f[n] <= g[n] /\ g[n] <= hi * f[n]
    BY <2>1
  <2> QED BY <1>2, <2>1, <2>2, Zenon
<1>7. PICK q \in lo..hi : q = sum \div tot
  BY <1>6, QuotientBetween
<1>8. Blend(probabilities, weights) = Clamp(q, 10, 990)
  <2>1. Blend(probabilities, weights)
          = Clamp(Total([i \in DOMAIN weights |-> weights[i] * probabilities[i]]) \div Total(weights), 10, 990)
    BY DEF Blend, ClampP, Total
  <2>2. [i \in DOMAIN weights |-> weights[i] * probabilities[i]] = weighed
    BY <1>0, <1>1
  <2> QED BY <1>6, <1>7, <2>1, <2>2, ZenonT(30)
<1>9. Clamp(q, 10, 990) = IF q < 10 THEN 10 ELSE IF q > 990 THEN 990 ELSE q
  BY ClampedBetween
<1> QED BY <1>8, <1>9

\* What the weight of a model is multiplied by, by its error.
Factors == [e \in Nat |-> 900 + Clamp(100 - 3 * e * e, 5, 100)]
\* It is 900 and at least 5, at most 100: what the square of the error leaves
\* of 100.
LEMMA FactorIs ==
  ASSUME NEW e \in Nat, NEW s \in Nat, s = 3 * e * e
  PROVE  Factors[e] = 900 + (IF 100 - s < 5 THEN 5 ELSE IF 100 - s > 100 THEN 100 ELSE 100 - s)
<1>1. PICK x \in Int : x = 100 - 3 * e * e
  OBVIOUS
<1>2. x = 100 - s
  BY <1>1
<1>3. Clamp(x, 5, 100) = IF x < 5 THEN 5 ELSE IF x > 100 THEN 100 ELSE x
  BY ClampedBetween
<1>4. Factors[e] = 900 + Clamp(x, 5, 100)
  BY <1>1 DEF Factors
<1> QED BY <1>2, <1>3, <1>4

\* It is less, the larger the error.
LEMMA FactorsFall ==
  /\ \A e \in Nat : Factors[e] \in Nat /\ Factors[e] > 0
  /\ \A d, e \in Nat : d <= e => Factors[d] >= Factors[e]
<1>1. ASSUME NEW e \in Nat PROVE Factors[e] \in Nat /\ Factors[e] > 0
  <2>1. PICK s \in Nat : s = 3 * e * e
    OBVIOUS
  <2>2. Factors[e] = 900 + (IF 100 - s < 5 THEN 5 ELSE IF 100 - s > 100 THEN 100 ELSE 100 - s)
    BY <2>1, FactorIs
  <2> QED BY <2>2
<1>2. ASSUME NEW d \in Nat, NEW e \in Nat, d <= e PROVE Factors[d] >= Factors[e]
  <2>1. PICK s \in Nat, t \in Nat : s = 3 * d * d /\ t = 3 * e * e /\ s <= t
    <3>1. d * d \in Nat /\ e * e \in Nat /\ d * d <= e * e
      BY <1>2
    <3>2. 3 * d * d = 3 * (d * d) /\ 3 * e * e = 3 * (e * e)
      OBVIOUS
    <3> QED BY <3>1, <3>2
  <2>2. Factors[d] = 900 + (IF 100 - s < 5 THEN 5 ELSE IF 100 - s > 100 THEN 100 ELSE 100 - s)
    BY <2>1, FactorIs
  <2>3. Factors[e] = 900 + (IF 100 - t < 5 THEN 5 ELSE IF 100 - t > 100 THEN 100 ELSE 100 - t)
    BY <2>1, FactorIs
  <2> QED BY <2>1, <2>2, <2>3
<1> QED BY <1>1, <1>2

\* A product grows with a factor of it.
LEMMA ProductGrows ==
  ASSUME NEW m \in Nat, NEW f \in Nat, NEW g \in Nat, f >= g
  PROVE  m * f >= m * g
OBVIOUS

\* Two products with the same numbers compare as their other factors do.
LEMMA CrossProducts ==
  ASSUME NEW a \in Nat, NEW b \in Nat, NEW f \in Nat, NEW g \in Nat, f >= g
  PROVE  (a * f) * b >= (b * g) * a
<1>1. PICK m \in Nat : m = a * b
  OBVIOUS
<1>2. m * f >= m * g
  BY ProductGrows
<1>3. (a * f) * b = m * f /\ (b * g) * a = m * g
  BY <1>1
<1>4. m * f \in Nat /\ m * g \in Nat
  OBVIOUS
<1> QED BY <1>2, <1>3, <1>4

\* What the weights are after a round, and how two of them compare then.
LEMMA ReweightedIs ==
  ASSUME NEW n \in Nat, NEW weights \in [1..n -> Nat], NEW k \in 1..n, weights[k] > 0,
         NEW errors \in [1..n -> Nat]
  PROVE  LET after == Reweighted(weights, errors) IN
         /\ after \in [1..n -> Nat]
         /\ after[k] > 0
         /\ \A i, j \in 1..n : errors[i] <= errors[j] => after[i] * weights[j] >= after[j] * weights[i]
<1>1. PICK after : after = Reweighted(weights, errors)
  OBVIOUS
<1>2. \A i \in 1..n : weights[i] \in Nat /\ errors[i] \in Nat
  OBVIOUS
<1>3. PICK factors : factors = [i \in 1..n |-> Factors[errors[i]]]
  OBVIOUS
<1>4. \A i \in 1..n : factors[i] = Factors[errors[i]]
  BY <1>3, Zenon
<1>5. \A i \in 1..n : factors[i] \in Nat /\ factors[i] > 0
  <2> SUFFICES ASSUME NEW i \in 1..n PROVE factors[i] \in Nat /\ factors[i] > 0
    OBVIOUS
  <2>1. PICK e \in Nat : e = errors[i]
    BY <1>2, Zenon
  <2>2. Factors[e] \in Nat /\ Factors[e] > 0
    BY FactorsFall
  <2>3. factors[i] = Factors[e]
    BY <1>4, <2>1, Zenon
  <2> QED BY <2>2, <2>3
<1>6. \A i \in 1..n : after[i] = weights[i] * factors[i]
  <2>1. DOMAIN weights = 1..n
    OBVIOUS
  <2>2. \A i \in 1..n : Factors[errors[i]] = 900 + Clamp(100 - 3 * errors[i] * errors[i], 5, 100)
    BY <1>2, Zenon DEF Factors
  <2>3. \A i \in 1..n : after[i] = weights[i] * (900 + Clamp(100 - 3 * errors[i] * errors[i], 5, 100))
    BY <1>1, <2>1, Zenon DEF Reweighted
  <2> SUFFICES ASSUME NEW i \in 1..n PROVE after[i] = weights[i] * factors[i]
    OBVIOUS
  <2>4. PICK c : c = 900 + Clamp(100 - 3 * errors[i] * errors[i], 5, 100)
    OBVIOUS
  <2>5. factors[i] = c
    BY <1>4, <2>2, <2>4
  <2>6. after[i] = weights[i] * c
    BY <2>3, <2>4
  <2> QED BY <2>5, <2>6, Zenon
<1>7. \A i, j \in 1..n : errors[i] <= errors[j] => factors[i] >= factors[j]
  <2> SUFFICES ASSUME NEW i \in 1..n, NEW j \in 1..n, errors[i] <= errors[j] PROVE factors[i] >= factors[j]
    OBVIOUS
  <2>1. errors[i] \in Nat /\ errors[j] \in Nat
    BY <1>2, Zenon
  <2>2. Factors[errors[i]] >= Factors[errors[j]]
    BY <2>1, FactorsFall
  <2> QED BY <1>4, <2>2
<1>8. after \in [1..n -> Nat]
  <2>1. DOMAIN weights = 1..n
    OBVIOUS
  <2>2. after = [i \in 1..n |-> after[i]]
    BY <1>1, <2>1, ZenonT(30) DEF Reweighted
  <2>3. ASSUME NEW i \in 1..n PROVE after[i] \in Nat
    <3>1. PICK a \in Nat : a = weights[i]
      BY <1>2, Zenon
    <3>2. PICK f \in Nat : f = factors[i]
      BY <1>5, Zenon
    <3>3. a * f \in Nat
      OBVIOUS
    <3> QED BY <1>6, <3>1, <3>2, <3>3, Zenon
  <2> QED BY <2>2, <2>3, Zenon
<1>9. after[k] > 0
  <2>1. PICK a \in Nat \ {0} : a = weights[k]
    OBVIOUS
  <2>2. PICK f \in Nat \ {0} : f = factors[k]
    BY <1>5
  <2>3. a * f > 0
    OBVIOUS
  <2>4. after[k] = a * f
    BY <1>6, <2>1, <2>2, Zenon
  <2> QED BY <2>3, <2>4
<1>10. ASSUME NEW i \in 1..n, NEW j \in 1..n, errors[i] <= errors[j]
       PROVE  after[i] * weights[j] >= after[j] * weights[i]
  <2>1. factors[i] >= factors[j]
    BY <1>7, <1>10
  <2>2. PICK a \in Nat : a = weights[i]
    BY <1>2, Zenon
  <2>3. PICK b \in Nat : b = weights[j]
    BY <1>2, Zenon
  <2>4. PICK f \in Nat : f = factors[i]
    BY <1>5, Zenon
  <2>5. PICK g \in Nat : g = factors[j]
    BY <1>5, Zenon
  <2>6. f >= g
    BY <2>1, <2>4, <2>5
  <2>7. (a * f) * b >= (b * g) * a
    BY <2>6, CrossProducts
  <2>8. after[i] = a * f /\ after[j] = b * g
    BY <1>6, <2>2, <2>3, <2>4, <2>5, Zenon
  <2> QED BY <2>2, <2>3, <2>7, <2>8
<1> QED BY <1>1, <1>8, <1>9, <1>10, Zenon

(* What BlendIsBetween checks on samples, for any number of models, any    *)
(* weights that are not all zero, any probabilities and any errors: the    *)
(* blend lies between any bounds of its models that overlap 10 to 990,     *)
(* before and after the weights were corrected, and a model with the       *)
(* larger error never gains weight over one with the smaller.  (psi.ts,    *)
(* online-state.ts)                                                        *)
THEOREM BlendStaysBetween ==
  ASSUME NEW n \in Nat, NEW weights \in [1..n -> Nat], NEW k \in 1..n, weights[k] > 0,
         NEW probabilities \in [1..n -> Int], NEW lo \in Int, NEW hi \in Int,
         \A i \in 1..n : lo <= probabilities[i] /\ probabilities[i] <= hi,
         lo <= 990, hi >= 10, NEW errors \in [1..n -> Nat]
  PROVE  LET after == Reweighted(weights, errors) IN
         /\ Blend(probabilities, weights) \in lo..hi
         /\ Blend(probabilities, after) \in lo..hi
         /\ \A i, j \in 1..n : errors[i] <= errors[j] => after[i] * weights[j] >= after[j] * weights[i]
<1>1. PICK after : after = Reweighted(weights, errors)
  OBVIOUS
<1>2. /\ after \in [1..n -> Nat] /\ after[k] > 0
      /\ \A i, j \in 1..n : errors[i] <= errors[j] => after[i] * weights[j] >= after[j] * weights[i]
  BY <1>1, ReweightedIs, Zenon
<1>3. Blend(probabilities, weights) \in lo..hi
  BY BlendWithin
<1>4. Blend(probabilities, after) \in lo..hi
  BY <1>2, BlendWithin, ZenonT(30)
<1> QED BY <1>1, <1>2, <1>3, <1>4, Zenon
-----------------------------------------------------------------------------
(* What is decided on the blend: the strategy, the target of an entry.     *)

\* Looks at a strategy with any numbers.
AnyContexts ==
  [mode : {"strict", "adaptive", "frequency_fallback"}, evidence : EvidenceLevels,
   regime : STRING, surely : BOOLEAN, used : Nat, p : Int, baseline : Int,
   uncertain : BOOLEAN, losses : Nat]

\* What has to be reached is a number, at least 520 before the day's pace lowers it.
LEMMA ThresholdIsHigh ==
  ASSUME NEW c \in AnyContexts
  PROVE  StrategyThreshold(c) \in Int /\ StrategyThreshold(c) >= 505
<1>1. PICK b \in Int : b = BaseThreshold(c.mode, c.evidence)
  <2>1. Max({620 - 20, 570}) = 600
    <3>1. {620 - 20, 570} \in SUBSET Int /\ 600 \in {620 - 20, 570} /\ \A y \in {620 - 20, 570} : 600 >= y
      OBVIOUS
    <3> QED BY <3>1, MaxIs
  <2> QED BY <2>1 DEF BaseThreshold
<1>2. PICK x \in Int : RegimeAdjustedThreshold(b, c.regime, c.surely) = Clamp(x, 520, 750)
  <2>1. PICK y \in Int : y = (IF c.regime \in {"deep-low", "low-cluster"} THEN -25
                              ELSE IF c.regime = "volatile" THEN 20
                              ELSE IF c.regime = "high-activity" THEN -10 ELSE 0)
    OBVIOUS
  <2>2. PICK z \in Int : z = (IF c.surely THEN 10 ELSE 0)
    OBVIOUS
  <2>3. RegimeAdjustedThreshold(b, c.regime, c.surely) = Clamp(b + y - z, 520, 750)
    BY <2>1, <2>2 DEF RegimeAdjustedThreshold
  <2> QED BY <2>3
<1>3. PICK t \in 520..750 : t = Clamp(x, 520, 750)
  <2>1. Clamp(x, 520, 750) = IF x < 520 THEN 520 ELSE IF x > 750 THEN 750 ELSE x
    BY ClampedBetween
  <2> QED BY <2>1
<1>4. Pacing(c.used, 8) \in {30, -15, 0}
  BY DEF Pacing
<1>5. StrategyThreshold(c) = t + Pacing(c.used, 8)
  <2>1. RegimeAdjustedThreshold(BaseThreshold(c.mode, c.evidence), c.regime, c.surely) = t
    BY <1>1, <1>2, <1>3
  <2> QED BY <2>1 DEF StrategyThreshold
<1> QED BY <1>4, <1>5

\* The actions there are, and what each takes.
LEMMA StrategyTakes ==
  ASSUME NEW c \in AnyContexts, StrategyOf(c).action # "SKIP" \/ StrategyOf(c).stake = FullStake
  PROVE  /\ ~(c.mode = "strict" /\ c.evidence \in {"DEGRADED", "INSUFFICIENT"})
         /\ ~(EffectiveProbability(c) < StrategyThreshold(c))
         /\ StrategyOf(c).stake = FullStake => ~ReduceStake(c)
<1>1. /\ [action |-> "SKIP", stake |-> 0].action = "SKIP" /\ [action |-> "SKIP", stake |-> 0].stake # FullStake
      /\ [action |-> "REDUCED_ENTRY", stake |-> ReducedStake].stake # FullStake
  BY DEF FullStake, ReducedStake
<1> QED BY <1>1, Zenon DEF StrategyOf

(* What StrategyIsCautious and NeverSupported check on samples, for any    *)
(* probability, baseline, losses and evidence: strict mode never enters on *)
(* poor evidence; whatever is entered has at least 505 in 1000; a full     *)
(* stake never follows five losses, nor uncertain odds without support;    *)
(* more probability never turns an entry into a skip; a plan without room  *)
(* gets nothing, and evidence whose two frequencies are one count is never *)
(* SUPPORTED.  (strategy.ts, entitlement.ts, safe.ts, evidence.ts)         *)
THEOREM StrategyStaysCautious ==
  ASSUME NEW c \in AnyContexts
  PROVE  /\ c.mode = "strict" /\ c.evidence \in {"DEGRADED", "INSUFFICIENT"} => StrategyOf(c).action = "SKIP"
         /\ StrategyOf(c).action # "SKIP" => EffectiveProbability(c) >= 505
         /\ StrategyOf(c).stake = FullStake => c.losses < 5 /\ (c.uncertain => c.evidence = "SUPPORTED")
         /\ \A p \in Int : StrategyOf(c).action # "SKIP" /\ p >= c.p
              => StrategyOf([c EXCEPT !.p = p]).action # "SKIP"
         /\ \A entered, limit \in Nat : entered >= limit => ~CrashDelivered(c, TRUE, entered, limit)
         /\ \A n, hits, predicted \in Int, good, bad \in BOOLEAN :
              EvidenceStatus(n, hits, predicted, good, bad) # "SUPPORTED"
<1>1. c.p \in Int /\ c.baseline \in Int /\ c.losses \in Nat
  BY DEF AnyContexts
<1>2. EffectiveProbability(c) \in Int
  BY <1>1 DEF EffectiveProbability
<1>3. c.mode = "strict" /\ c.evidence \in {"DEGRADED", "INSUFFICIENT"} => StrategyOf(c).action = "SKIP"
  BY StrategyTakes, Zenon
<1>4. ASSUME StrategyOf(c).action # "SKIP" PROVE EffectiveProbability(c) >= 505
  BY <1>2, <1>4, StrategyTakes, ThresholdIsHigh
<1>5. ASSUME StrategyOf(c).stake = FullStake
      PROVE  c.losses < 5 /\ (c.uncertain => c.evidence = "SUPPORTED")
  <2>1. ~ReduceStake(c)
    BY <1>5, StrategyTakes
  <2>2. c.losses < 5
    BY <1>1, <2>1 DEF ReduceStake
  <2>3. c.uncertain => c.evidence = "SUPPORTED"
    BY <2>1, Zenon DEF ReduceStake
  <2> QED BY <2>2, <2>3
<1>6. ASSUME NEW p \in Int, StrategyOf(c).action # "SKIP", p >= c.p
      PROVE  StrategyOf([c EXCEPT !.p = p]).action # "SKIP"
  <2>1. PICK d : d = [c EXCEPT !.p = p]
    OBVIOUS
  <2>2. /\ d \in AnyContexts /\ d.mode = c.mode /\ d.evidence = c.evidence /\ d.regime = c.regime
        /\ d.surely = c.surely /\ d.used = c.used /\ d.baseline = c.baseline /\ d.p = p
    BY <2>1 DEF AnyContexts
  <2>3. StrategyThreshold(d) = StrategyThreshold(c)
    BY <2>2, Zenon DEF StrategyThreshold
  <2>4. EffectiveProbability(d) \in Int /\ EffectiveProbability(d) >= EffectiveProbability(c)
    <3>1. EffectiveProbability(d) = IF c.mode = "frequency_fallback" /\ c.evidence \notin {"SUPPORTED", "WEAK"}
                                      THEN c.baseline ELSE p
      BY <2>2, Zenon DEF EffectiveProbability
    <3> QED BY <1>1, <1>6, <3>1 DEF EffectiveProbability
  <2>5. ~(EffectiveProbability(d) < StrategyThreshold(d))
    BY <1>2, <1>6, <2>3, <2>4, StrategyTakes, ThresholdIsHigh
  <2>6. ~(d.mode = "strict" /\ d.evidence \in {"DEGRADED", "INSUFFICIENT"})
    BY <1>6, <2>2, StrategyTakes, Zenon
  <2>7. StrategyOf(d) \in {[action |-> "REDUCED_ENTRY", stake |-> ReducedStake],
                           [action |-> "ENTRY", stake |-> FullStake]}
    BY <2>5, <2>6, Zenon DEF StrategyOf
  <2> QED BY <2>1, <2>7
<1>7. ASSUME NEW entered \in Nat, NEW limit \in Nat, entered >= limit
      PROVE  ~CrashDelivered(c, TRUE, entered, limit)
  BY <1>7 DEF CrashDelivered
<1>8. ASSUME NEW n \in Int, NEW hits \in Int, NEW predicted \in Int, NEW good \in BOOLEAN, NEW bad \in BOOLEAN
      PROVE  EvidenceStatus(n, hits, predicted, good, bad) # "SUPPORTED"
  <2>1. ~((hits - hits) * (hits - hits) > 0)
    OBVIOUS
  <2> QED BY <2>1, Zenon DEF EvidenceStatus, PsiActualFrequency
<1> QED BY <1>3, <1>4, <1>5, <1>6, <1>7, <1>8

\* The target of an entry: the default, or the better of the others.
LEMMA TargetIsBest ==
  ASSUME NEW ev \in [Targets -> Int], NEW confident \in BOOLEAN, NEW sampled \in BOOLEAN
  PROVE  LET t == SelectTarget(ev, confident, sampled) IN
         /\ t \in Targets /\ ev[t] >= ev["1.3"]
         /\ t # "1.3" => \A u \in Targets : ev[t] >= ev[u]
<1> DEFINE better == {t \in Targets \ {"1.3"} : confident /\ sampled /\ ev[t] >= ev["1.3"] + 1}
           best == {t \in better : \A u \in better : ev[t] >= ev[u]}
<1>1. PICK a \in Int, b \in Int, c \in Int : a = ev["1.3"] /\ b = ev["2.0"] /\ c = ev["5.0"]
  BY DEF Targets
<1>2. SelectTarget(ev, confident, sampled)
        = IF best = {} THEN "1.3" ELSE IF "2.0" \in best THEN "2.0" ELSE "5.0"
  BY DEF SelectTarget
<1>3. /\ "2.0" \in best => confident /\ sampled /\ b >= a + 1
      /\ "2.0" \in best /\ c >= a + 1 => b >= c
      /\ "5.0" \in best => confident /\ sampled /\ c >= a + 1
      /\ "5.0" \in best /\ b >= a + 1 => c >= b
  BY <1>1 DEF Targets
<1>4. best # {} => "2.0" \in best \/ "5.0" \in best
  BY DEF Targets
<1> HIDE DEF best, better
<1>5. PICK t : t = SelectTarget(ev, confident, sampled)
  OBVIOUS
<1>6. t = "1.3" \/ (t = "2.0" /\ "2.0" \in best) \/ (t = "5.0" /\ "5.0" \in best)
  BY <1>2, <1>4, <1>5, Zenon
<1>7. t \in Targets /\ ev[t] >= ev["1.3"] /\ (t # "1.3" => \A u \in Targets : ev[t] >= ev[u])
  BY <1>1, <1>3, <1>6 DEF Targets
<1> QED BY <1>5, <1>7

(* What EntryHasEdge checks on samples, for any numbers: nothing is        *)
(* entered unless the risk allows it, the probability exceeds the          *)
(* threshold and no quality is zero; the target selected is never worth    *)
(* less than the default, and one that is not the default is the best of   *)
(* all and needs more than one target to be enabled.  (prediction-         *)
(* pipeline.ts, multi-target-engine.ts)                                    *)
THEOREM EntriesHaveEdge ==
  /\ \A allowed \in BOOLEAN, prob, threshold \in Int : \A qualities :
       PipelineAction(allowed, prob, threshold, qualities) # "SKIP" =>
         allowed /\ prob > threshold /\ 0 \notin qualities
  /\ \A ev \in [Targets -> Int], confident, sampled, multi \in BOOLEAN :
       LET t == TargetOf(ev, confident, sampled, multi) IN
       /\ ev[t] >= ev["1.3"]
       /\ t # "1.3" => multi /\ \A u \in Targets : ev[t] >= ev[u]
  /\ EntryHasEdge
<1>1. ASSUME NEW allowed \in BOOLEAN, NEW prob \in Int, NEW threshold \in Int, NEW qualities,
             PipelineAction(allowed, prob, threshold, qualities) # "SKIP"
      PROVE  allowed /\ prob > threshold /\ 0 \notin qualities
  <2>1. allowed /\ ~(OpportunityScore(prob - threshold, qualities) <= 0)
    BY <1>1, Zenon DEF PipelineAction
  <2>2. ~(prob - threshold <= 0) /\ 0 \notin qualities
    BY <2>1 DEF OpportunityScore
  <2> QED BY <2>1, <2>2
<1>2. ASSUME NEW ev \in [Targets -> Int], NEW confident \in BOOLEAN, NEW sampled \in BOOLEAN,
             NEW multi \in BOOLEAN
      PROVE  LET t == TargetOf(ev, confident, sampled, multi) IN
             /\ ev[t] >= ev["1.3"]
             /\ t # "1.3" => multi /\ \A u \in Targets : ev[t] >= ev[u]
  <2>1. PICK t : t = TargetOf(ev, confident, sampled, multi)
    OBVIOUS
  <2>2. t = "1.3" \/ (multi /\ t = SelectTarget(ev, confident, sampled))
    BY <2>1, Zenon DEF TargetOf
  <2>3. ev["1.3"] >= ev["1.3"]
    BY DEF Targets
  <2>4. ev[t] >= ev["1.3"] /\ (t # "1.3" => multi /\ \A u \in Targets : ev[t] >= ev[u])
    BY <2>2, <2>3, TargetIsBest, Zenon
  <2> QED BY <2>1, <2>4
<1>3. EntryHasEdge
  <2>1. \A allowed \in BOOLEAN, prob, threshold \in 0..3, qualities \in SUBSET {0, 1} :
          PipelineAction(allowed, prob, threshold, qualities) # "SKIP" =>
            allowed /\ prob > threshold /\ 0 \notin qualities
    BY <1>1
  <2>2. \A ev \in [Targets -> 0..2] : ev \in [Targets -> Int]
    OBVIOUS
  <2>3. \A ev \in [Targets -> 0..2], confident, sampled, multi \in BOOLEAN :
          LET t == TargetOf(ev, confident, sampled, multi) IN
          /\ ev[t] >= ev["1.3"]
          /\ t # "1.3" => multi /\ \A u \in Targets : ev[t] >= ev[u]
    BY <1>2, <2>2, Zenon
  <2> QED BY <2>1, <2>3, Zenon DEF EntryHasEdge
<1> QED BY <1>1, <1>2, <1>3, Zenon
=============================================================================
