--------------------------- MODULE OnaImport_proofs ---------------------------
(***************************************************************************)
(* Theorems about OnaImport, for any number of submissions, pages of any   *)
(* size, jobs, redeliveries, dead workers and deletions.                   *)
(*                                                                         *)
(* The lock of the form makes the run in the loop the only one that moves  *)
(* the cursor, so what it has fetched (Fetched) starts at the cursor.  ONA *)
(* lists by offset: what is deleted behind the offset moves the list up,   *)
(* and as much of it may be passed over, but never more (NextPage).        *)
(***************************************************************************)
EXTENDS OnaImport, FiniteSetTheorems, WellFoundedInduction, TLAPS

-----------------------------------------------------------------------------
(* Numbers and sets of them.                                               *)

\* The greatest of a bounded set of numbers.
LEMMA Greatest ==
  ASSUME NEW S \in SUBSET Nat, S # {}, NEW n \in Nat, \A x \in S : x <= n
  PROVE  \E m \in S : \A x \in S : x <= m
<1> DEFINE T == {n - x : x \in S}
           Rel == OpToRel(<, Nat)
<1>1. T \subseteq Nat /\ T # {}
  <2>1. \A x \in S : n - x \in Nat
    OBVIOUS
  <2>2. \A u \in T : \E x \in S : u = n - x
    OBVIOUS
  <2>3. PICK x \in S : TRUE
    OBVIOUS
  <2>4. n - x \in T
    OBVIOUS
  <2>5. QED
    BY <2>1, <2>2, <2>4
<1>2. PICK t \in T : \A u \in T : ~(<<u, t>> \in Rel)
  BY <1>1, NatLessThanWellFounded, WFMin
<1>3. \A u \in T : ~(u < t)
  BY <1>1, <1>2 DEF OpToRel
<1>4. PICK m \in S : t = n - m
  OBVIOUS
<1>5. \A x \in S : x <= m
  <2> TAKE x \in S
  <2>1. n - x \in T
    OBVIOUS
  <2>2. ~(n - x < n - m)
    BY <1>3, <1>4, <2>1
  <2>3. QED
    BY <2>2
<1>6. QED
  BY <1>5

\* Sets of ids are finite, and a part has no more than the whole.
LEMMA Counted ==
  ASSUME NEW a \in Nat, NEW b \in Nat, NEW S \in SUBSET (a..b)
  PROVE  /\ IsFiniteSet(S) /\ Cardinality(S) \in Nat
         /\ \A T \in SUBSET S : IsFiniteSet(T) /\ Cardinality(T) \in Nat /\ Cardinality(T) <= Cardinality(S)
<1>1. IsFiniteSet(S)
  <2>1. a \in Int /\ b \in Int
    OBVIOUS
  <2>2. QED
    BY <2>1, FS_Interval, FS_Subset
<1>2. QED
  BY <1>1, FS_Subset, FS_CardinalityType

\* Of finitely many numbers no more than s have a rank up to s.
LEMMA Ranked ==
  ASSUME NEW b \in Nat, NEW L \in SUBSET (1..b), NEW s \in Nat
  PROVE  Cardinality({id \in L : Cardinality({k \in L : k <= id}) <= s}) <= s
<1> DEFINE Rank(id) == Cardinality({k \in L : k <= id})
           R == {id \in L : Rank(id) <= s}
<1> SUFFICES Cardinality(R) <= s
  OBVIOUS
<1>1. R \in SUBSET (1..b) /\ \A id \in R : id \in L /\ Rank(id) <= s
  OBVIOUS
<1>2. Cardinality(R) \in Nat /\ \A id \in R : Rank(id) \in Nat
  BY <1>1, Counted, 1 \in Nat
<1>3. CASE R # {}
  <2>1. PICK m \in R : \A x \in R : x <= m
    <3>1. R \in SUBSET Nat /\ \A x \in R : x <= b
      BY <1>1
    <3> HIDE DEF R
    <3>2. QED
      BY <1>3, <3>1, Greatest
  <2>2. R \subseteq {k \in L : k <= m} /\ {k \in L : k <= m} \subseteq 1..b
    BY <1>1, <2>1
  <2>3. Cardinality(R) <= Rank(m)
    BY <2>2, Counted, 1 \in Nat
  <2> HIDE DEF R, Rank
  <2>4. QED
    BY <1>1, <1>2, <2>1, <2>3
<1>4. CASE R = {}
  <2> HIDE DEF R
  <2>1. QED
    BY <1>4, FS_EmptySet
<1>5. QED
  BY <1>3, <1>4

(* The next page lies behind what was fetched, and leaves out, up to its end, *)
(* no more than was deleted of what had been fetched before.                  *)
LEMMA NextPage ==
  ASSUME OnaAssumption, Shape, NEW r \in DOMAIN runs, NEW top \in Nat, NEW P \in SUBSET (1..top),
         Fetched(r, P, top), runs[r].page = {}, Page(r) # {}
  PROVE  \E m \in Page(r) :
           /\ Page(r) \subseteq (top + 1)..m
           /\ Cardinality(Passed(r, P \cup Page(r), m)) <= Cardinality(P \cap deleted)
<1> DEFINE base == runs[r].base
           s == runs[r].start
           L == Listed(r)
           Q == Page(r)
           R == {id \in L : Place(r, id) <= s}
<1>1. /\ posted \in Nat /\ base \in Nat /\ top \in base..posted /\ s \in Nat
      /\ L \subseteq 1..posted /\ deleted \subseteq 1..posted
  <2>1. runs[r] \in RunRows /\ deleted \subseteq 1..posted /\ posted \in Nat
    BY DEF Shape, OnaAssumption
  <2>2. base \in Nat /\ s \in Nat
    BY <2>1 DEF RunRows
  <2>3. QED
    BY <2>1, <2>2 DEF Fetched, Listed
<1> PageSize \in Nat
  BY DEF OnaAssumption
<1>2. /\ P \subseteq (base + 1)..top /\ Cardinality(P) = s
      /\ Cardinality(Passed(r, P, top)) <= Cardinality(P \cap deleted)
  BY DEF Fetched
<1>3. \A id \in L : Place(r, id) \in Nat /\ Place(r, id) = Cardinality({k \in L : k <= id})
  BY <1>1, Counted, 1 \in Nat DEF Place
<1>4. IsFiniteSet(P) /\ Cardinality(P \ deleted) + Cardinality(P \cap deleted) = s
      /\ Cardinality(P \ deleted) \in Nat /\ Cardinality(P \cap deleted) \in Nat
  <2>1. IsFiniteSet(P)
    BY Counted, 1 \in Nat
  <2>2. IsFiniteSet(P \ deleted) /\ Cardinality(P \ deleted) = Cardinality(P) - Cardinality(P \cap deleted)
    BY <2>1, FS_Difference
  <2>3. IsFiniteSet(P \cap deleted)
    BY <2>1, FS_Intersection
  <2>4. Cardinality(P \ deleted) \in Nat /\ Cardinality(P \cap deleted) \in Nat
    BY <2>2, <2>3, FS_CardinalityType
  <2>5. QED
    BY <1>1, <1>2, <2>1, <2>2, <2>4
<1>5. \A id \in L : id <= top => Place(r, id) <= s
  <2> SUFFICES ASSUME NEW id \in L, id <= top PROVE Place(r, id) <= s
    OBVIOUS
  <2> DEFINE A == P \ deleted
             B == Passed(r, P, top)
             C == {k \in L : k <= id}
  <2>1. C \subseteq A \cup B
    BY <1>1 DEF Listed, Passed
  <2>2. IsFiniteSet(A) /\ IsFiniteSet(B) /\ Cardinality(B) \in Nat
    <3>1. B \subseteq 0..top
      BY <1>1 DEF Passed
    <3>2. QED
      BY <1>4, <3>1, FS_Difference, Counted, 0 \in Nat
  <2>3. Cardinality(A \cup B) <= Cardinality(A) + Cardinality(B) /\ IsFiniteSet(A \cup B)
    <3>1. Cardinality(A \cap B) \in Nat
      BY <2>2, FS_Intersection, FS_CardinalityType
    <3>2. Cardinality(A) \in Nat
      BY <1>4
    <3> HIDE DEF A, B
    <3>3. /\ IsFiniteSet(A \cup B)
          /\ Cardinality(A \cup B) = Cardinality(A) + Cardinality(B) - Cardinality(A \cap B)
      BY <2>2, FS_Union
    <3>4. QED
      BY <2>2, <3>1, <3>2, <3>3
  <2>4. Cardinality(C) <= Cardinality(A \cup B)
    BY <2>1, <2>3, FS_Subset
  <2>5. Cardinality(A \cup B) \in Nat
    BY <2>3, FS_CardinalityType
  <2>6. QED
    BY <1>1, <1>2, <1>3, <1>4, <2>2, <2>3, <2>4, <2>5
<1>6. \A id \in Q : id \in L /\ id > top /\ Place(r, id) > s /\ Place(r, id) <= s + PageSize
  <2> TAKE id \in Q
  <2>1. id \in L /\ s < Place(r, id) /\ Place(r, id) <= s + PageSize
    BY DEF Page
  <2>2. Place(r, id) \in Nat /\ id \in Nat
    <3>1. id \in 1..posted
      BY <1>1, <2>1
    <3>2. Place(r, id) \in Nat
      BY <1>3, <2>1
    <3>3. QED
      BY <1>1, <3>1, <3>2
  <2>3. ~(id <= top)
    BY <1>1, <1>5, <2>1, <2>2
  <2>4. QED
    BY <1>1, <2>1, <2>2, <2>3
<1>7. PICK m \in Q : \A x \in Q : x <= m
  <2>1. Q \in SUBSET Nat /\ \A x \in Q : x <= posted
    BY <1>1, <1>6
  <2>2. QED
    BY <1>1, <2>1, Greatest
<1>8. Q \subseteq (top + 1)..m
  BY <1>1, <1>6, <1>7
<1>9. Passed(r, P \cup Q, m) \subseteq R \ (P \ deleted)
  <2> SUFFICES ASSUME NEW id \in Passed(r, P \cup Q, m) PROVE id \in R /\ id \notin P
    OBVIOUS
  <2>1. id \in L /\ id <= m /\ id \notin Q /\ id \notin P
    BY <1>1, <1>6, <1>7 DEF Passed, Listed
  <2>2. Place(r, id) <= Place(r, m)
    <3>1. {k \in L : k <= id} \subseteq {k \in L : k <= m} /\ {k \in L : k <= m} \subseteq 1..posted
      BY <1>1, <1>6, <1>7, <2>1
    <3>2. QED
      BY <1>1, <1>3, <1>6, <1>7, <2>1, <3>1, Counted, 1 \in Nat
  <2>3. Place(r, id) \in Nat /\ Place(r, m) \in Nat /\ Place(r, m) <= s + PageSize
    BY <1>3, <1>6, <2>1
  <2>4. Place(r, id) <= s + PageSize
    BY <1>1, <2>2, <2>3
  <2>5. ~(s < Place(r, id))
    BY <2>1, <2>4 DEF Page
  <2>6. Place(r, id) <= s
    BY <1>1, <2>3, <2>5
  <2>7. QED
    BY <2>1, <2>6
<1>10. P \ deleted \subseteq R
  BY <1>1, <1>2, <1>5 DEF Listed
<1>11. IsFiniteSet(R) /\ Cardinality(R) <= s /\ Cardinality(R) \in Nat
  <2>1. R = {id \in L : Cardinality({k \in L : k <= id}) <= s}
    BY <1>3
  <2>2. Cardinality(R) <= s
    BY <1>1, <2>1, Ranked
  <2>3. R \subseteq 1..posted
    BY <1>1
  <2>4. QED
    BY <1>1, <2>2, <2>3, Counted, 1 \in Nat
<1>12. Cardinality(R \ (P \ deleted)) = Cardinality(R) - Cardinality(P \ deleted)
       /\ IsFiniteSet(R \ (P \ deleted)) /\ Cardinality(R \ (P \ deleted)) \in Nat
  <2>1. R \cap (P \ deleted) = P \ deleted
    BY <1>10
  <2>2. QED
    BY <1>11, <2>1, FS_Difference, FS_CardinalityType
<1>13. Cardinality(Passed(r, P \cup Q, m)) <= Cardinality(R \ (P \ deleted))
       /\ Cardinality(Passed(r, P \cup Q, m)) \in Nat
  BY <1>9, <1>12, FS_Subset, FS_CardinalityType
<1>14. Cardinality(Passed(r, P \cup Q, m)) <= Cardinality(P \cap deleted)
  BY <1>1, <1>4, <1>11, <1>12, <1>13
<1>15. QED
  BY <1>7, <1>8, <1>14

-----------------------------------------------------------------------------
(* Rows and copies.                                                        *)

LEMMA Rows ==
  ASSUME NEW S, NEW R \in Seq(S)
  PROVE  DOMAIN R = 1..Len(R) /\ Len(R) \in Nat /\ \A k \in 1..Len(R) : R[k] \in S
OBVIOUS

LEMMA Appended ==
  ASSUME NEW S, NEW R \in Seq(S), NEW e \in S
  PROVE  LET Q == Append(R, e) IN
         /\ Q \in Seq(S) /\ Len(Q) = Len(R) + 1 /\ Len(R) \in Nat
         /\ DOMAIN Q = DOMAIN R \cup {Len(Q)} /\ Len(Q) \notin DOMAIN R
         /\ Q[Len(Q)] = e /\ \A k \in DOMAIN R : Q[k] = R[k]
OBVIOUS

LEMMA Replaced ==
  ASSUME NEW S, NEW R \in Seq(S), NEW i \in DOMAIN R, NEW e \in S
  PROVE  LET Q == [R EXCEPT ![i] = e] IN
         /\ Q \in Seq(S) /\ Len(Q) = Len(R) /\ DOMAIN Q = DOMAIN R
         /\ \A k \in DOMAIN R : Q[k] = IF k = i THEN e ELSE R[k]
<1> DEFINE Q == [R EXCEPT ![i] = e]
<1>1. DOMAIN R = 1..Len(R) /\ Len(R) \in Nat /\ \A k \in 1..Len(R) : R[k] \in S
  OBVIOUS
<1>2. DOMAIN Q = 1..Len(R) /\ \A k \in 1..Len(R) : Q[k] = IF k = i THEN e ELSE R[k]
  BY <1>1
<1>3. Q \in [1..Len(R) -> S]
  BY <1>1, <1>2
<1>4. Q \in Seq(S) /\ Len(Q) = Len(R)
  BY <1>1, <1>3
<1>5. QED
  BY <1>1, <1>2, <1>4

\* Copies counts, and is 0 for what was not imported.
LEMMA Copied ==
  ASSUME made \in Seq([id : Nat, batch : Runs \cup {None}]), NEW id
  PROVE  /\ IsFiniteSet({n \in DOMAIN made : made[n].id = id}) /\ Copies(id) \in Nat
         /\ Copies(id) = 0 <=> id \notin Ids
<1> DEFINE C == {n \in DOMAIN made : made[n].id = id}
<1>1. C \subseteq 1..Len(made) /\ Len(made) \in Nat
  OBVIOUS
<1>2. IsFiniteSet(C) /\ Cardinality(C) \in Nat
  BY <1>1, Counted, 1 \in Nat
<1>3. Cardinality(C) = 0 <=> C = {}
  <2> HIDE DEF C
  <2>1. QED
    BY <1>2, FS_EmptySet
<1>4. C = {} <=> id \notin Ids
  BY DEF Ids
<1>5. Copies(id) = Cardinality(C)
  BY DEF Copies
<1>6. QED
  BY <1>2, <1>3, <1>4, <1>5

LEMMA OneMore ==
  ASSUME made \in Seq([id : Nat, batch : Runs \cup {None}]), NEW x \in Nat, NEW b \in Runs \cup {None},
         made' = Append(made, [id |-> x, batch |-> b])
  PROVE  /\ made' \in Seq([id : Nat, batch : Runs \cup {None}]) /\ Ids' = Ids \cup {x}
         /\ Len(made') = Len(made) + 1 /\ Len(made) \in Nat
         /\ made' # <<>> /\ made'[Len(made')].id = x
         /\ \A k : Copies(k)' = IF k = x THEN Copies(k) + 1 ELSE Copies(k)
<1> DEFINE e == [id |-> x, batch |-> b]
           S == [id : Nat, batch : Runs \cup {None}]
           l == Len(made')
<1>1. e \in S
  OBVIOUS
<1>2. /\ made' \in Seq(S) /\ Len(made') = Len(made) + 1 /\ Len(made) \in Nat
      /\ DOMAIN made' = DOMAIN made \cup {l} /\ l \notin DOMAIN made
      /\ made'[l] = e /\ \A k \in DOMAIN made : made'[k] = made[k]
  BY <1>1, Appended
<1>3. Ids' = Ids \cup {x}
  <2>1. \A k \in DOMAIN made : made'[k].id = made[k].id
    BY <1>2
  <2>2. made'[l].id = x
    BY <1>2
  <2> HIDE DEF l
  <2>3. QED
    BY <1>2, <2>1, <2>2 DEF Ids
<1>4. ASSUME NEW k PROVE Copies(k)' = IF k = x THEN Copies(k) + 1 ELSE Copies(k)
  <2> DEFINE C == {n \in DOMAIN made : made[n].id = k}
             D == {n \in DOMAIN made' : made'[n].id = k}
  <2>1. D = IF k = x THEN C \cup {l} ELSE C
    BY <1>2
  <2>2. IsFiniteSet(C) /\ l \notin C
    BY <1>2, Copied
  <2>3. Cardinality(C \cup {l}) = Cardinality(C) + 1
    <3> HIDE DEF C, l
    <3>1. QED
      BY <2>2, FS_AddElement
  <2>4. Copies(k)' = Cardinality(D) /\ Copies(k) = Cardinality(C)
    BY DEF Copies
  <2> HIDE DEF C, D, l
  <2>5. QED
    BY <2>1, <2>3, <2>4
<1>5. QED
  BY <1>2, <1>3, <1>4

-----------------------------------------------------------------------------
(* Steps that neither import nor save.                                     *)

\* The runs in the loop stay there, and no other comes in.
SameLoop ==
  /\ \A q \in DOMAIN runs : Looping(q) => q \in DOMAIN runs' /\ runs'[q] = runs[q]
  /\ \A q \in DOMAIN runs' : runs'[q].at \in InLoop => q \in DOMAIN runs /\ Looping(q)

\* What a run has fetched stays so when submissions come, go or are imported.
LEMMA StillFetched ==
  ASSUME Shape, Shape', NEW r \in DOMAIN runs, r \in DOMAIN runs', runs'[r] = runs[r], Fetching(r),
         posted <= posted', deleted \subseteq deleted', Ids \subseteq Ids'
  PROVE  Fetching(r)'
<1>1. PICK top \in 0..posted : \E P \in SUBSET (1..top) : Fetched(r, P, top)
  BY DEF Fetching
<1>2. PICK P \in SUBSET (1..top) : Fetched(r, P, top)
  BY <1>1
<1>3. /\ posted \in Nat /\ posted' \in Nat /\ runs[r].base \in Nat /\ top \in 0..posted'
      /\ deleted \subseteq 1..posted /\ deleted' \subseteq 1..posted'
  <2>1. runs[r] \in RunRows
    BY DEF Shape
  <2>2. posted \in 0..MaxPosted /\ posted' \in 0..MaxPosted /\ runs[r].base \in Nat
    BY <2>1 DEF Shape, RunRows
  <2>3. QED
    BY <2>2, <1>1 DEF Shape
<1>4. \A x \in 0..top : /\ Passed(r, P, x)' \subseteq Passed(r, P, x) /\ Passed(r, P, x) \subseteq 0..top
  BY <1>3 DEF Passed
<1>5. \A x \in 0..top : Cardinality(Passed(r, P, x)') <= Cardinality(Passed(r, P, x))
                      /\ Cardinality(Passed(r, P, x)) \in Nat /\ Cardinality(Passed(r, P, x)') \in Nat
  BY <1>1, <1>4, Counted, 0 \in Nat
<1>6. Cardinality(P \cap deleted) <= Cardinality(P \cap deleted')
      /\ Cardinality(P \cap deleted) \in Nat /\ Cardinality(P \cap deleted') \in Nat
  <2>1. P \cap deleted \in SUBSET (P \cap deleted') /\ P \cap deleted' \in SUBSET (1..top)
    OBVIOUS
  <2>2. QED
    BY <1>1, <2>1, Counted, 1 \in Nat
<1>7. \A x \in runs[r].base..top :
        LET B == (runs[r].base + 1)..x IN
        Cardinality(deleted \cap B) <= Cardinality(deleted' \cap B)
        /\ Cardinality(deleted \cap B) \in Nat /\ Cardinality(deleted' \cap B) \in Nat
  <2> TAKE x \in runs[r].base..top
  <2> DEFINE B == (runs[r].base + 1)..x
  <2>1. deleted \cap B \in SUBSET (deleted' \cap B) /\ deleted' \cap B \in SUBSET (1..posted')
    BY <1>3
  <2>2. QED
    BY <1>3, <2>1, Counted, 1 \in Nat
<1>8. Cardinality(Passed(r, P, top)') <= Cardinality(P \cap deleted')
  <2>1. Cardinality(Passed(r, P, top)) <= Cardinality(P \cap deleted) /\ top \in 0..top
    BY <1>2, <1>3 DEF Fetched
  <2>2. QED
    BY <1>5, <1>6, <2>1
<1>9. \A x \in runs[r].base..top :
        Cardinality(Passed(r, P, x)') <= Cardinality(deleted' \cap (runs[r].base + 1)..x)
  <2> TAKE x \in runs[r].base..top
  <2>1. Cardinality(Passed(r, P, x)) <= Cardinality(deleted \cap (runs[r].base + 1)..x) /\ x \in 0..top
    BY <1>2, <1>3 DEF Fetched
  <2>2. QED
    BY <1>5, <1>7, <2>1
<1>10. top \in runs[r].base..posted'
  BY <1>2, <1>3 DEF Fetched
<1>11. Fetched(r, P, top)'
  BY <1>2, <1>8, <1>9, <1>10 DEF Fetched
<1>12. QED
  BY <1>3, <1>11 DEF Fetching

\* What is missing up to an id shrinks with imports and deletions.
LEMMA StillMissing ==
  ASSUME Shape, Shape', MissingInv, deleted \subseteq deleted', Ids \subseteq Ids', cursor' = cursor
  PROVE  MissingInv'
<1>1. cursor \in Nat /\ posted \in Nat /\ posted' \in Nat
  BY DEF Shape
<1> SUFFICES ASSUME NEW x \in 0..cursor PROVE Cardinality(Missing(x)') <= Cardinality(deleted' \cap 1..x)
  BY DEF MissingInv
<1>2. Missing(x)' \in SUBSET Missing(x) /\ Missing(x) \in SUBSET (1..x)
  BY DEF Missing
<1>3. deleted \cap 1..x \in SUBSET (deleted' \cap 1..x) /\ deleted' \cap 1..x \in SUBSET (1..x)
  OBVIOUS
<1>4. x \in Nat /\ 1 \in Nat
  BY <1>1
<1>5. Cardinality(Missing(x)') <= Cardinality(Missing(x))
      /\ Cardinality(Missing(x)') \in Nat /\ Cardinality(Missing(x)) \in Nat
  BY <1>2, <1>4, Counted
<1>6. Cardinality(deleted \cap 1..x) <= Cardinality(deleted' \cap 1..x)
      /\ Cardinality(deleted \cap 1..x) \in Nat /\ Cardinality(deleted' \cap 1..x) \in Nat
  BY <1>3, <1>4, Counted
<1>7. Cardinality(Missing(x)) <= Cardinality(deleted \cap 1..x)
  BY DEF MissingInv
<1>8. QED
  BY <1>5, <1>6, <1>7

LEMMA Unmoved ==
  ASSUME OnaInv, Shape', SameLoop, UNCHANGED <<cursor, made>>,
         posted <= posted', crashes' \in {crashes, crashes + 1}, deleted \subseteq deleted',
         lock' = lock \/ \A q \in DOMAIN runs : ~Looping(q)
  PROVE  OnaInv'
<1>1. Shape /\ MissingInv /\ CopiesInv /\ \A r \in DOMAIN runs : Looping(r) => Fetching(r)
  BY DEF OnaInv
<1>2. Ids' = Ids /\ \A k : Copies(k)' = Copies(k)
  BY DEF Ids, Copies
<1>3. MissingInv'
  BY <1>1, <1>2, StillMissing
<1>4. \A r \in DOMAIN runs' : Looping(r)' => Fetching(r)'
  <2> SUFFICES ASSUME NEW r \in DOMAIN runs', Looping(r)' PROVE Fetching(r)'
    OBVIOUS
  <2>1. r \in DOMAIN runs /\ Looping(r) /\ runs'[r] = runs[r]
    BY DEF SameLoop, Looping
  <2>2. QED
    BY <1>1, <1>2, <2>1, StillFetched
<1>5. CopiesInv'
  <2>1. PICK n \in 0..posted :
          /\ Reached(n)
          /\ \A id \in 1..posted : Copies(id) <= 1 + crashes /\ (id > n => Copies(id) <= crashes)
          /\ crashes = 0 => n = IF made = <<>> THEN 0 ELSE made[Len(made)].id
    BY <1>1 DEF CopiesInv
  <2>2. posted \in Nat /\ posted' \in Nat /\ crashes \in Nat /\ n \in 0..posted'
    BY <1>1, <2>1 DEF Shape
  <2>3. Reached(n)'
    <3>1. (\E r \in DOMAIN runs' : Looping(r)') <=> \E r \in DOMAIN runs : Looping(r)
      BY DEF SameLoop, Looping
    <3>2. (\E r \in DOMAIN runs : Looping(r)) => lock' = lock /\ runs'[lock].last = runs[lock].last
      BY <1>1 DEF SameLoop, Shape
    <3>3. QED
      BY <2>1, <3>1, <3>2 DEF Reached
  <2>4. \A id \in 1..posted' : Copies(id) <= 1 + crashes /\ (id > n => Copies(id) <= crashes)
    <3> TAKE id \in 1..posted'
    <3>1. CASE id \in 1..posted
      BY <2>1, <3>1
    <3>2. CASE id \notin 1..posted
      <4>1. id \notin Ids
        BY <1>1, <3>2 DEF Shape
      <4>2. Copies(id) = 0
        BY <1>1, <4>1, Copied DEF Shape
      <4>3. QED
        BY <2>2, <4>2
    <3>3. QED
      BY <3>1, <3>2
  <2>5. \A id \in 1..posted' : Copies(id)' <= 1 + crashes' /\ (id > n => Copies(id)' <= crashes')
    <3> TAKE id \in 1..posted'
    <3>1. Copies(id) \in Nat /\ Copies(id)' = Copies(id)
      BY <1>1, <1>2, Copied DEF Shape
    <3>2. crashes' \in Nat /\ crashes <= crashes'
      BY <2>2
    <3>3. QED
      BY <2>2, <2>4, <3>1, <3>2
  <2>6. crashes' = 0 => crashes = 0
    BY <2>2
  <2>7. QED
    BY <2>1, <2>2, <2>3, <2>5, <2>6 DEF CopiesInv
<1>6. QED
  BY <1>1, <1>3, <1>4, <1>5 DEF OnaInv

\* A job is added.
LEMMA JobAdded ==
  ASSUME Shape, NEW b \in Runs \cup {None}, NewJob(b)
  PROVE  /\ jobs' \in Seq(Runs \cup {None}) /\ queued' \subseteq DOMAIN jobs'
         /\ DOMAIN jobs \subseteq DOMAIN jobs'
<1>1. /\ jobs \in Seq(Runs \cup {None}) /\ queued \subseteq DOMAIN jobs
      /\ jobs' = Append(jobs, b) /\ queued' = queued \cup {Len(jobs) + 1}
  BY DEF Shape, NewJob
<1>2. /\ jobs' \in Seq(Runs \cup {None}) /\ Len(jobs') = Len(jobs) + 1
      /\ DOMAIN jobs' = DOMAIN jobs \cup {Len(jobs')}
  BY <1>1, Appended
<1>3. QED
  BY <1>1, <1>2

\* The row of a run outside of the loop changes, and the run stays outside.
LEMMA RowOutside ==
  ASSUME Shape, NEW r \in DOMAIN runs, ~Looping(r), NEW e \in RunRows, e.at \notin InLoop,
         runs' = [runs EXCEPT ![r] = e]
  PROVE  /\ SameLoop
         /\ runs' \in Seq(RunRows) /\ Len(runs') = Len(runs) /\ DOMAIN runs' = DOMAIN runs
         /\ \A q \in DOMAIN runs : runs'[q] = IF q = r THEN e ELSE runs[q]
<1>1. /\ runs' \in Seq(RunRows) /\ Len(runs') = Len(runs) /\ DOMAIN runs' = DOMAIN runs
      /\ \A q \in DOMAIN runs : runs'[q] = IF q = r THEN e ELSE runs[q]
  BY Replaced DEF Shape
<1>2. SameLoop
  BY <1>1 DEF SameLoop, Looping
<1>3. QED
  BY <1>1, <1>2

\* Then the shape stays, if what else changes keeps its own.
LEMMA ShapeOutside ==
  ASSUME Shape, NEW r \in DOMAIN runs, ~Looping(r), NEW e \in RunRows, e.at \notin InLoop,
         runs' = [runs EXCEPT ![r] = e], e.page = {}, e.start = 0, e.job = runs[r].job,
         lock # r \/ e.at = "dead",
         UNCHANGED <<posted, deleted, cursor, made, lock>>, crashes' \in Nat,
         jobs' \in Seq(Runs \cup {None}), queued' \subseteq DOMAIN jobs', DOMAIN jobs \subseteq DOMAIN jobs',
         status' \in [Runs -> {"none", "LOADING", "COMPLETE"}]
  PROVE  Shape' /\ SameLoop
<1>1. /\ SameLoop
      /\ runs' \in Seq(RunRows) /\ Len(runs') = Len(runs) /\ DOMAIN runs' = DOMAIN runs
      /\ \A q \in DOMAIN runs : runs'[q] = IF q = r THEN e ELSE runs[q]
  BY RowOutside
<1>2. Ids' = Ids
  BY DEF Ids
<1>3. lock' # None => lock' \in DOMAIN runs' /\ runs'[lock'].at \in InLoop \cup {"dead"}
  BY <1>1 DEF Shape
<1>4. \A q \in DOMAIN runs' : runs'[q].job \in DOMAIN jobs'
  BY <1>1 DEF Shape
<1>5. \A q \in DOMAIN runs' : /\ Looping(q)' => lock' = q /\ runs'[q].base = cursor'
                              /\ ~Looping(q)' => runs'[q].page = {} /\ runs'[q].start = 0
  BY <1>1 DEF Shape, Looping
<1>6. QED
  BY <1>1, <1>2, <1>3, <1>4, <1>5 DEF Shape

\* Nothing of the imports but jobs and submissions changes.
LEMMA ShapeAside ==
  ASSUME Shape, UNCHANGED <<cursor, runs, status, made, crashes>>,
         posted' \in posted..MaxPosted, deleted' \subseteq 1..posted', lock' \in {lock, None},
         lock' = lock \/ \A q \in DOMAIN runs : ~Looping(q),
         jobs' \in Seq(Runs \cup {None}), queued' \subseteq DOMAIN jobs', DOMAIN jobs \subseteq DOMAIN jobs'
  PROVE  Shape' /\ SameLoop
<1>1. Ids' = Ids /\ \A q : Looping(q)' <=> Looping(q)
  BY DEF Ids, Looping
<1>2. posted \in 0..MaxPosted /\ posted' \in 0..MaxPosted /\ cursor \in 0..posted' /\ Ids \subseteq 1..posted'
  BY DEF Shape
<1>3. SameLoop
  BY DEF SameLoop, Looping
<1>4. \A q \in DOMAIN runs' : runs'[q].job \in DOMAIN jobs'
  BY DEF Shape
<1>5. lock' \in Nat /\ (lock' # None => lock' \in DOMAIN runs' /\ runs'[lock'].at \in InLoop \cup {"dead"})
  BY DEF Shape, None
<1>6. \A q \in DOMAIN runs' : /\ Looping(q)' => lock' = q /\ runs'[q].base = cursor'
                              /\ ~Looping(q)' => runs'[q].page = {} /\ runs'[q].start = 0
  BY <1>1 DEF Shape
<1>7. QED
  BY <1>1, <1>2, <1>3, <1>4, <1>5, <1>6 DEF Shape

LEMMA SubmitKeeps == ASSUME OnaAssumption, OnaInv, Submit PROVE OnaInv'
<1>1. posted' \in posted..MaxPosted /\ posted \in Nat /\ MaxPosted \in Nat
  BY DEF OnaInv, Shape, OnaAssumption, Submit
<1>2. deleted' \subseteq 1..posted' /\ queued' \subseteq DOMAIN jobs' /\ jobs' \in Seq(Runs \cup {None})
  BY <1>1 DEF OnaInv, Shape, Submit
<1>3. Shape' /\ SameLoop
  BY <1>1, <1>2, ShapeAside DEF OnaInv, Submit, bounds
<1>4. QED
  BY <1>1, <1>3, Unmoved DEF Submit, bounds

LEMMA DeleteKeeps == ASSUME OnaAssumption, OnaInv, NEW id, Delete(id) PROVE OnaInv'
<1>1. posted' \in posted..MaxPosted /\ posted \in Nat /\ MaxPosted \in Nat
  BY DEF OnaInv, Shape, OnaAssumption, Delete
<1>2. deleted' \subseteq 1..posted' /\ queued' \subseteq DOMAIN jobs' /\ jobs' \in Seq(Runs \cup {None})
  BY <1>1 DEF OnaInv, Shape, Delete
<1>3. Shape' /\ SameLoop
  BY <1>1, <1>2, ShapeAside DEF OnaInv, Delete, bounds
<1>4. QED
  BY <1>1, <1>3, Unmoved DEF Delete, bounds

LEMMA RequestKeeps == ASSUME OnaAssumption, OnaInv, RequestImport PROVE OnaInv'
<1>1. posted' \in posted..MaxPosted /\ posted \in Nat
  BY DEF OnaInv, Shape, OnaAssumption, RequestImport, source
<1>2. deleted' \subseteq 1..posted' /\ deleted' = deleted
  BY <1>1 DEF OnaInv, Shape, RequestImport, source
<1>3. jobs' \in Seq(Runs \cup {None}) /\ queued' \subseteq DOMAIN jobs' /\ DOMAIN jobs \subseteq DOMAIN jobs'
  BY JobAdded DEF OnaInv, RequestImport
<1>4. Shape' /\ SameLoop
  BY <1>1, <1>2, <1>3, ShapeAside DEF OnaInv, RequestImport
<1>5. QED
  BY <1>1, <1>2, <1>4, Unmoved DEF RequestImport

LEMMA RedeliverKeeps == ASSUME OnaAssumption, OnaInv, NEW r, Redeliver(r) PROVE OnaInv'
<1>1. posted' \in posted..MaxPosted /\ posted \in Nat
  BY DEF OnaInv, Shape, OnaAssumption, Redeliver, source
<1>2. deleted' \subseteq 1..posted' /\ deleted' = deleted
  BY <1>1 DEF OnaInv, Shape, Redeliver, source
<1>3. jobs' \in Seq(Runs \cup {None}) /\ queued' \subseteq DOMAIN jobs' /\ DOMAIN jobs \subseteq DOMAIN jobs'
  BY DEF OnaInv, Shape, Redeliver, Active
<1>4. Shape' /\ SameLoop
  BY <1>1, <1>2, <1>3, ShapeAside DEF OnaInv, Redeliver
<1>5. QED
  BY <1>1, <1>2, <1>4, Unmoved DEF Redeliver

LEMMA ExpireKeeps == ASSUME OnaAssumption, OnaInv, Expire PROVE OnaInv'
<1>1. posted' \in posted..MaxPosted /\ posted \in Nat
  BY DEF OnaInv, Shape, OnaAssumption, Expire, source
<1>2. deleted' \subseteq 1..posted' /\ deleted' = deleted
  BY <1>1 DEF OnaInv, Shape, Expire, source
<1>3. jobs' \in Seq(Runs \cup {None}) /\ queued' \subseteq DOMAIN jobs' /\ DOMAIN jobs \subseteq DOMAIN jobs'
  BY DEF OnaInv, Shape, Expire
<1>4. \A q \in DOMAIN runs : ~Looping(q)
  BY DEF OnaInv, Shape, Expire, Looping, InLoop
<1>5. Shape' /\ SameLoop
  BY <1>1, <1>2, <1>3, <1>4, ShapeAside DEF OnaInv, Expire, bounds
<1>6. QED
  BY <1>1, <1>2, <1>4, <1>5, Unmoved DEF Expire, bounds

LEMMA RunsBound == OnaAssumption => MaxRuns \in Nat
<1> SUFFICES ASSUME OnaAssumption PROVE MaxRuns \in Nat
  OBVIOUS
<1>1. MaxJobs \in Nat /\ MaxRedelivered \in Nat /\ MaxCrashes \in Nat
  BY DEF OnaAssumption
<1>2. QED
  BY <1>1 DEF MaxRuns

LEMMA DeliverKeeps == ASSUME OnaAssumption, OnaInv, NEW j, Deliver(j) PROVE OnaInv'
<1> DEFINE e == [job |-> j, at |-> "setup", batch |-> jobs[j], base |-> 0, last |-> 0,
                 page |-> {}, start |-> 0]
<1>1. /\ Shape /\ j \in queued /\ j \in DOMAIN jobs /\ Len(runs) < MaxRuns /\ MaxRuns \in Nat
      /\ queued' = queued \ {j} /\ runs' = Append(runs, e)
      /\ UNCHANGED <<posted, deleted, cursor, jobs, lock, status, made, crashes>>
  BY RunsBound DEF OnaInv, Shape, Deliver, source, bounds
<1>2. j \in Nat /\ jobs[j] \in Runs \cup {None}
  BY <1>1 DEF Shape
<1>3. e \in RunRows
  BY <1>2 DEF RunRows, Working
<1>4. /\ runs' \in Seq(RunRows) /\ Len(runs') = Len(runs) + 1 /\ Len(runs) \in Nat
      /\ DOMAIN runs' = DOMAIN runs \cup {Len(runs')} /\ Len(runs') \notin DOMAIN runs
      /\ runs'[Len(runs')] = e /\ \A q \in DOMAIN runs : runs'[q] = runs[q]
  BY <1>1, <1>3, Appended DEF Shape
<1>5. SameLoop
  BY <1>4 DEF SameLoop, Looping, InLoop
<1>6. Shape'
  <2>1. Ids' = Ids /\ Len(runs') <= MaxRuns /\ queued' \subseteq DOMAIN jobs'
    BY <1>1, <1>4 DEF Shape, Ids
  <2>2. lock' # None => lock' \in DOMAIN runs' /\ runs'[lock'].at \in InLoop \cup {"dead"}
    BY <1>1, <1>4 DEF Shape
  <2>3. \A q \in DOMAIN runs' : runs'[q].job \in DOMAIN jobs'
    BY <1>1, <1>4 DEF Shape
  <2>4. \A q \in DOMAIN runs' : /\ Looping(q)' => lock' = q /\ runs'[q].base = cursor'
                                /\ ~Looping(q)' => runs'[q].page = {} /\ runs'[q].start = 0
    <3> TAKE q \in DOMAIN runs'
    <3>1. CASE q \in DOMAIN runs
      BY <1>1, <1>4, <3>1 DEF Shape, Looping
    <3>2. CASE q = Len(runs')
      BY <1>4, <3>2 DEF Looping, InLoop
    <3>3. QED
      BY <1>4, <3>1, <3>2
  <2>5. QED
    BY <1>1, <1>4, <2>1, <2>2, <2>3, <2>4 DEF Shape
<1>7. posted <= posted' /\ deleted \subseteq deleted'
  BY <1>1 DEF Shape
<1>8. QED
  BY <1>1, <1>5, <1>6, <1>7, Unmoved

\* A run outside of the loop goes on outside.
LEMMA OutsideKeeps ==
  ASSUME OnaAssumption, OnaInv, NEW r \in DOMAIN runs, ~Looping(r), NEW e \in RunRows, e.at \notin InLoop,
         runs' = [runs EXCEPT ![r] = e], e.page = {}, e.start = 0, e.job = runs[r].job,
         lock # r,
         UNCHANGED <<posted, deleted, cursor, made, lock, crashes>>,
         jobs' \in Seq(Runs \cup {None}), queued' \subseteq DOMAIN jobs', DOMAIN jobs \subseteq DOMAIN jobs',
         status' \in [Runs -> {"none", "LOADING", "COMPLETE"}]
  PROVE  OnaInv'
<1>1. Shape /\ crashes' \in Nat /\ posted <= posted' /\ deleted \subseteq deleted'
  BY DEF OnaInv, Shape
<1>2. Shape' /\ SameLoop
  BY <1>1, ShapeOutside
<1>3. QED
  BY <1>1, <1>2, Unmoved

\* What a run outside of the loop is like.
LEMMA RunOutside ==
  ASSUME OnaAssumption, OnaInv, NEW r \in DOMAIN runs, runs[r].at \in Working \ InLoop
  PROVE  /\ Shape /\ runs[r] \in RunRows /\ ~Looping(r) /\ lock # r /\ r \in Runs /\ r # None
         /\ runs[r].page = {} /\ runs[r].start = 0
         /\ runs[r].job \in DOMAIN jobs /\ runs[r].batch \in Runs \cup {None}
<1>1. Shape /\ ~Looping(r)
  BY DEF OnaInv, Looping
<1>2. runs[r] \in RunRows /\ runs[r].batch \in Runs \cup {None} /\ runs[r].job \in DOMAIN jobs
      /\ runs[r].page = {} /\ runs[r].start = 0
  <2>1. runs[r] \in RunRows
    BY <1>1 DEF Shape
  <2>2. runs[r].batch \in Runs \cup {None}
    BY <2>1 DEF RunRows
  <2>3. QED
    BY <1>1, <2>1, <2>2 DEF Shape
<1>3. r \in 1..Len(runs) /\ Len(runs) <= MaxRuns /\ Len(runs) \in Nat
  BY <1>1 DEF Shape
<1>4. r \in Runs /\ r # None
  BY <1>3, RunsBound DEF Runs, None
<1>5. lock # r
  BY <1>1, <1>4 DEF Shape, Working, InLoop
<1>6. QED
  BY <1>1, <1>2, <1>4, <1>5

LEMMA SetupKeeps == ASSUME OnaAssumption, OnaInv, NEW r, Setup(r) PROVE OnaInv'
<1> DEFINE b == IF BatchOf(r) = None THEN r ELSE BatchOf(r)
           e == [runs[r] EXCEPT !.at = "lock", !.batch = b]
<1>1. r \in DOMAIN runs /\ runs[r].at \in Working \ InLoop
  BY DEF Setup, At, Working, InLoop
<1>2. /\ Shape /\ runs[r] \in RunRows /\ ~Looping(r) /\ lock # r /\ r \in Runs /\ r # None
      /\ runs[r].page = {} /\ runs[r].start = 0
      /\ runs[r].job \in DOMAIN jobs /\ runs[r].batch \in Runs \cup {None}
  BY <1>1, RunOutside
<1>3. b \in Runs
  BY <1>2 DEF BatchOf
<1>4. e \in RunRows /\ e.at \notin InLoop /\ e.page = {} /\ e.start = 0 /\ e.job = runs[r].job
  BY <1>2, <1>3 DEF RunRows, InLoop, Working
<1>5. runs' = [runs EXCEPT ![r] = e]
  BY DEF Setup
<1>6. jobs' = [jobs EXCEPT ![runs[r].job] = b] /\ status' = [status EXCEPT ![b] = "LOADING"]
      /\ UNCHANGED <<posted, deleted, cursor, queued, lock, made, crashes>>
  BY DEF Setup, source, bounds
<1>7. jobs' \in Seq(Runs \cup {None}) /\ DOMAIN jobs' = DOMAIN jobs
  BY <1>2, <1>3, <1>6, Replaced DEF Shape
<1>8. status' \in [Runs -> {"none", "LOADING", "COMPLETE"}]
  BY <1>2, <1>6 DEF Shape
<1>9. queued' \subseteq DOMAIN jobs' /\ DOMAIN jobs \subseteq DOMAIN jobs'
  BY <1>2, <1>6, <1>7 DEF Shape
<1> HIDE DEF e
<1>10. QED
  BY <1>1, <1>2, <1>4, <1>5, <1>6, <1>7, <1>8, <1>9, OutsideKeeps

\* A run that only goes on to another step.
LEMMA GoKeeps ==
  ASSUME OnaAssumption, OnaInv, NEW r \in DOMAIN runs, runs[r].at \in Working \ InLoop,
         NEW step \in {"done", "failed"}, Go(r, step),
         UNCHANGED <<posted, deleted, cursor, made, lock, crashes>>,
         jobs' \in Seq(Runs \cup {None}), queued' \subseteq DOMAIN jobs', DOMAIN jobs \subseteq DOMAIN jobs',
         status' \in [Runs -> {"none", "LOADING", "COMPLETE"}]
  PROVE  OnaInv'
<1> DEFINE e == [runs[r] EXCEPT !.at = step]
<1>1. /\ Shape /\ runs[r] \in RunRows /\ ~Looping(r) /\ lock # r
      /\ runs[r].page = {} /\ runs[r].start = 0
  BY RunOutside
<1>2. e \in RunRows /\ e.at \notin InLoop /\ e.page = {} /\ e.start = 0 /\ e.job = runs[r].job
  BY <1>1 DEF RunRows, InLoop, Ended
<1>3. runs' = [runs EXCEPT ![r] = e]
  BY DEF Go
<1> HIDE DEF e
<1>4. QED
  BY <1>1, <1>2, <1>3, OutsideKeeps

LEMMA StopKeeps == ASSUME OnaAssumption, OnaInv, NEW r, Stop(r) PROVE OnaInv'
<1>1. r \in DOMAIN runs /\ runs[r].at \in Working \ InLoop /\ Go(r, "failed")
      /\ UNCHANGED <<posted, deleted, cursor, jobs, queued, status, made, lock, crashes>>
  BY DEF Stop, Active, source, bounds
<1>2. /\ jobs' \in Seq(Runs \cup {None}) /\ queued' \subseteq DOMAIN jobs' /\ DOMAIN jobs \subseteq DOMAIN jobs'
      /\ status' \in [Runs -> {"none", "LOADING", "COMPLETE"}]
  BY <1>1 DEF OnaInv, Shape
<1>3. QED
  BY <1>1, <1>2, GoKeeps

LEMMA ContinueKeeps == ASSUME OnaAssumption, OnaInv, NEW r, Continue(r) PROVE OnaInv'
<1>1. r \in DOMAIN runs /\ runs[r].at \in Working \ InLoop /\ Go(r, "done") /\ NewJob(BatchOf(r))
      /\ UNCHANGED <<posted, deleted, cursor, status, made, lock, crashes>>
  BY DEF Continue, At, source, bounds, Working, InLoop
<1>2. Shape /\ BatchOf(r) \in Runs \cup {None}
  BY <1>1, RunOutside DEF BatchOf
<1>3. /\ jobs' \in Seq(Runs \cup {None}) /\ queued' \subseteq DOMAIN jobs' /\ DOMAIN jobs \subseteq DOMAIN jobs'
  BY <1>1, <1>2, JobAdded
<1>4. status' \in [Runs -> {"none", "LOADING", "COMPLETE"}]
  BY <1>1, <1>2 DEF Shape
<1>5. QED
  BY <1>1, <1>3, <1>4, GoKeeps

LEMMA CompleteKeeps == ASSUME OnaAssumption, OnaInv, NEW r, Complete(r) PROVE OnaInv'
<1>1. r \in DOMAIN runs /\ runs[r].at \in Working \ InLoop /\ Go(r, "done")
      /\ UNCHANGED <<posted, deleted, cursor, jobs, queued, made, lock, crashes>>
      /\ status' = [status EXCEPT ![BatchOf(r)] = "COMPLETE"]
  BY DEF Complete, At, source, bounds, Working, InLoop
<1>2. /\ jobs' \in Seq(Runs \cup {None}) /\ queued' \subseteq DOMAIN jobs' /\ DOMAIN jobs \subseteq DOMAIN jobs'
      /\ status' \in [Runs -> {"none", "LOADING", "COMPLETE"}]
  BY <1>1 DEF OnaInv, Shape
<1>3. QED
  BY <1>1, <1>2, GoKeeps

-----------------------------------------------------------------------------
(* The loop.                                                               *)

\* The run in the loop is the one that holds the lock.
LEMMA OneLoops ==
  ASSUME Shape, NEW r \in DOMAIN runs, Looping(r)
  PROVE  /\ lock = r /\ runs[r] \in RunRows /\ runs[r].base = cursor
         /\ \A q \in DOMAIN runs : Looping(q) => q = r
         /\ \A n : Reached(n) <=> n = runs[r].last
BY DEF Shape, Reached

\* What a run has fetched, taken apart.
LEMMA FetchedFact ==
  ASSUME Shape, NEW r \in DOMAIN runs, Looping(r), NEW top \in 0..posted, NEW P \in SUBSET (1..top),
         Fetched(r, P, top)
  PROVE  /\ posted \in Nat /\ runs[r].base \in Nat /\ runs[r].last \in Nat /\ runs[r].start \in Nat
         /\ cursor = runs[r].base /\ top >= runs[r].base
         /\ P \subseteq (runs[r].base + 1)..top
         /\ runs[r].page \subseteq P
         /\ runs[r].last >= runs[r].base /\ runs[r].last <= top
         /\ \A id \in runs[r].page : id \in Nat /\ id > runs[r].last /\ id <= posted
<1>1. runs[r] \in RunRows /\ posted \in Nat /\ cursor = runs[r].base
  BY DEF Shape
<1>2. runs[r].base \in Nat /\ runs[r].last \in Nat /\ runs[r].start \in Nat
  BY <1>1 DEF RunRows
<1>3. /\ P \subseteq (runs[r].base + 1)..top /\ top \in runs[r].base..posted /\ runs[r].page \subseteq P
      /\ \A id \in runs[r].page : id > runs[r].last
      /\ runs[r].last = runs[r].base \/ runs[r].last \in P
  BY DEF Fetched
<1>4. top \in Nat /\ top >= runs[r].base /\ top <= posted
  BY <1>1, <1>2, <1>3
<1>5. \A id \in P : id \in Nat /\ id > runs[r].base /\ id <= top
  BY <1>2, <1>3, <1>4
<1>6. runs[r].last >= runs[r].base /\ runs[r].last <= top
  BY <1>2, <1>3, <1>4, <1>5
<1>7. \A id \in runs[r].page : id \in Nat /\ id > runs[r].last /\ id <= posted
  <2> TAKE id \in runs[r].page
  <2>1. id \in P /\ id > runs[r].last
    BY <1>3
  <2>2. id \in Nat /\ id <= top
    BY <1>5, <2>1
  <2>3. QED
    BY <1>1, <1>4, <2>1, <2>2
<1>8. QED
  BY <1>1, <1>2, <1>3, <1>4, <1>6, <1>7

LEMMA EnterKeeps == ASSUME OnaAssumption, OnaInv, NEW r, Enter(r) PROVE OnaInv'
<1> DEFINE e == [runs[r] EXCEPT !.at = "page", !.base = cursor, !.last = cursor]
<1>1. /\ r \in DOMAIN runs /\ runs[r].at = "lock" /\ lock = None /\ lock' = r /\ runs' = [runs EXCEPT ![r] = e]
      /\ UNCHANGED <<posted, deleted, cursor, jobs, queued, status, made, crashes>>
  BY DEF Enter, At, source, bounds
<1>2. /\ Shape /\ runs[r] \in RunRows /\ r \in Nat /\ r # None
      /\ runs[r].page = {} /\ runs[r].start = 0
  BY <1>1, RunOutside DEF Runs, None, Working, InLoop
<1>3. posted \in Nat /\ cursor \in 0..posted /\ crashes \in Nat
  BY <1>2 DEF Shape
<1>4. /\ e \in RunRows /\ e.at = "page" /\ e.base = cursor /\ e.last = cursor /\ e.page = {} /\ e.start = 0
      /\ e.job = runs[r].job
  <2>1. cursor \in Nat
    BY <1>3
  <2>2. QED
    BY <1>2, <2>1 DEF RunRows, Working, InLoop
<1> HIDE DEF e
<1>5. /\ runs' \in Seq(RunRows) /\ Len(runs') = Len(runs) /\ DOMAIN runs' = DOMAIN runs
      /\ runs'[r] = e /\ \A q \in DOMAIN runs : runs'[q] = IF q = r THEN e ELSE runs[q]
  BY <1>1, <1>2, <1>4, Replaced DEF Shape
<1>6. \A q \in DOMAIN runs : ~Looping(q)
  BY <1>1, <1>2 DEF Shape, None
<1>7. Looping(r)' /\ \A q \in DOMAIN runs' : Looping(q)' => q = r
  BY <1>1, <1>4, <1>5, <1>6 DEF Looping, InLoop
<1>8. Shape'
  <2>1. Ids' = Ids
    BY <1>1 DEF Ids
  <2>2. \A q \in DOMAIN runs' : runs'[q].job \in DOMAIN jobs'
    BY <1>1, <1>2, <1>4, <1>5 DEF Shape
  <2>3. \A q \in DOMAIN runs' : Looping(q)' => lock' = q /\ runs'[q].base = cursor'
    BY <1>1, <1>4, <1>5, <1>7
  <2>4. \A q \in DOMAIN runs' : ~Looping(q)' => runs'[q].page = {} /\ runs'[q].start = 0
    BY <1>2, <1>5, <1>6, <1>7 DEF Shape
  <2>5. lock' \in Nat /\ lock' \in DOMAIN runs' /\ runs'[lock'].at \in InLoop \cup {"dead"}
    BY <1>1, <1>2, <1>4, <1>5 DEF InLoop
  <2>6. QED
    BY <1>1, <1>2, <1>5, <2>1, <2>2, <2>3, <2>4, <2>5 DEF Shape
<1>9. MissingInv'
  BY <1>1, <1>2, <1>8, StillMissing DEF OnaInv, Ids
<1>10. CopiesInv'
  <2>1. PICK n \in 0..posted :
          /\ Reached(n)
          /\ \A id \in 1..posted : Copies(id) <= 1 + crashes /\ (id > n => Copies(id) <= crashes)
          /\ crashes = 0 => n = IF made = <<>> THEN 0 ELSE made[Len(made)].id
    BY DEF OnaInv, CopiesInv
  <2>2. n = cursor
    BY <1>6, <2>1 DEF Reached
  <2>3. Reached(n)'
    BY <1>1, <1>4, <1>5, <1>7, <2>2 DEF Reached
  <2>4. \A k : Copies(k)' = Copies(k)
    BY <1>1 DEF Copies
  <2>5. QED
    BY <1>1, <2>1, <2>3, <2>4 DEF CopiesInv
<1>11. Fetching(r)'
  <2>2. \A x \in cursor..cursor : Passed(r, {}, x)' = {} /\ deleted \cap (cursor + 1)..x = {}
    BY <1>1, <1>3, <1>4, <1>5 DEF Passed
  <2>3. Cardinality({}) = 0 /\ {} \cap deleted = {} /\ cursor \in cursor..cursor
    BY <1>3, FS_EmptySet
  <2>4. Cardinality(Passed(r, {}, cursor)') <= Cardinality({} \cap deleted')
    BY <1>1, <2>2, <2>3
  <2>5. \A x \in cursor..cursor :
          Cardinality(Passed(r, {}, x)') <= Cardinality(deleted' \cap (cursor + 1)..x)
    BY <1>1, <2>2, <2>3
  <2>6. {} \subseteq (cursor + 1)..cursor /\ cursor \in cursor..posted' /\ Cardinality({}) = e.start
    BY <1>1, <1>3, <1>4, <2>3
  <2>7. Fetched(r, {}, cursor)'
    BY <1>1, <1>4, <1>5, <2>4, <2>5, <2>6 DEF Fetched
  <2>8. cursor \in 0..posted' /\ {} \in SUBSET (1..cursor) /\ cursor' = cursor
    BY <1>1, <1>3
  <2>9. QED
    BY <2>7, <2>8 DEF Fetching
<1>12. QED
  BY <1>7, <1>8, <1>9, <1>10, <1>11 DEF OnaInv

\* A run in the loop changes its row and stays in the loop.
LEMMA RowInside ==
  ASSUME Shape, NEW r \in DOMAIN runs, Looping(r), NEW e \in RunRows, e.at \in InLoop, e.base = runs[r].base,
         e.job = runs[r].job, runs' = [runs EXCEPT ![r] = e],
         UNCHANGED <<posted, deleted, cursor, jobs, queued, lock, status, crashes>>,
         Ids' \subseteq 1..posted, made' \in Seq([id : Nat, batch : Runs \cup {None}])
  PROVE  /\ Shape' /\ Looping(r)' /\ DOMAIN runs' = DOMAIN runs /\ runs'[r] = e
         /\ \A q \in DOMAIN runs' : Looping(q)' => q = r
<1>1. /\ runs' \in Seq(RunRows) /\ Len(runs') = Len(runs) /\ DOMAIN runs' = DOMAIN runs
      /\ runs'[r] = e /\ \A q \in DOMAIN runs : runs'[q] = IF q = r THEN e ELSE runs[q]
  BY Replaced DEF Shape
<1>2. lock = r /\ runs[r].base = cursor /\ \A q \in DOMAIN runs : Looping(q) => q = r
  BY OneLoops
<1>3. Looping(r)' /\ \A q \in DOMAIN runs' : Looping(q)' => q = r
  BY <1>1, <1>2 DEF Looping
<1>4. Shape'
  <2>1. \A q \in DOMAIN runs' : runs'[q].job \in DOMAIN jobs'
    BY <1>1 DEF Shape
  <2>2. \A q \in DOMAIN runs' : Looping(q)' => lock' = q /\ runs'[q].base = cursor'
    BY <1>1, <1>2, <1>3
  <2>3. \A q \in DOMAIN runs' : ~Looping(q)' => runs'[q].page = {} /\ runs'[q].start = 0
    <3> SUFFICES ASSUME NEW q \in DOMAIN runs', ~Looping(q)' PROVE runs'[q].page = {} /\ runs'[q].start = 0
      OBVIOUS
    <3>1. q # r /\ runs'[q] = runs[q] /\ q \in DOMAIN runs
      BY <1>1, <1>3
    <3>2. ~Looping(q)
      BY <1>1, <3>1 DEF Looping
    <3>3. QED
      BY <3>1, <3>2 DEF Shape
  <2>4. lock' # None => lock' \in DOMAIN runs' /\ runs'[lock'].at \in InLoop \cup {"dead"}
    BY <1>1, <1>2
  <2>5. QED
    BY <1>1, <2>1, <2>2, <2>3, <2>4 DEF Shape
<1>5. QED
  BY <1>1, <1>3, <1>4

LEMMA FetchKeeps == ASSUME OnaAssumption, OnaInv, NEW r, FetchPage(r) PROVE OnaInv'
<1>0. PICK Q : Q = Page(r)
  OBVIOUS
<1> DEFINE e == [runs[r] EXCEPT !.at = "import", !.page = Q, !.start = runs[r].start + Cardinality(Q)]
<1>1. /\ r \in DOMAIN runs /\ runs[r].at = "page" /\ Q # {} /\ runs' = [runs EXCEPT ![r] = e]
      /\ UNCHANGED <<posted, deleted, cursor, jobs, queued, lock, status, made, crashes>>
  BY <1>0 DEF FetchPage, At, source, bounds
<1>2. Shape /\ Looping(r)
  BY <1>1 DEF OnaInv, Looping, InLoop
<1>3. PICK top \in 0..posted : \E P \in SUBSET (1..top) : Fetched(r, P, top)
  BY <1>1, <1>2 DEF OnaInv, Fetching
<1>4. PICK P \in SUBSET (1..top) : Fetched(r, P, top)
  BY <1>3
<1>5. /\ posted \in Nat /\ runs[r].base \in Nat /\ runs[r].last \in Nat /\ runs[r].start \in Nat
      /\ cursor = runs[r].base /\ top >= runs[r].base
      /\ P \subseteq (runs[r].base + 1)..top /\ runs[r].last >= runs[r].base /\ runs[r].last <= top
  BY <1>1, <1>2, <1>4, FetchedFact
<1>6. runs[r].page = {} /\ top \in Nat
  BY <1>1, <1>3, <1>4, <1>5 DEF Fetched
<1>7. PICK m \in Q : /\ Q \subseteq (top + 1)..m
                     /\ Cardinality(Passed(r, P \cup Q, m)) <= Cardinality(P \cap deleted)
  BY <1>0, <1>1, <1>2, <1>4, <1>6, NextPage
<1>8. Q \subseteq 1..posted /\ Q \cap deleted = {} /\ Q \cap P = {} /\ m \in Nat /\ m > top /\ m <= posted
  <2>1. Q \subseteq 1..posted /\ Q \cap deleted = {}
    BY <1>0 DEF Page, Listed
  <2>2. m \in 1..posted /\ m \in (top + 1)..m
    BY <1>7, <2>1
  <2>3. Q \cap P = {}
    BY <1>6, <1>7
  <2>4. QED
    BY <1>5, <1>6, <2>1, <2>2, <2>3
<1>9. IsFiniteSet(Q) /\ Cardinality(Q) \in Nat /\ IsFiniteSet(P)
  BY <1>5, <1>6, <1>8, Counted, 1 \in Nat
<1>10. /\ e \in RunRows /\ e.at = "import" /\ e.page = Q /\ e.start = runs[r].start + Cardinality(Q)
       /\ e.base = runs[r].base /\ e.last = runs[r].last /\ e.job = runs[r].job
  <2>1. runs[r] \in RunRows /\ Q \subseteq Nat
    BY <1>1, <1>2, <1>8 DEF Shape
  <2>2. runs[r].start + Cardinality(Q) \in Nat
    BY <1>5, <1>9
  <2>3. "import" \in Working \cup Ended /\ Q \in SUBSET Nat
    BY <2>1 DEF Working, InLoop
  <2>4. e \in RunRows
    BY <2>1, <2>2, <2>3 DEF RunRows
  <2>5. QED
    BY <2>1, <2>4 DEF RunRows
<1> HIDE DEF e
<1>11. Ids' = Ids /\ \A k : Copies(k)' = Copies(k)
  BY <1>1 DEF Ids, Copies
<1>12. /\ Shape' /\ Looping(r)' /\ DOMAIN runs' = DOMAIN runs /\ runs'[r] = e
       /\ \A q \in DOMAIN runs' : Looping(q)' => q = r
  <2>1. e.at \in InLoop /\ Ids' \subseteq 1..posted /\ made' \in Seq([id : Nat, batch : Runs \cup {None}])
    BY <1>1, <1>2, <1>10, <1>11 DEF Shape, InLoop
  <2>2. QED
    BY <1>1, <1>2, <1>10, <2>1, RowInside
<1>13. MissingInv'
  BY <1>1, <1>2, <1>11, <1>12, StillMissing DEF OnaInv
<1>14. CopiesInv'
  <2>1. PICK n \in 0..posted :
          /\ Reached(n)
          /\ \A id \in 1..posted : Copies(id) <= 1 + crashes /\ (id > n => Copies(id) <= crashes)
          /\ crashes = 0 => n = IF made = <<>> THEN 0 ELSE made[Len(made)].id
    BY DEF OnaInv, CopiesInv
  <2>2. n = runs[r].last
    BY <1>1, <1>2, <2>1, OneLoops
  <2>3. Reached(n)'
    BY <1>1, <1>2, <1>10, <1>12, <2>2, OneLoops DEF Reached
  <2>4. QED
    BY <1>1, <1>11, <2>1, <2>3 DEF CopiesInv
<1>15. Fetched(r, P \cup Q, m)'
  <2>1. P \cup Q \subseteq (runs[r].base + 1)..m /\ m \in runs[r].base..posted
    BY <1>5, <1>6, <1>7, <1>8
  <2>2. Cardinality(P \cup Q) = runs[r].start + Cardinality(Q)
    <3>1. Cardinality(P) = runs[r].start /\ P \cap Q = {} /\ Cardinality({}) = 0
      BY <1>4, <1>8, FS_EmptySet DEF Fetched
    <3>2. Cardinality(P \cup Q) = Cardinality(P) + Cardinality(Q) - Cardinality(P \cap Q)
      BY <1>9, FS_Union
    <3>3. QED
      BY <1>5, <1>9, <3>1, <3>2
  <2>3. (P \cup Q) \ Q = P /\ \A id \in P : id <= runs[r].last /\ id \in Ids
    BY <1>4, <1>6, <1>8 DEF Fetched
  <2>4. \A id \in Q : id > runs[r].last
    BY <1>5, <1>6, <1>7
  <2>5. runs[r].last = runs[r].base \/ runs[r].last \in P
    BY <1>4 DEF Fetched
  <2>6. (P \cup Q) \cap deleted = P \cap deleted
    BY <1>8
  <2>7. \A x : Passed(r, P \cup Q, x)' = (runs[r].base + 1)..x \ (deleted \cup P \cup Q)
    BY <1>1, <1>10, <1>12 DEF Passed
  <2>8. \A x \in runs[r].base..m :
          Cardinality(Passed(r, P \cup Q, x)') <= Cardinality(deleted \cap (runs[r].base + 1)..x)
    <3> SUFFICES ASSUME NEW x \in runs[r].base..m
                 PROVE Cardinality(Passed(r, P \cup Q, x)') <= Cardinality(deleted \cap (runs[r].base + 1)..x)
      OBVIOUS
    <3> DEFINE N == Passed(r, P \cup Q, x)'
               D == deleted \cap (runs[r].base + 1)..x
    <3>1. D \in SUBSET (1..posted) /\ Cardinality(D) \in Nat
      <4>1. D \in SUBSET (1..posted)
        BY <1>2 DEF Shape
      <4>2. QED
        BY <1>5, <4>1, Counted, 1 \in Nat
    <3>2. CASE x <= top
      <4>1. N \in SUBSET Passed(r, P, x) /\ Passed(r, P, x) \in SUBSET (0..top)
        BY <1>5, <1>6, <2>7, <3>2 DEF Passed
      <4>2. Cardinality(N) <= Cardinality(Passed(r, P, x)) /\ Cardinality(N) \in Nat
            /\ Cardinality(Passed(r, P, x)) \in Nat
        BY <1>6, <4>1, Counted, 0 \in Nat
      <4>3. x \in runs[r].base..top
        BY <1>5, <1>6, <1>8, <3>2
      <4>4. Cardinality(Passed(r, P, x)) <= Cardinality(D)
        BY <1>4, <4>3 DEF Fetched
      <4>5. QED
        BY <3>1, <4>2, <4>4
    <3>3. CASE x > top
      <4>1. N \in SUBSET Passed(r, P \cup Q, m) /\ Passed(r, P \cup Q, m) \in SUBSET (0..m)
        BY <1>5, <1>8, <2>7 DEF Passed
      <4>2. Cardinality(N) <= Cardinality(Passed(r, P \cup Q, m)) /\ Cardinality(N) \in Nat
            /\ Cardinality(Passed(r, P \cup Q, m)) \in Nat
        BY <1>8, <4>1, Counted, 0 \in Nat
      <4>3. P \cap deleted \in SUBSET D
        <5>1. top \in Nat /\ x \in Nat /\ top <= x
          BY <1>5, <1>6, <1>8, <3>3
        <5>2. P \subseteq (runs[r].base + 1)..x
          BY <1>5, <5>1
        <5>3. QED
          BY <5>2
      <4>4. Cardinality(P \cap deleted) <= Cardinality(D) /\ Cardinality(P \cap deleted) \in Nat
        BY <1>5, <3>1, <4>3, Counted, 1 \in Nat
      <4>5. QED
        BY <1>7, <3>1, <4>2, <4>4
    <3>4. x \in Nat
      BY <1>5, <1>8
    <3>5. QED
      BY <1>6, <3>2, <3>3, <3>4
  <2>9. Cardinality(Passed(r, P \cup Q, m)') <= Cardinality((P \cup Q) \cap deleted)
    BY <1>7, <2>6, <2>7 DEF Passed
  <2>10. QED
    BY <1>1, <1>10, <1>11, <1>12, <2>1, <2>2, <2>3, <2>4, <2>5, <2>8, <2>9 DEF Fetched
<1>16. Fetching(r)'
  <2>1. m \in 0..posted' /\ P \cup Q \in SUBSET (1..m)
    BY <1>1, <1>5, <1>6, <1>7, <1>8
  <2>2. QED
    BY <1>15, <2>1 DEF Fetching
<1>17. QED
  BY <1>12, <1>13, <1>14, <1>16 DEF OnaInv

\* The next submission is a new one, the least that is left of the page.
LEMMA ImportFact ==
  ASSUME OnaInv, NEW r, ImportSubmission(r)
  PROVE  /\ r \in DOMAIN runs /\ Shape /\ Looping(r)
         /\ \E id \in runs[r].page :
              /\ id \in 1..posted /\ id > runs[r].last /\ \A k \in runs[r].page : id <= k
              /\ made' = Append(made, [id |-> id, batch |-> runs[r].batch])
              /\ runs' = [runs EXCEPT ![r] = [runs[r] EXCEPT
                            !.at = IF runs[r].page \ {id} = {} THEN "page" ELSE "import",
                            !.page = runs[r].page \ {id}, !.last = id]]
         /\ UNCHANGED <<posted, deleted, cursor, jobs, queued, lock, status, crashes>>
<1>1. /\ r \in DOMAIN runs /\ runs[r].at = "import"
      /\ UNCHANGED <<posted, deleted, cursor, jobs, queued, lock, status, crashes>>
  BY DEF ImportSubmission, At, source, bounds
<1>2. Shape /\ Looping(r)
  BY <1>1 DEF OnaInv, Looping, InLoop
<1>3. PICK top \in 0..posted : \E P \in SUBSET (1..top) : Fetched(r, P, top)
  BY <1>1, <1>2 DEF OnaInv, Fetching
<1>4. PICK P \in SUBSET (1..top) : Fetched(r, P, top)
  BY <1>3
<1>5. /\ posted \in Nat /\ runs[r].base \in Nat /\ runs[r].last \in Nat /\ runs[r].last >= runs[r].base
      /\ \A id \in runs[r].page : id \in Nat /\ id > runs[r].last /\ id <= posted
  BY <1>1, <1>2, <1>4, FetchedFact
<1>6. PICK id \in runs[r].page :
        LET rest == runs[r].page \ {id}
            new  == id > runs[r].base IN
        /\ \A k \in runs[r].page : id <= k
        /\ made' = IF new THEN Append(made, [id |-> id, batch |-> BatchOf(r)]) ELSE made
        /\ runs' = [runs EXCEPT ![r].at = IF rest = {} THEN "page" ELSE "import",
                                ![r].page = rest, ![r].last = IF new THEN id ELSE @]
  BY DEF ImportSubmission
<1>7. id \in Nat /\ id > runs[r].last /\ id <= posted /\ id > runs[r].base /\ id \in 1..posted
  BY <1>5
<1>8. QED
  BY <1>1, <1>2, <1>6, <1>7 DEF BatchOf

LEMMA ImportKeeps == ASSUME OnaAssumption, OnaInv, NEW r, ImportSubmission(r) PROVE OnaInv'
<1>1. /\ r \in DOMAIN runs /\ Shape /\ Looping(r)
      /\ UNCHANGED <<posted, deleted, cursor, jobs, queued, lock, status, crashes>>
  BY ImportFact
<1>2. PICK id \in runs[r].page :
        /\ id \in 1..posted /\ id > runs[r].last /\ \A k \in runs[r].page : id <= k
        /\ made' = Append(made, [id |-> id, batch |-> runs[r].batch])
        /\ runs' = [runs EXCEPT ![r] = [runs[r] EXCEPT
                      !.at = IF runs[r].page \ {id} = {} THEN "page" ELSE "import",
                      !.page = runs[r].page \ {id}, !.last = id]]
  BY ImportFact
<1> DEFINE rest == runs[r].page \ {id}
           e == [runs[r] EXCEPT !.at = IF rest = {} THEN "page" ELSE "import", !.page = rest, !.last = id]
<1>3. PICK top \in 0..posted : \E P \in SUBSET (1..top) : Fetched(r, P, top)
  BY <1>1 DEF OnaInv, Fetching
<1>4. PICK P \in SUBSET (1..top) : Fetched(r, P, top)
  BY <1>3
<1>5. /\ posted \in Nat /\ runs[r].base \in Nat /\ runs[r].last \in Nat /\ cursor = runs[r].base
      /\ runs[r].page \subseteq P /\ runs[r].last >= runs[r].base
      /\ \A k \in runs[r].page : k \in Nat /\ k > runs[r].last /\ k <= posted
  BY <1>1, <1>4, FetchedFact
<1>6. /\ runs[r] \in RunRows /\ runs[r].batch \in Runs \cup {None} /\ id \in Nat
      /\ made \in Seq([id : Nat, batch : Runs \cup {None}]) /\ crashes \in Nat
  <2>1. runs[r] \in RunRows
    BY <1>1 DEF Shape
  <2>2. QED
    BY <1>1, <1>2, <2>1 DEF RunRows, Shape
<1>7. /\ made' \in Seq([id : Nat, batch : Runs \cup {None}]) /\ Ids' = Ids \cup {id}
      /\ made' # <<>> /\ made'[Len(made')].id = id
      /\ \A k : Copies(k)' = IF k = id THEN Copies(k) + 1 ELSE Copies(k)
  BY <1>2, <1>6, OneMore
<1>8. /\ e \in RunRows /\ e.at \in InLoop /\ (e.at = "page" => rest = {}) /\ e.page = rest /\ e.last = id
      /\ e.base = runs[r].base /\ e.job = runs[r].job /\ e.start = runs[r].start
  <2>1. rest \in SUBSET Nat
    BY <1>5
  <2>2. "import" \in Working \cup Ended /\ "page" \in Working \cup Ended
    BY DEF Working, InLoop
  <2> HIDE DEF rest
  <2>3. e \in RunRows
    BY <1>6, <2>1, <2>2 DEF RunRows
  <2>4. QED
    BY <1>6, <2>3 DEF RunRows, InLoop
<1>9. runs' = [runs EXCEPT ![r] = e]
  BY <1>2
<1> HIDE DEF e
<1>10. /\ Shape' /\ Looping(r)' /\ DOMAIN runs' = DOMAIN runs /\ runs'[r] = e
       /\ \A q \in DOMAIN runs' : Looping(q)' => q = r
  <2>1. Ids' \subseteq 1..posted
    BY <1>1, <1>2, <1>7 DEF Shape
  <2>2. QED
    BY <1>1, <1>7, <1>8, <1>9, <2>1, RowInside
<1>11. MissingInv'
  BY <1>1, <1>7, <1>10, StillMissing DEF OnaInv
<1>12. CopiesInv'
  <2>1. PICK n \in 0..posted :
          /\ Reached(n)
          /\ \A k \in 1..posted : Copies(k) <= 1 + crashes /\ (k > n => Copies(k) <= crashes)
    BY DEF OnaInv, CopiesInv
  <2>2. n = runs[r].last
    BY <1>1, <2>1, OneLoops
  <2>3. Reached(id)'
    BY <1>1, <1>8, <1>10, OneLoops DEF Reached
  <2>4. \A k \in 1..posted : Copies(k)' <= 1 + crashes /\ (k > id => Copies(k)' <= crashes)
    <3> TAKE k \in 1..posted
    <3>1. Copies(k) \in Nat
      BY <1>6, Copied
    <3>2. CASE k = id
      <4>1. Copies(k) <= crashes /\ ~(k > id)
        BY <1>2, <1>5, <1>6, <2>1, <2>2, <3>2
      <4>2. Copies(k)' = Copies(k) + 1
        BY <1>7, <3>2
      <4>3. QED
        BY <1>6, <3>1, <4>1, <4>2
    <3>3. CASE k # id
      <4>1. Copies(k)' = Copies(k)
        BY <1>7, <3>3
      <4>2. k > id => k > n
        BY <1>2, <1>5, <1>6, <2>2
      <4>3. QED
        BY <2>1, <4>1, <4>2
    <3>4. QED
      BY <3>2, <3>3
  <2>5. id \in 0..posted' /\ posted' = posted /\ crashes' = crashes
    BY <1>1, <1>2, <1>5
  <2>6. QED
    BY <1>7, <2>3, <2>4, <2>5 DEF CopiesInv
<1>13. Fetched(r, P, top)'
  <2>1. \A x : Passed(r, P, x)' = Passed(r, P, x)
    BY <1>1, <1>8, <1>10 DEF Passed
  <2>2. rest \subseteq P /\ P \ rest = (P \ runs[r].page) \cup {id} /\ id \in P
    BY <1>2, <1>5
  <2>3. \A k \in P \ rest : k <= id /\ k \in Ids'
    <3>1. \A k \in P \ runs[r].page : k <= runs[r].last /\ k \in Ids /\ k \in Nat
      BY <1>3, <1>4, <1>5 DEF Fetched
    <3>2. QED
      BY <1>2, <1>5, <1>6, <1>7, <2>2, <3>1
  <2>4. \A k \in rest : k > id
    BY <1>2, <1>5, <1>6
  <2> HIDE DEF rest
  <2>5. id \in P \ rest
    BY <2>2
  <2>6. /\ P \subseteq (runs[r].base + 1)..top /\ top \in runs[r].base..posted /\ Cardinality(P) = runs[r].start
        /\ Cardinality(Passed(r, P, top)) <= Cardinality(P \cap deleted)
        /\ \A x \in runs[r].base..top :
             Cardinality(Passed(r, P, x)) <= Cardinality(deleted \cap (runs[r].base + 1)..x)
    BY <1>4 DEF Fetched
  <2>7. QED
    BY <1>1, <1>8, <1>10, <2>1, <2>2, <2>3, <2>4, <2>5, <2>6 DEF Fetched
<1>14. Fetching(r)'
  BY <1>1, <1>13 DEF Fetching
<1>15. QED
  BY <1>10, <1>11, <1>12, <1>14 DEF OnaInv

\* The run that was in the loop is out.
LEMMA RowLeaves ==
  ASSUME Shape, NEW r \in DOMAIN runs, Looping(r), NEW step \in {"timebox", "drained", "failed", "dead"},
         Leave(r, step)
  PROVE  /\ runs' \in Seq(RunRows) /\ Len(runs') = Len(runs) /\ DOMAIN runs' = DOMAIN runs
         /\ runs'[r].at = step
         /\ \A q \in DOMAIN runs : runs'[q].job = runs[q].job
         /\ \A q \in DOMAIN runs' : ~Looping(q)' /\ runs'[q].page = {} /\ runs'[q].start = 0
<1> DEFINE e == [runs[r] EXCEPT !.at = step, !.base = 0, !.last = 0, !.page = {}, !.start = 0]
<1>1. lock = r /\ runs[r] \in RunRows /\ \A q \in DOMAIN runs : Looping(q) => q = r
  BY OneLoops
<1>2. e \in RunRows /\ e.at = step /\ e.page = {} /\ e.start = 0 /\ e.job = runs[r].job
  <2>1. step \in Working \cup Ended
    BY DEF Working, Ended
  <2>2. QED
    BY <1>1, <2>1 DEF RunRows
<1>3. runs' = [runs EXCEPT ![r] = e]
  BY DEF Leave
<1> HIDE DEF e
<1>4. /\ runs' \in Seq(RunRows) /\ Len(runs') = Len(runs) /\ DOMAIN runs' = DOMAIN runs
      /\ runs'[r] = e /\ \A q \in DOMAIN runs : runs'[q] = IF q = r THEN e ELSE runs[q]
  BY <1>2, <1>3, Replaced DEF Shape
<1>5. \A q \in DOMAIN runs : runs'[q].job = runs[q].job
  BY <1>2, <1>4
<1>6. \A q \in DOMAIN runs' : ~Looping(q)' /\ runs'[q].page = {} /\ runs'[q].start = 0
  <2> TAKE q \in DOMAIN runs'
  <2>1. CASE q = r
    BY <1>2, <1>4, <2>1 DEF Looping, InLoop
  <2>2. CASE q # r
    <3>1. q \in DOMAIN runs /\ ~Looping(q) /\ runs'[q] = runs[q]
      BY <1>1, <1>4, <2>2
    <3>2. QED
      BY <3>1 DEF Shape, Looping
  <2>3. QED
    BY <2>1, <2>2
<1>7. QED
  BY <1>2, <1>4, <1>5, <1>6

\* What a run saves is what it has reached.
LEMMA SaveFact ==
  ASSUME OnaInv, NEW r \in DOMAIN runs, Looping(r), Save(r)
  PROVE  cursor' = runs[r].last /\ cursor' \in 0..posted
<1>1. Shape /\ runs[r].base = cursor /\ cursor \in 0..posted /\ posted \in Nat
  BY DEF OnaInv, Shape
<1>2. PICK top \in 0..posted : \E P \in SUBSET (1..top) : Fetched(r, P, top)
  BY DEF OnaInv, Fetching
<1>3. PICK P \in SUBSET (1..top) : Fetched(r, P, top)
  BY <1>2
<1>4. runs[r].last \in Nat /\ runs[r].last <= top
  BY <1>1, <1>3, FetchedFact
<1>5. QED
  BY <1>1, <1>4 DEF Save

\* What is missing of what the run has gone through was missing behind it or passed over.
LEMMA SaveMisses ==
  ASSUME OnaInv, NEW r \in DOMAIN runs, Looping(r), Save(r), UNCHANGED <<deleted, made>>
  PROVE  MissingInv'
<1>1. Shape /\ MissingInv /\ cursor' = runs[r].last /\ Ids' = Ids /\ deleted \subseteq 1..posted
  BY SaveFact DEF OnaInv, Ids, Shape
<1>2. PICK top \in 0..posted : \E P \in SUBSET (1..top) : Fetched(r, P, top)
  BY DEF OnaInv, Fetching
<1>3. PICK P \in SUBSET (1..top) : Fetched(r, P, top)
  BY <1>2
<1>4. /\ posted \in Nat /\ runs[r].base \in Nat /\ runs[r].last \in Nat /\ cursor = runs[r].base
      /\ P \subseteq (runs[r].base + 1)..top /\ runs[r].last >= runs[r].base /\ runs[r].last <= top
      /\ \A k \in runs[r].page : k \in Nat /\ k > runs[r].last /\ k <= posted
  BY <1>1, <1>3, FetchedFact
<1> SUFFICES ASSUME NEW x \in 0..runs[r].last
             PROVE  Cardinality(Missing(x)) <= Cardinality(deleted \cap 1..x)
  BY <1>1 DEF MissingInv, Missing
<1>5. CASE x <= cursor
  BY <1>1, <1>4, <1>5 DEF MissingInv
<1>6. CASE x > cursor
  <2> DEFINE M == Missing(cursor)
             N == Passed(r, P, x)
             D == deleted \cap 1..cursor
             E == deleted \cap (cursor + 1)..x
  <2>1. Missing(x) \subseteq M \cup N
    <3> SUFFICES ASSUME NEW y \in 1..x, y \notin deleted, y \notin Ids, y > cursor PROVE y \in N
      BY <1>4, <1>6 DEF Missing
    <3>1. y \notin runs[r].page
      BY <1>4
    <3>2. y \notin P
      BY <1>3, <3>1 DEF Fetched
    <3>3. QED
      BY <1>4, <3>2 DEF Passed
  <2>2. Cardinality(M) <= Cardinality(D)
    BY <1>1, <1>4 DEF MissingInv
  <2>3. Cardinality(N) <= Cardinality(E)
    BY <1>3, <1>4, <1>6 DEF Fetched
  <2>4. D \cap E = {} /\ deleted \cap 1..x = D \cup E
    BY <1>1, <1>4, <1>6
  <2>5. /\ IsFiniteSet(M) /\ Cardinality(M) \in Nat /\ IsFiniteSet(N) /\ Cardinality(N) \in Nat
        /\ IsFiniteSet(D) /\ Cardinality(D) \in Nat /\ IsFiniteSet(E) /\ Cardinality(E) \in Nat
    <3>1. M \in SUBSET (0..x) /\ N \in SUBSET (0..x) /\ D \in SUBSET (0..x) /\ E \in SUBSET (0..x) /\ x \in Nat
      BY <1>4, <1>6 DEF Missing, Passed
    <3> HIDE DEF M, N, D, E
    <3>2. QED
      BY <3>1, Counted, 0 \in Nat
  <2> HIDE DEF M, N, D, E
  <2>6. /\ Cardinality(M \cup N) = Cardinality(M) + Cardinality(N) - Cardinality(M \cap N)
        /\ IsFiniteSet(M \cup N) /\ Cardinality(M \cap N) \in Nat /\ Cardinality(M \cup N) \in Nat
    BY <2>5, FS_Union, FS_Intersection, FS_CardinalityType
  <2>7. Cardinality(D \cup E) = Cardinality(D) + Cardinality(E)
    <3>1. Cardinality(D \cup E) = Cardinality(D) + Cardinality(E) - Cardinality(D \cap E)
      BY <2>5, FS_Union
    <3>2. Cardinality(D \cap E) = 0
      BY <2>4, FS_EmptySet
    <3>3. QED
      BY <2>5, <3>1, <3>2
  <2>8. Cardinality(Missing(x)) <= Cardinality(M \cup N) /\ Cardinality(Missing(x)) \in Nat
    BY <2>1, <2>6, FS_Subset, FS_CardinalityType
  <2>9. QED
    BY <2>2, <2>3, <2>4, <2>5, <2>6, <2>7, <2>8
<1>7. QED
  BY <1>4, <1>5, <1>6

LEMMA LeaveKeeps ==
  ASSUME OnaAssumption, OnaInv, NEW r \in DOMAIN runs, Looping(r),
         NEW step \in {"timebox", "drained", "failed"}, LeaveLoop(r, step)
  PROVE  OnaInv'
<1>1. /\ Leave(r, step) /\ Save(r) /\ lock' = IF lock = r THEN None ELSE lock
      /\ UNCHANGED <<posted, deleted, jobs, queued, status, made, crashes>>
  BY DEF LeaveLoop, source, bounds
<1>2. Shape /\ MissingInv /\ CopiesInv /\ lock = r
  BY OneLoops DEF OnaInv
<1>3. /\ runs' \in Seq(RunRows) /\ Len(runs') = Len(runs) /\ DOMAIN runs' = DOMAIN runs
      /\ \A q \in DOMAIN runs : runs'[q].job = runs[q].job
      /\ \A q \in DOMAIN runs' : ~Looping(q)' /\ runs'[q].page = {} /\ runs'[q].start = 0
  BY <1>1, <1>2, RowLeaves
<1>4. cursor' = runs[r].last /\ cursor' \in 0..posted
  BY <1>1, SaveFact
<1>5. MissingInv'
  BY <1>1, SaveMisses
<1>6. Shape'
  <2>1. Ids' = Ids /\ lock' = None
    BY <1>1, <1>2 DEF Ids
  <2>2. \A q \in DOMAIN runs' : runs'[q].job \in DOMAIN jobs'
    BY <1>1, <1>2, <1>3 DEF Shape
  <2>3. \A q \in DOMAIN runs' : Looping(q)' => lock' = q /\ runs'[q].base = cursor'
    BY <1>3
  <2>4. QED
    BY <1>1, <1>2, <1>3, <1>4, <2>1, <2>2, <2>3 DEF Shape, None
<1>7. CopiesInv'
  <2>1. PICK n \in 0..posted :
          /\ Reached(n)
          /\ \A id \in 1..posted : Copies(id) <= 1 + crashes /\ (id > n => Copies(id) <= crashes)
          /\ crashes = 0 => n = IF made = <<>> THEN 0 ELSE made[Len(made)].id
    BY <1>2 DEF CopiesInv
  <2>2. n = runs[r].last
    BY <1>2, <2>1, OneLoops
  <2>3. Reached(n)'
    BY <1>3, <1>4, <2>2 DEF Reached
  <2>4. \A k : Copies(k)' = Copies(k)
    BY <1>1 DEF Copies
  <2>5. QED
    BY <1>1, <2>1, <2>3, <2>4 DEF CopiesInv
<1>8. QED
  BY <1>3, <1>5, <1>6, <1>7 DEF OnaInv

LEMMA CrashKeeps == ASSUME OnaAssumption, OnaInv, NEW r, Crash(r) PROVE OnaInv'
<1>1. /\ r \in DOMAIN runs /\ runs[r].at \in Working /\ crashes' = crashes + 1 /\ Leave(r, "dead")
      /\ queued' = queued \cup {runs[r].job}
      /\ UNCHANGED <<posted, deleted, cursor, jobs, status, made, lock>>
  BY DEF Crash, Active, source
<1>2. Shape /\ MissingInv /\ CopiesInv /\ crashes \in Nat /\ posted \in Nat /\ deleted \subseteq 1..posted
  BY DEF OnaInv, Shape
<1>3. queued' \subseteq DOMAIN jobs' /\ jobs' = jobs
  BY <1>1, <1>2 DEF Shape
<1>4. CASE ~Looping(r)
  <2> DEFINE e == [runs[r] EXCEPT !.at = "dead", !.base = 0, !.last = 0, !.page = {}, !.start = 0]
  <2>1. runs[r].at \in Working \ InLoop
    BY <1>1, <1>4 DEF Looping
  <2>2. runs[r] \in RunRows
    BY <1>1, <1>2 DEF Shape
  <2>3. e \in RunRows /\ e.at = "dead" /\ e.page = {} /\ e.start = 0 /\ e.job = runs[r].job
    BY <2>2 DEF RunRows, Ended
  <2>4. runs' = [runs EXCEPT ![r] = e]
    BY <1>1 DEF Leave
  <2> HIDE DEF e
  <2>5. Shape' /\ SameLoop
    <3>1. crashes' \in Nat /\ jobs' \in Seq(Runs \cup {None}) /\ DOMAIN jobs \subseteq DOMAIN jobs'
          /\ status' \in [Runs -> {"none", "LOADING", "COMPLETE"}] /\ e.at \notin InLoop
      BY <1>1, <1>2, <2>3 DEF Shape, InLoop
    <3>2. QED
      BY <1>1, <1>2, <1>3, <1>4, <2>3, <2>4, <3>1, ShapeOutside
  <2>6. posted <= posted' /\ deleted \subseteq deleted' /\ crashes' \in {crashes, crashes + 1}
    BY <1>1, <1>2
  <2>7. QED
    BY <1>1, <2>5, <2>6, Unmoved
<1>5. CASE Looping(r)
  <2>1. /\ runs' \in Seq(RunRows) /\ Len(runs') = Len(runs) /\ DOMAIN runs' = DOMAIN runs
        /\ runs'[r].at = "dead"
        /\ \A q \in DOMAIN runs : runs'[q].job = runs[q].job
        /\ \A q \in DOMAIN runs' : ~Looping(q)' /\ runs'[q].page = {} /\ runs'[q].start = 0
    BY <1>1, <1>2, <1>5, RowLeaves
  <2>2. Shape'
    <3>1. Ids' = Ids /\ lock' = r
      BY <1>1, <1>2, <1>5, OneLoops DEF Ids
    <3>2. \A q \in DOMAIN runs' : runs'[q].job \in DOMAIN jobs'
      BY <1>1, <1>2, <2>1 DEF Shape
    <3>3. \A q \in DOMAIN runs' : Looping(q)' => lock' = q /\ runs'[q].base = cursor'
      BY <2>1
    <3>4. lock' \in DOMAIN runs' /\ runs'[lock'].at \in InLoop \cup {"dead"} /\ lock' \in Nat
      BY <1>1, <1>2, <2>1, <3>1 DEF Shape
    <3>5. crashes' \in Nat
      BY <1>1, <1>2
    <3>6. QED
      BY <1>1, <1>2, <1>3, <2>1, <3>1, <3>2, <3>3, <3>4, <3>5 DEF Shape
  <2>3. MissingInv'
    BY <1>1, <1>2, <2>2, StillMissing DEF Ids
  <2>4. CopiesInv'
    <3>1. \A k \in 1..posted : Copies(k) <= 1 + crashes /\ Copies(k) \in Nat /\ Copies(k)' = Copies(k)
      BY <1>1, <1>2, Copied DEF CopiesInv, Shape, Copies
    <3>2. Reached(cursor)' /\ cursor \in 0..posted
      BY <1>1, <1>2, <2>1 DEF Reached, Shape
    <3>3. \A k \in 1..posted' : Copies(k)' <= 1 + crashes' /\ Copies(k)' <= crashes'
      BY <1>1, <1>2, <3>1
    <3>4. crashes' # 0
      BY <1>1, <1>2
    <3>5. QED
      BY <1>1, <3>2, <3>3, <3>4 DEF CopiesInv
  <2>5. QED
    BY <2>1, <2>2, <2>3, <2>4 DEF OnaInv
<1>6. QED
  BY <1>4, <1>5

-----------------------------------------------------------------------------
(* All steps.                                                              *)

LEMMA InitOna == OnaAssumption /\ Init => OnaInv
<1> SUFFICES ASSUME OnaAssumption, Init PROVE OnaInv
  OBVIOUS
<1> USE DEF Init
<1>1. Ids = {} /\ \A k : Copies(k) = 0
  <2>1. DOMAIN made = {}
    OBVIOUS
  <2>2. \A k : {n \in DOMAIN made : made[n].id = k} = {}
    BY <2>1
  <2>3. QED
    BY <2>1, <2>2, FS_EmptySet DEF Ids, Copies
<1>2. Shape
  <2>1. DOMAIN runs = {} /\ Len(runs) = 0 /\ MaxRuns \in Nat /\ MaxPosted \in Nat
    BY RunsBound DEF OnaAssumption
  <2>2. QED
    BY <1>1, <2>1 DEF Shape, None
<1>3. MissingInv
  <2> SUFFICES ASSUME NEW x \in 0..cursor PROVE Cardinality(Missing(x)) <= Cardinality(deleted \cap 1..x)
    BY DEF MissingInv
  <2>1. Missing(x) = {} /\ deleted \cap 1..x = {}
    BY DEF Missing
  <2>2. QED
    BY <2>1, FS_EmptySet
<1>4. CopiesInv
  <2>1. Reached(0)
    BY DEF Reached
  <2>2. QED
    BY <1>1, <2>1 DEF CopiesInv
<1>5. QED
  BY <1>2, <1>3, <1>4 DEF OnaInv

LEMMA WorkKeeps == ASSUME OnaAssumption, OnaInv, NEW r, Work(r) PROVE OnaInv'
<1>1. ASSUME At(r, "import") \/ At(r, "page") PROVE r \in DOMAIN runs /\ Looping(r)
  BY <1>1 DEF At, Looping, InLoop
<1>2. CASE Setup(r)
  BY <1>2, SetupKeeps
<1>3. CASE FetchPage(r)
  BY <1>3, FetchKeeps
<1>4. CASE ImportSubmission(r)
  BY <1>4, ImportKeeps
<1>5. CASE Timebox(r)
  BY <1>1, <1>5, LeaveKeeps DEF Timebox
<1>6. CASE Drain(r)
  BY <1>1, <1>6, LeaveKeeps DEF Drain
<1>7. CASE Fail(r)
  BY <1>1, <1>7, LeaveKeeps DEF Fail
<1>8. CASE Stop(r)
  BY <1>8, StopKeeps
<1>9. CASE Continue(r)
  BY <1>9, ContinueKeeps
<1>10. CASE Complete(r)
  BY <1>10, CompleteKeeps
<1>11. QED
  BY <1>2, <1>3, <1>4, <1>5, <1>6, <1>7, <1>8, <1>9, <1>10 DEF Work

LEMMA NextOna == OnaAssumption /\ OnaInv /\ [Next]_vars => OnaInv'
<1> SUFFICES ASSUME OnaAssumption, OnaInv, [Next]_vars PROVE OnaInv'
  OBVIOUS
<1>1. CASE UNCHANGED vars
  <2>1. posted <= posted' /\ crashes' \in {crashes, crashes + 1} /\ SameLoop
    BY <1>1 DEF vars, OnaInv, Shape, SameLoop, Looping
  <2>2. Shape'
    BY <1>1 DEF vars, OnaInv, Shape, Ids, Looping
  <2>3. QED
    BY <1>1, <2>1, <2>2, Unmoved DEF vars
<1>2. CASE Submit
  BY <1>2, SubmitKeeps
<1>3. CASE RequestImport
  BY <1>3, RequestKeeps
<1>4. CASE Expire
  BY <1>4, ExpireKeeps
<1>5. CASE \E id \in 1..MaxPosted : Delete(id)
  BY <1>5, DeleteKeeps
<1>6. CASE \E j \in 1..MaxJobs : Deliver(j)
  BY <1>6, DeliverKeeps
<1>7. ASSUME NEW r \in Runs, Enter(r) \/ Work(r) \/ Redeliver(r) \/ Crash(r) PROVE OnaInv'
  BY <1>7, EnterKeeps, WorkKeeps, RedeliverKeeps, CrashKeeps
<1>8. QED
  BY <1>1, <1>2, <1>3, <1>4, <1>5, <1>6, <1>7 DEF Next

\* The invariants that the runs check follow.
LEMMA OnaMeans == OnaAssumption /\ OnaInv => TypeOK /\ SkipsAreDeletions /\ RepeatsAreCrashes
<1> SUFFICES ASSUME OnaAssumption, OnaInv PROVE TypeOK /\ SkipsAreDeletions /\ RepeatsAreCrashes
  OBVIOUS
<1>1. Shape /\ MissingInv /\ CopiesInv
  BY DEF OnaInv
<1>2. posted \in Nat /\ cursor \in 0..posted /\ deleted \subseteq 1..posted
      /\ made \in Seq([id : Nat, batch : Runs \cup {None}])
  BY <1>1 DEF Shape
<1>3. TypeOK
  <2>1. \A r \in DOMAIN runs : runs[r].at \in Working \cup Ended
    <3> TAKE r \in DOMAIN runs
    <3>1. runs[r] \in RunRows
      BY <1>1 DEF Shape
    <3>2. QED
      BY <3>1 DEF RunRows
  <2>2. \A j \in DOMAIN jobs : jobs[j] \in Runs \cup {None}
    BY <1>1 DEF Shape
  <2>3. \A r \in DOMAIN runs : runs[r].at \in InLoop => lock = r
    BY <1>1 DEF Shape, Looping
  <2>4. posted \in 0..MaxPosted /\ cursor \in 0..MaxPosted
    BY <1>1, <1>2 DEF Shape, OnaAssumption
  <2>5. QED
    BY <1>1, <2>1, <2>2, <2>3, <2>4 DEF Shape, TypeOK
<1>4. SkipsAreDeletions
  <2> DEFINE S == {id \in 1..cursor : id \notin deleted /\ Copies(id) = 0}
  <2>1. S = Missing(cursor)
    BY <1>2, Copied DEF Missing
  <2>2. Cardinality(Missing(cursor)) <= Cardinality(deleted \cap 1..cursor)
    BY <1>1, <1>2 DEF MissingInv
  <2>3. Cardinality(deleted \cap 1..cursor) <= Cardinality(deleted) /\ Cardinality(deleted) \in Nat
        /\ Cardinality(deleted \cap 1..cursor) \in Nat
    BY <1>2, Counted, 1 \in Nat
  <2>4. Cardinality(Missing(cursor)) \in Nat
    <3>1. Missing(cursor) \in SUBSET (1..cursor) /\ cursor \in Nat
      BY <1>2 DEF Missing
    <3>2. QED
      BY <3>1, Counted, 1 \in Nat
  <2>5. Cardinality(S) <= Cardinality(deleted)
    BY <2>1, <2>2, <2>3, <2>4
  <2>6. QED
    BY <2>5 DEF SkipsAreDeletions
<1>5. RepeatsAreCrashes
  BY <1>1 DEF CopiesInv, RepeatsAreCrashes
<1>6. QED
  BY <1>3, <1>4, <1>5

-----------------------------------------------------------------------------
(* Without dead workers, ImportOnce.                                       *)

LEMMA InitOnce == Init => Once!Init
BY DEF Init, Once!Init, ImportedIds

\* The list of imported ids is as long as the list of imports, and ends the same.
LEMMA IdsAre ==
  ASSUME NEW M \in Seq([id : Nat, batch : Runs \cup {None}])
  PROVE  LET I == [n \in DOMAIN M |-> M[n].id] IN
         /\ I \in Seq(Nat) /\ Len(I) = Len(M) /\ (I = <<>> <=> M = <<>>)
         /\ M # <<>> => I[Len(I)] = M[Len(M)].id
<1> DEFINE I == [n \in DOMAIN M |-> M[n].id]
<1>1. DOMAIN M = 1..Len(M) /\ Len(M) \in Nat /\ \A n \in 1..Len(M) : M[n].id \in Nat
  <2> DEFINE S == [id : Nat, batch : Runs \cup {None}]
  <2>1. \A m \in S : m.id \in Nat
    OBVIOUS
  <2> HIDE DEF S
  <2>2. DOMAIN M = 1..Len(M) /\ Len(M) \in Nat /\ \A n \in 1..Len(M) : M[n] \in S
    BY Rows DEF S
  <2>3. QED
    BY <2>1, <2>2
<1>2. I \in [1..Len(M) -> Nat]
  BY <1>1
<1>3. I \in Seq(Nat) /\ Len(I) = Len(M)
  BY <1>1, <1>2
<1>4. I = <<>> <=> M = <<>>
  <2>1. I = <<>> <=> Len(I) = 0
    BY <1>3
  <2>2. M = <<>> <=> Len(M) = 0
    OBVIOUS
  <2>3. QED
    BY <1>3, <2>1, <2>2
<1>5. M # <<>> => Len(M) \in DOMAIN M
  OBVIOUS
<1>6. QED
  BY <1>3, <1>4, <1>5

LEMMA NextOnce ==
  ASSUME OnaAssumption, OnaInv, crashes = 0, [Next]_vars
  PROVE  [Once!Next]_(Once!vars)
<1> USE DEF Once!vars
<1>1. PICK n \in 0..posted : Reached(n) /\ n = IF made = <<>> THEN 0 ELSE made[Len(made)].id
  BY DEF OnaInv, CopiesInv
<1>2. Shape /\ posted \in 0..MaxPosted /\ made \in Seq([id : Nat, batch : Runs \cup {None}])
  BY DEF OnaInv, Shape
<1>3. n = Once!Newest
  BY <1>1, <1>2, IdsAre DEF Once!Newest, ImportedIds
<1>4. ASSUME UNCHANGED <<made, cursor>> PROVE UNCHANGED Once!vars
  BY <1>4 DEF ImportedIds
<1>5. ASSUME NEW r \in DOMAIN runs, Looping(r), NEW step, LeaveLoop(r, step) PROVE Once!Next
  <2>1. made' = made /\ cursor' = runs[r].last
    BY <1>5, SaveFact DEF LeaveLoop
  <2>2. n = runs[r].last
    BY <1>1, <1>2, <1>5, OneLoops
  <2>3. Once!Save
    BY <1>3, <2>1, <2>2 DEF Once!Save, ImportedIds
  <2>4. QED
    BY <2>3 DEF Once!Next
<1>6. ASSUME NEW r, ImportSubmission(r) PROVE Once!Next
  <2>1. r \in DOMAIN runs /\ Looping(r) /\ UNCHANGED cursor
    BY <1>6, ImportFact
  <2>2. PICK id \in 1..posted : id > runs[r].last /\ made' = Append(made, [id |-> id, batch |-> runs[r].batch])
    BY <1>6, ImportFact
  <2>3. n = runs[r].last
    BY <1>1, <1>2, <2>1, OneLoops
  <2>4. ImportedIds' = Append(ImportedIds, id)
    <3> DEFINE e == [id |-> id, batch |-> runs[r].batch]
               S == [id : Nat, batch : Runs \cup {None}]
               l == Len(made) + 1
    <3>1. runs[r] \in RunRows /\ id \in Nat
      BY <1>2, <2>1 DEF Shape
    <3>2. e \in S
      BY <3>1 DEF RunRows
    <3>3. /\ made' \in Seq(S) /\ Len(made') = l /\ made'[l] = e /\ Len(made) \in Nat
          /\ \A k \in DOMAIN made : made'[k] = made[k]
      BY <1>2, <2>2, <3>2, Appended
    <3>4. ImportedIds \in Seq(Nat) /\ Len(ImportedIds) = Len(made) /\ ImportedIds' \in Seq(Nat)
          /\ Len(ImportedIds') = l
      BY <1>2, <3>3, IdsAre DEF ImportedIds
    <3>5. /\ \A k \in 1..Len(made) : ImportedIds[k] = made[k].id
          /\ \A k \in 1..l : ImportedIds'[k] = made'[k].id
      BY <1>2, <3>3 DEF ImportedIds
    <3>6. \A k \in 1..l : ImportedIds'[k] = IF k = l THEN id ELSE ImportedIds[k]
      <4> TAKE k \in 1..l
      <4>1. CASE k = l
        BY <3>3, <3>5, <4>1
      <4>2. CASE k # l
        <5>1. k \in 1..Len(made) /\ k \in DOMAIN made
          BY <1>2, <3>3, <4>2
        <5>2. QED
          BY <3>3, <3>5, <4>2, <5>1
      <4>3. QED
        BY <4>1, <4>2
    <3> HIDE DEF l
    <3>7. Append(ImportedIds, id) \in Seq(Nat) /\ Len(Append(ImportedIds, id)) = l
          /\ \A k \in 1..l : Append(ImportedIds, id)[k] = IF k = l THEN id ELSE ImportedIds[k]
      BY <3>1, <3>3, <3>4 DEF l
    <3>8. QED
      BY <3>4, <3>6, <3>7
  <2>5. id \in 1..MaxPosted
    BY <1>2, <2>2 DEF OnaAssumption
  <2>6. Once!Import(id)
    BY <1>3, <2>1, <2>2, <2>3, <2>4 DEF Once!Import
  <2>7. QED
    BY <2>5, <2>6 DEF Once!Next
<1>7. ASSUME NEW r, Work(r) PROVE [Once!Next]_(Once!vars)
  <2>1. CASE ImportSubmission(r)
    BY <1>6, <2>1
  <2>2. CASE Timebox(r) \/ Drain(r) \/ Fail(r)
    <3>1. r \in DOMAIN runs /\ Looping(r) /\ \E step : LeaveLoop(r, step)
      BY <2>2 DEF Timebox, Drain, Fail, At, Looping, InLoop
    <3>2. QED
      BY <1>5, <3>1
  <2>3. CASE Setup(r) \/ FetchPage(r) \/ Stop(r) \/ Continue(r) \/ Complete(r)
    BY <1>4, <2>3 DEF Setup, FetchPage, Stop, Continue, Complete
  <2>4. QED
    BY <1>7, <2>1, <2>2, <2>3 DEF Work
<1>8. CASE UNCHANGED vars
  BY <1>4, <1>8 DEF vars
<1>9. CASE Submit \/ RequestImport \/ Expire
  BY <1>4, <1>9 DEF Submit, RequestImport, Expire
<1>10. CASE \E id \in 1..MaxPosted : Delete(id)
  BY <1>4, <1>10 DEF Delete
<1>11. CASE \E j \in 1..MaxJobs : Deliver(j)
  BY <1>4, <1>11 DEF Deliver
<1>12. ASSUME NEW r \in Runs, Enter(r) \/ Redeliver(r) \/ Crash(r) PROVE UNCHANGED Once!vars
  BY <1>4, <1>12 DEF Enter, Redeliver, Crash
<1>13. QED
  BY <1>7, <1>8, <1>9, <1>10, <1>11, <1>12 DEF Next

NoneDead == crashes = 0

\* With a bound of 0 no worker dies.
LEMMA NoCrash == OnaAssumption /\ MaxCrashes = 0 /\ crashes = 0 /\ [Next]_vars => crashes' = 0
<1> SUFFICES ASSUME OnaAssumption, MaxCrashes = 0, crashes = 0, [Next]_vars PROVE crashes' = 0
  OBVIOUS
<1>1. ASSUME NEW r, Work(r) PROVE crashes' = crashes
  BY <1>1 DEF Work, Setup, FetchPage, ImportSubmission, Timebox, Drain, Fail, Stop, Continue, Complete,
     LeaveLoop, bounds
<1>2. ASSUME NEW r, Crash(r) PROVE FALSE
  BY <1>2 DEF Crash
<1>3. QED
  BY <1>1, <1>2 DEF Next, vars, Submit, RequestImport, Expire, Delete, Deliver, Enter, Redeliver, bounds
-----------------------------------------------------------------------------
(* The theorems.                                                           *)

\* No more submissions are skipped than are deleted in ONA, and a submission is created again
\* only for what a dead worker had not saved: pages by offset, the cursor and the lock of the
\* form in contrib/ona, however imports overlap and jobs are delivered again.
THEOREM NoneLostOrRepeated ==
  OnaAssumption => (Spec => [](TypeOK /\ SkipsAreDeletions /\ RepeatsAreCrashes))
<1> SUFFICES ASSUME OnaAssumption PROVE Spec => [](TypeOK /\ SkipsAreDeletions /\ RepeatsAreCrashes)
  OBVIOUS
<1>1. Init => OnaInv
  BY InitOna
<1>2. OnaInv /\ [Next]_vars => OnaInv'
  BY NextOna
<1>3. OnaInv => TypeOK /\ SkipsAreDeletions /\ RepeatsAreCrashes
  BY OnaMeans
<1>4. QED
  BY <1>1, <1>2, <1>3, PTL DEF Spec

\* Unless a worker dies, overlapping imports of a form implement ImportOnce.
THEOREM ImportsAreOnce == OnaAssumption /\ MaxCrashes = 0 => (Spec => ImportsOnce)
<1> SUFFICES ASSUME OnaAssumption, MaxCrashes = 0 PROVE Spec => ImportsOnce
  OBVIOUS
<1>1. Init => OnaInv /\ NoneDead /\ Once!Init
  BY InitOna, InitOnce DEF Init, NoneDead
<1>2. OnaInv /\ NoneDead /\ [Next]_vars => OnaInv' /\ NoneDead' /\ [Once!Next]_(Once!vars)
  BY NextOna, NoCrash, NextOnce DEF NoneDead
<1>3. QED
  BY <1>1, <1>2, PTL DEF Spec, ImportsOnce, Once!Spec
=============================================================================
