------------------------ MODULE MemorySystem_proofs ------------------------
(***************************************************************************)
(* Proofs about MemorySystem, for any number of instances, records,        *)
(* contents, values, operations and failed saves, and any measure of       *)
(* similarity.                                                             *)
(*                                                                         *)
(* The proof has two parts.  The first is about lists of memories: what    *)
(* add, update, restore, archive and delete make of a good list is a good  *)
(* list.  That superseded_by never leads in a circle is said of sets (every *)
(* set of replaced records has one that leads out of it), so no induction  *)
(* along the chain is needed: a record is only ever superseded by one that *)
(* is in use, and a record in use is superseded by none.  The second part  *)
(* is about copies: the list an operation starts from is the table, or the *)
(* table with the edit of a failed save, or the copy was fetched across    *)
(* another's write (MemoryInv).                                            *)
(***************************************************************************)
EXTENDS MemorySystem, WellFoundedInduction, TLAPS

-----------------------------------------------------------------------------
(* Lists.                                                                  *)

IsActive(L, m) == L[m].status = "active"

\* What a merge may fill in is the same in record n of L and N, or more of
\* it is there in N.
SameDetails(L, N, n) == N[n].key = L[n].key /\ N[n].value = L[n].value
Gains(L, N, n) ==
    \/ L[n].key = None /\ N[n].key # None
    \/ L[n].value = None /\ N[n].value # None

\* A list of records; those that are not in it are all alike.
Shape(L) ==
    /\ L \in [MemIds -> MemoryRow]
    /\ \A m \in MemIds : L[m].status = "absent" => L[m] = NoMemory

\* No record of L is missing in N.
Covers(L, N) ==
    \A m \in MemIds : L[m].status # "absent" => N[m].status # "absent"

\* ActiveMemoriesAgree of a list, F being filled.
Agree(L, F) ==
    \A m, n \in MemIds : IsActive(L, m) /\ IsActive(L, n) /\ m # n =>
        /\ L[m].content # L[n].content
        /\ m \in F \/ n \in F \/ ~Contradict(L, m, n)

\* SupersessionEnds of a list.
Replaced(L) == {m \in MemIds : L[m].by # None}
Settled(L) == \A m \in Replaced(L) :
    /\ L[L[m].by].status # "absent"
    /\ L[m].status \in {"archived", "deleted"}
LeadsOut(L) ==
    \A S \in (SUBSET Replaced(L)) \ {{}} : \E m \in S : L[m].by \notin S

Good(L, F) == Agree(L, F) /\ Settled(L) /\ LeadsOut(L)

\* Every record superseded in N was so in L, or is by one that is not.
LEMMA EndsKept ==
    ASSUME NEW L, NEW N, Shape(L), Shape(N), Settled(L), LeadsOut(L),
           Covers(L, N),
           \A m \in MemIds : N[m].by # None =>
               /\ N[m].status \in {"archived", "deleted"}
               /\ \/ N[m].by = L[m].by
                  \/ N[N[m].by].by = None /\ N[N[m].by].status # "absent"
    PROVE  Settled(N) /\ LeadsOut(N)
<1>1. \A m \in Replaced(N) : N[m].by \in MemIds
    BY DEF Replaced, Shape, MemoryRow
<1>2. \A m \in Replaced(N) : N[m].by = L[m].by => m \in Replaced(L)
    BY DEF Replaced
<1>3. Settled(N)
    BY <1>1, <1>2 DEF Settled, Covers, Replaced
<1>4. ASSUME NEW S \in (SUBSET Replaced(N)) \ {{}}
      PROVE  \E m \in S : N[m].by \notin S
    <2>1. CASE \E m \in S : N[m].by # L[m].by
        <3>1. PICK m \in S : N[m].by # L[m].by
            BY <2>1
        <3>2. m \in MemIds /\ N[m].by # None
            BY DEF Replaced
        <3>3. N[N[m].by].by = None
            BY <3>1, <3>2
        <3>4. N[m].by \notin S
            BY <3>3 DEF Replaced
        <3> QED
            BY <3>4
    <2>2. CASE \A m \in S : N[m].by = L[m].by
        <3>1. S \in (SUBSET Replaced(L)) \ {{}}
            BY <1>2, <2>2
        <3> QED
            BY <3>1, <2>2 DEF LeadsOut
    <2> QED
        BY <2>1, <2>2
<1> QED
    BY <1>3, <1>4 DEF LeadsOut

\* All but one of the active memories of N were so in L, with the same
\* content and, unless it was filled in, the same key and value.
LEMMA AgreeKept ==
    ASSUME NEW L, NEW N, NEW F, NEW G, Agree(L, F), F \subseteq G, NEW x,
           \A n \in MemIds \ {x} : IsActive(N, n) =>
               /\ IsActive(L, n)
               /\ N[n].content = L[n].content
               /\ N[n].entity = L[n].entity
               /\ n \in G \/ SameDetails(L, N, n),
           x \in MemIds /\ IsActive(N, x) =>
               \A n \in MemIds \ {x} : IsActive(N, n) =>
                   /\ N[n].content # N[x].content
                   /\ n \in G \/ x \in G \/ ~Contradict(N, n, x)
    PROVE  Agree(N, G)
<1> SUFFICES ASSUME NEW m \in MemIds, NEW n \in MemIds,
                    IsActive(N, m), IsActive(N, n), m # n
             PROVE  /\ N[m].content # N[n].content
                    /\ m \in G \/ n \in G \/ ~Contradict(N, m, n)
    BY DEF Agree
<1>1. CASE x \notin {m, n}
    BY <1>1 DEF Agree, Contradict, SameDetails
<1>2. CASE x \in {m, n}
    BY <1>2 DEF Contradict
<1> QED
    BY <1>1, <1>2

\* A memory in use is superseded by none.
LEMMA InUse ==
    ASSUME NEW L, Settled(L), NEW m \in MemIds,
           L[m].status \notin {"archived", "deleted"}
    PROVE  L[m].by = None
BY DEF Settled, Replaced

-----------------------------------------------------------------------------
(* The edits the operations are made of.                                   *)

\* Record x becomes r, and what contradicts it is superseded.
Superseding(L, x, r) ==
    [Superseded(L, Conflicts(L, r) \ {x}, x) EXCEPT ![x] = r]

LEMMA SupersedingFields ==
    ASSUME NEW L, Shape(L), NEW x \in MemIds, NEW r \in MemoryRow,
           r.status # "absent"
    PROVE  /\ Shape(Superseding(L, x, r))
           /\ Covers(L, Superseding(L, x, r))
           /\ Superseding(L, x, r)[x] = r
           /\ \A n \in Conflicts(L, r) \ {x} :
                /\ Superseding(L, x, r)[n].status = "archived"
                /\ Superseding(L, x, r)[n].by = x
           /\ \A n \in MemIds \ {x} : n \notin Conflicts(L, r) =>
                Superseding(L, x, r)[n] = L[n]
<1> DEFINE C == Conflicts(L, r)
           N == Superseding(L, x, r)
<1>1. N \in [MemIds -> MemoryRow]
    BY DEF Superseding, Superseded, Shape, MemoryRow
<1>2. /\ N[x] = r
      /\ \A n \in MemIds \ {x} : N[n] =
            IF n \in C THEN [L[n] EXCEPT !.status = "archived", !.by = x]
            ELSE L[n]
    BY DEF Superseding, Superseded, Shape
<1>3. \A n \in C :
        LET row == [L[n] EXCEPT !.status = "archived", !.by = x]
        IN  n \in MemIds /\ row.status = "archived" /\ row.by = x
    BY DEF Conflicts, InState, Shape, MemoryRow
<1> HIDE DEF C, N
<1>4. \A n \in C \ {x} : N[n].status = "archived" /\ N[n].by = x
    BY <1>2, <1>3
<1>5. Shape(N) /\ Covers(L, N)
    BY <1>1, <1>2, <1>4 DEF Shape, Covers
<1> QED
    BY <1>2, <1>4, <1>5 DEF C, N

LEMMA SupersedingGood ==
    ASSUME NEW L, Shape(L), NEW F, NEW G, F \subseteq G, Good(L, F),
           NEW x \in MemIds, NEW r \in MemoryRow,
           r.by = None, r.status # "absent",
           r.status = "active" =>
               \A n \in MemIds \ {x} : IsActive(L, n) => L[n].content # r.content
    PROVE  Good(Superseding(L, x, r), G)
<1>0. PICK C : C = Conflicts(L, r)
    OBVIOUS
<1>1. PICK N : N = Superseding(L, x, r)
    OBVIOUS
<1>2. Shape(N) /\ Covers(L, N) /\ N[x] = r
    BY <1>1, SupersedingFields
<1>3. \A n \in C \ {x} : N[n].status = "archived" /\ N[n].by = x
    BY <1>0, <1>1, SupersedingFields
<1>4. \A n \in MemIds \ {x} : n \notin C => N[n] = L[n]
    BY <1>0, <1>1, SupersedingFields
<1>5. \A n \in MemIds \ {x} : IsActive(L, n) /\ n \notin C =>
        \/ ~r.entity \/ None \in {r.key, r.value}
        \/ ~L[n].entity \/ L[n].key # r.key \/ L[n].value = r.value
    BY <1>0 DEF Conflicts, InState, IsActive
<1>6. Settled(N) /\ LeadsOut(N)
    <2>1. \A m \in MemIds : N[m].by # None =>
               /\ N[m].status \in {"archived", "deleted"}
               /\ \/ N[m].by = L[m].by
                  \/ N[N[m].by].by = None /\ N[N[m].by].status # "absent"
        BY <1>2, <1>3, <1>4 DEF Good, Settled, Replaced
    <2> QED
        BY <2>1, <1>2, EndsKept DEF Good
<1>7. Agree(N, G)
    <2>1. \A n \in MemIds \ {x} : IsActive(N, n) =>
              IsActive(L, n) /\ N[n] = L[n] /\ n \notin C
        BY <1>3, <1>4 DEF IsActive
    <2>2. ASSUME IsActive(N, x), NEW n \in MemIds \ {x}, IsActive(N, n)
          PROVE  /\ N[n].content # N[x].content
                 /\ n \in G \/ x \in G \/ ~Contradict(N, n, x)
        <3>1. r.status = "active" /\ N[x] = r
            BY <1>2, <2>2 DEF IsActive
        <3>2. IsActive(L, n) /\ N[n] = L[n] /\ n \notin C
            BY <2>1, <2>2
        <3>3. ~Contradict(N, n, x)
            BY <3>1, <3>2, <1>5 DEF Contradict
        <3> QED
            BY <3>1, <3>2, <3>3
    <2> QED
        BY <2>1, <2>2, AgreeKept DEF Good, SameDetails
<1> QED
    BY <1>1, <1>6, <1>7 DEF Good

LEMMA MergedFields ==
    ASSUME NEW L, Shape(L), NEW t \in MemIds, NEW s \in MemIds, t # s,
           IsActive(L, t)
    PROVE  /\ Shape(Merged(L, t, s)) /\ Covers(L, Merged(L, t, s))
           /\ \A n \in MemIds \ {t, s} : Merged(L, t, s)[n] = L[n]
           /\ Merged(L, t, s)[t].status = "active"
           /\ Merged(L, t, s)[t].content = L[t].content
           /\ Merged(L, t, s)[t].entity = L[t].entity
           /\ Merged(L, t, s)[t].by = L[t].by
           /\ \/ Gains(L, Merged(L, t, s), t)
              \/ SameDetails(L, Merged(L, t, s), t)
           /\ Merged(L, t, s)[s].status = "archived"
           /\ Merged(L, t, s)[s].by = t
<1>1. PICK N : N = Merged(L, t, s)
    OBVIOUS
<1>a. PICK x : x = TakesOver(L[t], L[s])
    OBVIOUS
<1>b. PICK y : y = [L[s] EXCEPT !.status = "archived", !.by = t]
    OBVIOUS
<1>c. x \in MemoryRow /\ y \in MemoryRow
    <2>1. L[t] \in MemoryRow /\ L[s] \in MemoryRow
        BY DEF Shape
    <2>2. x \in MemoryRow
        BY <1>a, <2>1 DEF MemoryRow, TakesOver, FilledWith
    <2>3. y \in MemoryRow
        BY <1>b, <2>1 DEF MemoryRow
    <2> QED
        BY <2>2, <2>3
<1>d. N = [L EXCEPT ![t] = x, ![s] = y]
    BY <1>1, <1>a, <1>b DEF Merged, Shape
<1>2. /\ N \in [MemIds -> MemoryRow]
      /\ \A n \in MemIds \ {t, s} : N[n] = L[n]
      /\ N[t] = x /\ N[s] = y
    BY <1>c, <1>d DEF Shape
<1>3. /\ N[t].status = "active" /\ N[t].content = L[t].content
      /\ N[t].entity = L[t].entity /\ N[t].by = L[t].by
      /\ Gains(L, N, t) \/ SameDetails(L, N, t)
    <2>1. L[t] \in MemoryRow /\ L[s] \in MemoryRow
        BY DEF Shape
    <2>2. /\ x.status = L[t].status /\ x.content = L[t].content
          /\ x.entity = L[t].entity /\ x.by = L[t].by
          /\ x.key = FilledWith(L[t].key, L[s].key)
          /\ x.value = FilledWith(L[t].value, L[s].value)
        BY <1>a, <2>1 DEF MemoryRow, TakesOver
    <2>3. \/ /\ x.key = L[t].key /\ x.value = L[t].value
          \/ L[t].key = None /\ x.key # None
          \/ L[t].value = None /\ x.value # None
        BY <2>2 DEF FilledWith
    <2> QED
        BY <1>2, <2>2, <2>3 DEF IsActive, Gains, SameDetails
<1>e. N[s].status = "archived" /\ N[s].by = t
    BY <1>2, <1>b DEF Shape, MemoryRow
<1>4. Shape(N) /\ Covers(L, N)
    BY <1>2, <1>3, <1>e DEF Shape, Covers
<1> QED
    BY <1>1, <1>2, <1>3, <1>4, <1>e

LEMMA MergedGood ==
    ASSUME NEW L, Shape(L), NEW F, NEW G, F \subseteq G, Good(L, F),
           NEW t \in MemIds, NEW s \in MemIds, t # s, IsActive(L, t),
           Gains(L, Merged(L, t, s), t) => t \in G
    PROVE  Good(Merged(L, t, s), G)
<1>1. PICK N : N = Merged(L, t, s)
    OBVIOUS
<1>2. /\ Shape(N) /\ Covers(L, N)
      /\ \A n \in MemIds \ {t, s} : N[n] = L[n]
    BY <1>1, MergedFields
<1>3. /\ N[t].status = "active" /\ N[t].content = L[t].content
      /\ N[t].entity = L[t].entity /\ N[t].by = L[t].by
      /\ Gains(L, N, t) \/ SameDetails(L, N, t)
    BY <1>1, MergedFields
<1>4. N[s].status = "archived" /\ N[s].by = t
    BY <1>1, MergedFields
<1>f. t \in G \/ SameDetails(L, N, t)
    BY <1>1, <1>3
<1>5. L[t].by = None
    BY InUse DEF Good, IsActive
<1>6. \A m \in MemIds : N[m].by # None =>
           /\ N[m].status \in {"archived", "deleted"}
           /\ \/ N[m].by = L[m].by
              \/ N[N[m].by].by = None /\ N[N[m].by].status # "absent"
    BY <1>2, <1>3, <1>4, <1>5 DEF Good, Settled, Replaced
<1>7. Settled(N) /\ LeadsOut(N)
    BY <1>2, <1>6, EndsKept DEF Good
<1>8. Agree(N, G)
    <2>1. ASSUME NEW n \in MemIds \ {s}, IsActive(N, n)
          PROVE  /\ IsActive(L, n)
                 /\ N[n].content = L[n].content
                 /\ N[n].entity = L[n].entity
                 /\ n \in G \/ SameDetails(L, N, n)
        BY <1>2, <1>3, <1>f, <2>1 DEF IsActive, SameDetails
    <2>2. ~IsActive(N, s)
        BY <1>4 DEF IsActive
    <2> QED
        BY <2>1, <2>2, AgreeKept DEF Good
<1> QED
    BY <1>1, <1>7, <1>8 DEF Good

\* Record x becomes r and nothing else changes: an edit of a memory that is
\* not in use, or a memory that is taken out of use.
LEMMA PutShape ==
    ASSUME NEW L, Shape(L), NEW x \in MemIds, NEW r \in MemoryRow,
           r.status # "absent"
    PROVE  Shape([L EXCEPT ![x] = r]) /\ Covers(L, [L EXCEPT ![x] = r])
BY DEF Shape, Covers

LEMMA PutGood ==
    ASSUME NEW L, Shape(L), NEW F, NEW G, F \subseteq G, Good(L, F),
           NEW x \in MemIds, NEW r \in MemoryRow,
           r.status \notin {"absent", "active"}, r.by = L[x].by,
           r.by # None => r.status \in {"archived", "deleted"}
    PROVE  Good([L EXCEPT ![x] = r], G)
<1>1. PICK N : N = [L EXCEPT ![x] = r]
    OBVIOUS
<1>2. /\ Shape(N) /\ Covers(L, N) /\ N[x] = r
      /\ \A n \in MemIds \ {x} : N[n] = L[n]
    BY <1>1, PutShape DEF Shape
<1>3. Settled(N) /\ LeadsOut(N)
    <2>1. \A m \in MemIds : N[m].by # None =>
               /\ N[m].status \in {"archived", "deleted"}
               /\ N[m].by = L[m].by
        BY <1>2 DEF Good, Settled, Replaced
    <2> QED
        BY <1>2, <2>1, EndsKept DEF Good
<1>4. Agree(N, G)
    <2>1. \A n \in MemIds \ {x} : IsActive(N, n) => IsActive(L, n) /\ N[n] = L[n]
        BY <1>2 DEF IsActive
    <2>2. ~IsActive(N, x)
        BY <1>2 DEF IsActive
    <2> QED
        BY <2>1, <2>2, AgreeKept DEF Good, SameDetails
<1> QED
    BY <1>1, <1>3, <1>4 DEF Good

\* A duplicate found by add() takes over the key and the value it lacked.
Filling(L, t, row) == [L EXCEPT ![t] = TakesOver(@, row)]

LEMMA FillShape ==
    ASSUME NEW L, Shape(L), NEW t \in MemIds, L[t].status # "absent",
           NEW row \in MemoryRow
    PROVE  /\ Shape(Filling(L, t, row)) /\ Covers(L, Filling(L, t, row))
           /\ \A n \in MemIds \ {t} : Filling(L, t, row)[n] = L[n]
<1>1. L[t] \in MemoryRow
    BY DEF Shape
<1>2. PICK x : x = TakesOver(L[t], row)
    OBVIOUS
<1>3. x \in MemoryRow /\ x.status = L[t].status
    BY <1>1, <1>2 DEF MemoryRow, TakesOver, FilledWith
<1>4. Filling(L, t, row) = [L EXCEPT ![t] = x]
    BY <1>2 DEF Filling, Shape
<1> QED
    BY <1>3, <1>4 DEF Shape, Covers

LEMMA FillGood ==
    ASSUME NEW L, Shape(L), NEW F, NEW G, F \subseteq G, Good(L, F),
           NEW t \in MemIds, L[t].status # "absent", NEW row \in MemoryRow,
           Gains(L, Filling(L, t, row), t) => t \in G
    PROVE  Good(Filling(L, t, row), G)
<1>1. PICK N : N = Filling(L, t, row)
    OBVIOUS
<1>2. /\ Shape(N) /\ Covers(L, N)
      /\ \A n \in MemIds \ {t} : N[n] = L[n]
    BY <1>1, FillShape
<1>3. /\ N[t].status = L[t].status /\ N[t].content = L[t].content
      /\ N[t].entity = L[t].entity /\ N[t].by = L[t].by
      /\ t \in G \/ SameDetails(L, N, t)
    <2>1. L[t] \in MemoryRow
        BY DEF Shape
    <2>2. N[t] = TakesOver(L[t], row)
        BY <1>1 DEF Filling, Shape
    <2>3. /\ N[t].status = L[t].status /\ N[t].content = L[t].content
          /\ N[t].entity = L[t].entity /\ N[t].by = L[t].by
          /\ N[t].key = FilledWith(L[t].key, row.key)
          /\ N[t].value = FilledWith(L[t].value, row.value)
        BY <2>1, <2>2 DEF MemoryRow, TakesOver
    <2>4. Gains(L, N, t) \/ SameDetails(L, N, t)
        BY <2>3 DEF Gains, SameDetails, FilledWith
    <2> QED
        BY <1>1, <2>3, <2>4
<1>4. \A n \in MemIds :
        /\ N[n].status = L[n].status /\ N[n].content = L[n].content
        /\ N[n].entity = L[n].entity /\ N[n].by = L[n].by
        /\ n \in G \/ SameDetails(L, N, n)
    BY <1>2, <1>3 DEF SameDetails
<1>5. Settled(N) /\ LeadsOut(N)
    BY <1>2, <1>4, EndsKept DEF Good, Settled, Replaced
<1>6. Agree(N, G)
    <2>1. \A n \in MemIds \ {MaxRecords + 1} : IsActive(N, n) =>
              /\ IsActive(L, n) /\ N[n].content = L[n].content
              /\ N[n].entity = L[n].entity
              /\ n \in G \/ SameDetails(L, N, n)
        BY <1>4 DEF IsActive
    <2>2. MaxRecords + 1 \notin MemIds
        BY MemoryAssumption DEF MemIds
    <2> QED
        BY <2>1, <2>2, AgreeKept DEF Good
<1> QED
    BY <1>1, <1>5, <1>6 DEF Good

-----------------------------------------------------------------------------
(* The operations.                                                         *)

\* The first record of a list is one of its records.
LEMMA FirstIsOne ==
    ASSUME NEW S \in SUBSET Nat, S # {}
    PROVE  FirstOf(S) \in S
<1>1. PICK m \in S : \A n \in S : ~(<<n, m>> \in OpToRel(<, Nat))
    BY WFMin, NatLessThanWellFounded, Zenon
<1>2. \A n \in S : ~(n < m)
    BY <1>1 DEF OpToRel
<1>3. \A n \in S : m <= n
    BY <1>2
<1> QED
    BY <1>3 DEF FirstOf

LEMMA TwinsAreRecords ==
    ASSUME NEW L, NEW c, NEW S, NEW X, Holding(L, c, S) \ X # {}
    PROVE  /\ FirstOf(Holding(L, c, S) \ X) \in Holding(L, c, S) \ X
           /\ Holding(L, c, S) \ X \subseteq MemIds
<1>1. MemIds \subseteq Nat
    BY MemoryAssumption DEF MemIds
<1>2. Holding(L, c, S) \ X \in SUBSET Nat
    BY <1>1 DEF Holding, InState
<1> QED
    BY <1>2, FirstIsOne DEF Holding, InState

NewRow(row, status) == [row EXCEPT !.status = status]

\* What add() makes of a list: a duplicate is filled in, or the record is
\* entered, as active or as a candidate, or entered and merged at once.
LEMMA AddedIs ==
    ASSUME NEW L, Shape(L), NEW m \in MemIds \cup {MaxRecords + 1},
           NEW row \in MemoryRow,
           \/ m \in MemIds /\ L[m].status = "absent"
           \/ Holding(L, row.content, {"active", "candidate"}) # {},
           NEW N \in Added(L, m, row)
    PROVE  \/ \E t \in Holding(L, row.content, {"active", "candidate"}) :
                  N = Filling(L, t, row)
           \/ /\ m \in MemIds /\ L[m].status = "absent"
              /\ Holding(L, row.content, {"active", "candidate"}) = {}
              /\ \/ \E t \in MemIds \ {m} :
                      /\ IsActive(Superseding(L, m, NewRow(row, "active")), t)
                      /\ N = Merged(Superseding(L, m, NewRow(row, "active")), t, m)
                 \/ N = Superseding(L, m, NewRow(row, "candidate"))
                 \/ N = Superseding(L, m, NewRow(row, "active"))
<1> DEFINE twins == Holding(L, row.content, {"active", "candidate"})
           kept == Superseded(L, Conflicts(L, row), m)
           near(pairs) ==
               {n \in InState(kept, {"active"}) :
                   /\ kept[n].entity = row.entity
                   /\ None \in {row.key, kept[n].key} \/ kept[n].key = row.key
                   /\ <<row.content, kept[n].content>> \in pairs}
           new(status) == [kept EXCEPT ![m] = [row EXCEPT !.status = status]]
<1>1. CASE twins # {}
    <2>1. twins \ {} = twins
        OBVIOUS
    <2>2. FirstOf(twins) \in twins
        BY <1>1, <2>1, TwinsAreRecords
    <2>3. N \in {[L EXCEPT ![FirstOf(twins)] = TakesOver(@, row)]}
        BY <1>1 DEF Added
    <2>4. N = Filling(L, FirstOf(twins), row)
        BY <2>3 DEF Filling
    <2> QED
        BY <2>2, <2>4
<1>2. CASE twins = {}
    <2>1. m \in MemIds /\ L[m].status = "absent"
        BY <1>2
    <2>2. /\ m \notin Conflicts(L, row)
          /\ Conflicts(L, row) \ {m} = Conflicts(L, row)
          /\ \A st : Conflicts(L, NewRow(row, st)) = Conflicts(L, row)
        BY <2>1 DEF Conflicts, InState, NewRow, MemoryRow
    <2>3. new("active") = Superseding(L, m, NewRow(row, "active"))
        BY <2>2 DEF Superseding, NewRow
    <2>4. new("candidate") = Superseding(L, m, NewRow(row, "candidate"))
        BY <2>2 DEF Superseding, NewRow
    <2>5. kept[m] = L[m]
        BY <2>1, <2>2 DEF Superseded
    <2>6. \A t \in near(Same) : t \in MemIds \ {m} /\ IsActive(new("active"), t)
        BY <2>1, <2>5 DEF InState, IsActive, Superseded
    <2>7. \/ N \in {Merged(new("active"), t, m) : t \in near(Same)}
          \/ N \in {new("candidate")}
          \/ N \in {new("active")}
        <3> HIDE DEF kept, new, near
        <3>1. CASE near(Same) # {}
            <4>1. Added(L, m, row) =
                      {Merged(new("active"), t, m) : t \in near(Same)}
                BY <1>2, <3>1 DEF Added, kept, new, near
            <4> QED
                BY <4>1
        <3>2. CASE near(Same) = {} /\ near(Alike) # {}
            BY <1>2, <3>2 DEF Added, kept, new, near
        <3>3. CASE near(Same) = {} /\ near(Alike) = {}
            BY <1>2, <3>3 DEF Added, kept, new, near
        <3> QED
            BY <3>1, <3>2, <3>3
    <2> HIDE DEF kept, new, near
    <2>8. CASE N \in {Merged(new("active"), t, m) : t \in near(Same)}
        <3>1. PICK t \in near(Same) : N = Merged(new("active"), t, m)
            BY <2>8
        <3> QED
            BY <1>2, <2>1, <2>3, <2>6, <3>1
    <2>9. CASE N \in {new("candidate")} \/ N \in {new("active")}
        BY <1>2, <2>1, <2>3, <2>4, <2>9
    <2> QED
        BY <2>7, <2>8, <2>9
<1> QED
    BY <1>1, <1>2

\* An operation on record m makes a good list of a good one, when the memories
\* that a merge filled in are counted among those that may disagree.
NewlyFilled(L, N, m) ==
    {n \in MemIds \ {m} : Gains(L, N, n)}

StaysGood(L, N, m) ==
    /\ Shape(N)
    /\ Covers(L, N)
    /\ \A F, G : Good(L, F) /\ F \cup NewlyFilled(L, N, m) \subseteq G =>
           Good(N, G)

LEMMA MergedStaysGood ==
    ASSUME NEW L, Shape(L), NEW t \in MemIds, NEW m \in MemIds, t # m,
           IsActive(L, t)
    PROVE  StaysGood(L, Merged(L, t, m), m)
<1>1. PICK N : N = Merged(L, t, m)
    OBVIOUS
<1>2. Shape(N) /\ Covers(L, N)
    BY <1>1, MergedFields
<1>3. ASSUME NEW F, NEW G, Good(L, F), F \cup NewlyFilled(L, N, m) \subseteq G
      PROVE  Good(N, G)
    <2>1. Gains(L, N, t) => t \in G
        BY <1>3 DEF NewlyFilled
    <2> QED
        BY <1>1, <1>3, <2>1, MergedGood
<1> QED
    BY <1>1, <1>2, <1>3 DEF StaysGood

LEMMA AddedStaysGood ==
    ASSUME NEW L, Shape(L), NEW m \in MemIds \cup {MaxRecords + 1},
           NEW row \in MemoryRow, row.by = None,
           m \in MemIds => L[m].status = "absent",
           m \in MemIds \/ Holding(L, row.content, {"active", "candidate"}) # {},
           NEW N \in Added(L, m, row)
    PROVE  StaysGood(L, N, m)
<1> DEFINE Rec(status) == NewRow(row, status)
<1>1. \A st \in {"active", "candidate"} :
        /\ Rec(st) \in MemoryRow /\ Rec(st).by = None
        /\ Rec(st).status = st /\ Rec(st).content = row.content
    BY DEF NewRow, MemoryRow
<1>2. CASE \E t \in Holding(L, row.content, {"active", "candidate"}) : N = Filling(L, t, row)
    <2>1. PICK t \in Holding(L, row.content, {"active", "candidate"}) : N = Filling(L, t, row)
        BY <1>2
    <2>2. t \in MemIds \ {m} /\ L[t].status # "absent"
        BY DEF Holding, InState
    <2>3. Shape(N) /\ Covers(L, N)
        BY <2>1, <2>2, FillShape
    <2>4. ASSUME NEW F, NEW G, Good(L, F), F \cup NewlyFilled(L, N, m) \subseteq G
          PROVE  Good(N, G)
        <3>1. Gains(L, N, t) => t \in G
            BY <2>2, <2>4 DEF NewlyFilled
        <3> QED
            BY <2>1, <2>2, <2>4, <3>1, FillGood
    <2> QED
        BY <2>3, <2>4 DEF StaysGood
<1>3. CASE /\ m \in MemIds /\ L[m].status = "absent"
           /\ Holding(L, row.content, {"active", "candidate"}) = {}
           /\ \/ \E t \in MemIds \ {m} :
                   /\ IsActive(Superseding(L, m, Rec("active")), t)
                   /\ N = Merged(Superseding(L, m, Rec("active")), t, m)
              \/ N = Superseding(L, m, Rec("candidate"))
              \/ N = Superseding(L, m, Rec("active"))
    <2> HIDE DEF Rec
    <2>1. \A n \in MemIds \ {m} : IsActive(L, n) => L[n].content # row.content
        BY <1>3 DEF Holding, InState, IsActive
    <2>2. ASSUME NEW st \in {"active", "candidate"}
          PROVE  /\ Shape(Superseding(L, m, Rec(st)))
                 /\ Covers(L, Superseding(L, m, Rec(st)))
                 /\ \A F, G : Good(L, F) /\ F \subseteq G =>
                        Good(Superseding(L, m, Rec(st)), G)
        <3>1. Shape(Superseding(L, m, Rec(st))) /\ Covers(L, Superseding(L, m, Rec(st)))
            BY <1>1, <1>3, SupersedingFields
        <3>2. ASSUME NEW F, NEW G, Good(L, F), F \subseteq G
              PROVE  Good(Superseding(L, m, Rec(st)), G)
            BY <1>1, <1>3, <2>1, <3>2, SupersedingGood
        <3> QED
            BY <3>1, <3>2
    <2>3. CASE N \in {Superseding(L, m, Rec("candidate")),
                      Superseding(L, m, Rec("active"))}
        BY <2>2, <2>3 DEF StaysGood
    <2>4. CASE \E t \in MemIds \ {m} :
                  /\ IsActive(Superseding(L, m, Rec("active")), t)
                  /\ N = Merged(Superseding(L, m, Rec("active")), t, m)
        <3>1. PICK M : M = Superseding(L, m, Rec("active"))
            OBVIOUS
        <3>2. PICK t \in MemIds \ {m} : IsActive(M, t) /\ N = Merged(M, t, m)
            BY <2>4, <3>1
        <3>3. Shape(M) /\ Covers(L, M)
            BY <2>2, <3>1
        <3>4. StaysGood(M, N, m)
            BY <1>3, <3>2, <3>3, MergedStaysGood
        <3>5. M[t] = L[t]
            BY <1>1, <1>3, <3>1, <3>2, SupersedingFields, SMTT(30) DEF IsActive
        <3>6. \A n \in MemIds \ {t, m} : N[n] = M[n]
            BY <1>3, <3>2, <3>3, MergedFields
        <3>7. NewlyFilled(M, N, m) \subseteq NewlyFilled(L, N, m)
            BY <3>5, <3>6 DEF NewlyFilled, Gains
        <3>8. Covers(L, N) /\ Shape(N)
            BY <3>3, <3>4 DEF StaysGood, Covers
        <3>9. ASSUME NEW F, NEW G, Good(L, F), F \cup NewlyFilled(L, N, m) \subseteq G
              PROVE  Good(N, G)
            <4>1. Good(M, F)
                BY <2>2, <3>1, <3>9
            <4>2. F \cup NewlyFilled(M, N, m) \subseteq G
                BY <3>7, <3>9
            <4> QED
                BY <4>1, <4>2, <3>4 DEF StaysGood
        <3> QED
            BY <3>8, <3>9 DEF StaysGood
    <2> QED
        BY <1>3, <2>3, <2>4
<1>4. \/ m \in MemIds /\ L[m].status = "absent"
      \/ Holding(L, row.content, {"active", "candidate"}) # {}
    OBVIOUS
<1>5. \/ \E t \in Holding(L, row.content, {"active", "candidate"}) : N = Filling(L, t, row)
      \/ /\ m \in MemIds /\ L[m].status = "absent"
         /\ Holding(L, row.content, {"active", "candidate"}) = {}
         /\ \/ \E t \in MemIds \ {m} :
                 /\ IsActive(Superseding(L, m, Rec("active")), t)
                 /\ N = Merged(Superseding(L, m, Rec("active")), t, m)
            \/ N = Superseding(L, m, Rec("candidate"))
            \/ N = Superseding(L, m, Rec("active"))
    BY <1>4, AddedIs
<1> QED
    BY <1>2, <1>3, <1>5

LEMMA UpdatedStaysGood ==
    ASSUME NEW L, Shape(L), NEW m \in MemIds, L[m].status # "absent",
           NEW new \in MemoryRow, new.status = L[m].status, new.by = L[m].by
    PROVE  StaysGood(L, Updated(L, m, new), m)
<1>1. PICK N : N = Updated(L, m, new)
    OBVIOUS
<1> DEFINE twins == Holding(L, new.content, {"active"}) \ {m}
<1>2. CASE L[m].status # "active"
    <2>1. N = [L EXCEPT ![m] = new]
        BY <1>1, <1>2 DEF Updated
    <2>2. Shape(N) /\ Covers(L, N)
        BY <2>1, PutShape
    <2>3. ASSUME NEW F, NEW G, Good(L, F), F \subseteq G
          PROVE  Good(N, G)
        <3>1. new.by # None => new.status \in {"archived", "deleted"}
            BY <2>3 DEF Good, Settled, Replaced
        <3> QED
            BY <1>2, <2>1, <2>3, <3>1, PutGood
    <2> QED
        BY <1>1, <2>2, <2>3 DEF StaysGood
<1>3. CASE L[m].status = "active" /\ twins # {}
    <2>1. FirstOf(twins) \in twins
        BY <1>3, TwinsAreRecords
    <2>2. FirstOf(twins) \in MemIds \ {m} /\ IsActive(L, FirstOf(twins))
        BY <2>1 DEF Holding, InState, IsActive
    <2>3. N = Merged(L, FirstOf(twins), m)
        BY <1>1, <1>3 DEF Updated
    <2> QED
        BY <1>1, <2>2, <2>3, MergedStaysGood
<1>4. CASE L[m].status = "active" /\ twins = {}
    <2>1. N = Superseding(L, m, new)
        BY <1>1, <1>4 DEF Updated, Superseding
    <2>2. Shape(N) /\ Covers(L, N)
        BY <2>1, SupersedingFields
    <2>3. \A n \in MemIds \ {m} : IsActive(L, n) => L[n].content # new.content
        BY <1>4 DEF Holding, InState, IsActive
    <2>4. ASSUME NEW F, NEW G, Good(L, F), F \subseteq G
          PROVE  Good(N, G)
        <3>1. new.by = None
            BY <1>4, <2>4, InUse DEF Good
        <3> QED
            BY <2>1, <2>3, <2>4, <3>1, SupersedingGood
    <2> QED
        BY <1>1, <2>2, <2>4 DEF StaysGood
<1> QED
    BY <1>2, <1>3, <1>4

LEMMA RevivedStaysGood ==
    ASSUME NEW L, Shape(L), NEW m \in MemIds, L[m].status # "absent"
    PROVE  StaysGood(L, Revived(L, m), m)
<1>1. PICK N : N = Revived(L, m)
    OBVIOUS
<1> DEFINE twins == Holding(L, L[m].content, {"active"}) \ {m}
<1>2. CASE twins # {}
    <2>1. FirstOf(twins) \in twins
        BY <1>2, TwinsAreRecords
    <2>2. FirstOf(twins) \in MemIds \ {m} /\ IsActive(L, FirstOf(twins))
        BY <2>1 DEF Holding, InState, IsActive
    <2>3. N = Merged(L, FirstOf(twins), m)
        BY <1>1, <1>2 DEF Revived
    <2> QED
        BY <1>1, <2>2, <2>3, MergedStaysGood
<1>3. CASE twins = {}
    <2>1. PICK r : r = [L[m] EXCEPT !.status = "active", !.by = None]
        OBVIOUS
    <2>2. /\ r \in MemoryRow /\ r.status = "active" /\ r.by = None
          /\ r.content = L[m].content /\ r.entity = L[m].entity
          /\ r.value = L[m].value /\ r.key = L[m].key
        <3>1. L[m] \in MemoryRow
            BY DEF Shape
        <3> QED
            BY <2>1, <3>1 DEF MemoryRow
    <2>3. N = Superseding(L, m, r)
        <3>1. PICK K : K = Superseded(L, Conflicts(L, L[m]) \ {m}, m)
            OBVIOUS
        <3>2. K[m] = L[m] /\ m \in DOMAIN K
            BY <3>1 DEF Superseded
        <3>3. N = [K EXCEPT ![m].status = "active", ![m].by = None]
            BY <1>1, <1>3, <3>1 DEF Revived
        <3>4. N = [K EXCEPT ![m] = r]
            BY <2>1, <3>2, <3>3
        <3>5. Conflicts(L, r) = Conflicts(L, L[m])
            BY <2>2 DEF Conflicts
        <3>6. K = Superseded(L, Conflicts(L, r) \ {m}, m)
            BY <3>1, <3>5
        <3> QED
            BY <3>4, <3>6 DEF Superseding
    <2>4. Shape(N) /\ Covers(L, N)
        BY <2>2, <2>3, SupersedingFields
    <2>5. \A n \in MemIds \ {m} : IsActive(L, n) => L[n].content # r.content
        BY <1>3, <2>2 DEF Holding, InState, IsActive
    <2>6. ASSUME NEW F, NEW G, Good(L, F), F \subseteq G
          PROVE  Good(N, G)
        BY <2>2, <2>3, <2>5, <2>6, SupersedingGood
    <2> QED
        BY <1>1, <2>4, <2>6 DEF StaysGood
<1> QED
    BY <1>2, <1>3

\* Archiving and deleting.
LEMMA RetiredStaysGood ==
    ASSUME NEW L, Shape(L), NEW m \in MemIds, NEW st \in {"archived", "deleted"}
    PROVE  StaysGood(L, [L EXCEPT ![m].status = st], m)
<1>1. PICK r : r = [L[m] EXCEPT !.status = st]
    OBVIOUS
<1>2. r \in MemoryRow /\ r.status = st /\ r.by = L[m].by
    <2>1. L[m] \in MemoryRow
        BY DEF Shape
    <2> QED
        BY <1>1, <2>1 DEF MemoryRow
<1>3. [L EXCEPT ![m].status = st] = [L EXCEPT ![m] = r]
    BY <1>1 DEF Shape
<1>4. PICK N : N = [L EXCEPT ![m] = r]
    OBVIOUS
<1>5. Shape(N) /\ Covers(L, N)
    BY <1>2, <1>4, PutShape
<1>6. ASSUME NEW F, NEW G, Good(L, F), F \subseteq G
      PROVE  Good(N, G)
    BY <1>2, <1>4, <1>6, PutGood
<1> QED
    BY <1>3, <1>4, <1>5, <1>6 DEF StaysGood

-----------------------------------------------------------------------------
(* Copies.                                                                 *)

\* The copy of an instance that need not reload.
Fresher(a) == opened[a] = "yes" /\ seen[a] = generation

CopiesTyped ==
    /\ Shape(memories)
    /\ copies \in [Systems -> [MemIds -> MemoryRow]]
    /\ \A a \in Systems : Shape(copies[a])
    /\ generation \in Nat
    /\ seen \in [Systems -> Nat]
    /\ \A a \in Systems : seen[a] <= generation
    /\ opened \in [Systems -> {"no", "fetched", "yes"}]
    /\ misled \in [Systems -> {"no", "raced", "unsaved"}]
    /\ filled \subseteq MemIds

\* Such a copy is the table, unless it holds an edit that was not saved or
\* was fetched across another's write.
CopiesTrue ==
    \A a \in Systems : Fresher(a) /\ misled[a] = "no" => copies[a] = memories

\* An edit that was not saved makes a good list, too.
ListsGood ==
    ~tainted =>
        /\ Good(memories, filled)
        /\ \A a \in Systems : Fresher(a) /\ misled[a] # "raced" =>
               Good(copies[a], filled) /\ Covers(memories, copies[a])

MemoryInv == CopiesTyped /\ CopiesTrue /\ ListsGood

\* What an operation starts from.
LEMMA Starting ==
    ASSUME MemoryInv, NEW a \in Systems, opened[a] = "yes"
    PROVE  /\ Shape(Current(a))
           /\ MisledNow(a) \in {"no", "raced", "unsaved"}
           /\ MisledNow(a) = "no" => Current(a) = memories
           /\ ~tainted /\ MisledNow(a) # "raced" =>
                  Good(Current(a), filled) /\ Covers(memories, Current(a))
<1>1. CASE seen[a] = generation
    <2>1. Current(a) = copies[a] /\ MisledNow(a) = misled[a]
        BY <1>1 DEF Current, MisledNow
    <2> QED
        BY <1>1, <2>1 DEF MemoryInv, CopiesTyped, CopiesTrue, ListsGood, Fresher
<1>2. CASE seen[a] # generation
    <2>1. Current(a) = memories /\ MisledNow(a) = "no"
        BY <1>2 DEF Current, MisledNow
    <2> QED
        BY <2>1 DEF MemoryInv, CopiesTyped, ListsGood, Covers
<1> QED
    BY <1>1, <1>2

\* A good list with more filled memories is one as well.
LEMMA MoreFilled ==
    ASSUME NEW L, NEW F, NEW G, F \subseteq G, Good(L, F)
    PROVE  Good(L, G)
BY DEF Good, Agree

\* A copy is set to the list L, the table is L or stays.
LEMMA CopySet ==
    ASSUME MemoryInv, NEW a \in Systems, NEW L, Shape(L),
           filled \subseteq filled', filled' \subseteq MemIds,
           opened' = opened, opened[a] = "yes",
           copies' = [copies EXCEPT ![a] = L],
           NEW why \in {"no", "raced", "unsaved"},
           misled' = [misled EXCEPT ![a] = why],
           \/ /\ UNCHANGED <<memories, generation>>
              /\ seen' = [seen EXCEPT ![a] = generation]
           \/ /\ Shape(memories')
              /\ generation' = generation + 1
              /\ seen' = [seen EXCEPT ![a] = generation + 1],
           why = "no" => L = memories',
           ~tainted' => ~tainted,
           ~tainted' => Good(memories', filled'),
           ~tainted' /\ why # "raced" => Good(L, filled') /\ Covers(memories', L)
    PROVE  MemoryInv'
<1> USE DEF MemoryInv
<1>1. /\ copies'[a] = L /\ misled'[a] = why /\ seen'[a] = generation'
      /\ \A b \in Systems \ {a} :
            /\ copies'[b] = copies[b] /\ misled'[b] = misled[b]
            /\ seen'[b] = seen[b]
    BY DEF CopiesTyped
<1>2. CopiesTyped'
    <2>1. copies' \in [Systems -> [MemIds -> MemoryRow]]
        BY DEF CopiesTyped, Shape
    <2>2. Shape(memories')
        BY DEF CopiesTyped
    <2>3. \A b \in Systems : Shape(copies'[b])
        BY <1>1 DEF CopiesTyped
    <2>4. /\ generation' \in Nat /\ seen' \in [Systems -> Nat]
          /\ \A b \in Systems : seen'[b] <= generation'
        <3>1. generation \in Nat /\ seen \in [Systems -> Nat]
            BY DEF CopiesTyped
        <3>2. generation' \in Nat /\ generation <= generation'
            BY <3>1
        <3>3. seen' = [seen EXCEPT ![a] = generation']
            OBVIOUS
        <3>4. seen' \in [Systems -> Nat]
            BY <3>1, <3>2, <3>3
        <3>5. ASSUME NEW b \in Systems
              PROVE  seen'[b] <= generation'
            <4>1. seen[b] \in Nat /\ seen[b] <= generation
                BY DEF CopiesTyped
            <4> QED
                BY <1>1, <3>1, <3>2, <4>1
        <3> QED
            BY <3>2, <3>4, <3>5
    <2>5. /\ opened' \in [Systems -> {"no", "fetched", "yes"}]
          /\ misled' \in [Systems -> {"no", "raced", "unsaved"}]
        BY DEF CopiesTyped
    <2> QED
        BY <2>1, <2>2, <2>3, <2>4, <2>5 DEF CopiesTyped
<1>3. \A b \in Systems \ {a} : Fresher(b)' =>
          Fresher(b) /\ UNCHANGED memories
    BY <1>1 DEF CopiesTyped, Fresher
<1>4. CopiesTrue'
    <2>1. ASSUME NEW b \in Systems, Fresher(b)', misled'[b] = "no"
          PROVE  copies'[b] = memories'
        <3>1. CASE b = a
            BY <1>1, <2>1, <3>1
        <3>2. CASE b # a
            BY <1>1, <1>3, <2>1, <3>2 DEF CopiesTrue
        <3> QED
            BY <3>1, <3>2
    <2> QED
        BY <2>1 DEF CopiesTrue
<1>5. ListsGood'
    <2> SUFFICES ASSUME ~tainted'
                 PROVE  /\ Good(memories', filled')
                        /\ \A b \in Systems : Fresher(b)' /\ misled'[b] # "raced" =>
                             /\ Good(copies'[b], filled')
                             /\ Covers(memories', copies'[b])
        BY DEF ListsGood
    <2>1. ASSUME NEW b \in Systems, Fresher(b)', misled'[b] # "raced"
          PROVE  Good(copies'[b], filled') /\ Covers(memories', copies'[b])
        <3>1. CASE b = a
            BY <1>1, <2>1, <3>1
        <3>2. CASE b # a
            <4>1. Good(copies[b], filled) /\ Covers(memories, copies[b])
                BY <1>1, <1>3, <2>1, <3>2 DEF ListsGood
            <4> QED
                BY <4>1, <1>1, <1>3, <2>1, <3>2, MoreFilled
        <3> QED
            BY <3>1, <3>2
    <2> QED
        BY <2>1
<1> QED
    BY <1>2, <1>4, <1>5

\* An operation that makes good lists of good ones.
LEMMA OperationStep ==
    ASSUME MemoryInv, NEW a \in Systems, NEW m, NEW L,
           StaysGood(Current(a), L, m), Operation(a, m, L)
    PROVE  MemoryInv'
<1>1. /\ opened[a] = "yes" /\ opened' = opened
      /\ filled' = filled \cup NewlyFilled(Current(a), L, m)
    BY DEF Operation, NewlyFilled, Gains
<1>2. /\ Shape(Current(a))
      /\ MisledNow(a) \in {"no", "raced", "unsaved"}
      /\ MisledNow(a) = "no" => Current(a) = memories
      /\ ~tainted /\ MisledNow(a) # "raced" =>
             Good(Current(a), filled) /\ Covers(memories, Current(a))
    BY <1>1, Starting
<1>3. Shape(L) /\ Covers(Current(a), L)
    BY DEF StaysGood
<1>4. ~tainted /\ MisledNow(a) # "raced" => Good(L, filled')
    BY <1>1, <1>2 DEF StaysGood
<1>5. filled \subseteq filled' /\ filled' \subseteq MemIds
    BY <1>1 DEF NewlyFilled, MemoryInv, CopiesTyped
<1>6. CASE Persists(a, L)
    <2>1. Shape(memories')
        BY <1>3, <1>6 DEF Persists, Shape, MemoryInv, CopiesTyped
    <2>2. Covers(memories, L) => memories' = L
        <3> SUFFICES ASSUME Covers(memories, L)
                     PROVE  memories' = L
            OBVIOUS
        <3>1. \A n \in MemIds : memories'[n] = L[n]
            BY <1>3, <1>6 DEF Persists, Shape, Covers, MemoryInv, CopiesTyped
        <3> QED
            BY <1>3, <2>1, <3>1 DEF Shape
    <2>3. MisledNow(a) = "no" => memories' = L
        BY <1>2, <1>3, <2>2
    <2>4. ~tainted' => ~tainted /\ MisledNow(a) # "raced"
        BY <1>6, Zenon DEF Persists
    <2>5. ~tainted' => memories' = L
        <3> SUFFICES ASSUME ~tainted'
                     PROVE  Covers(memories, L)
            BY <2>2
        <3> QED
            BY <1>2, <1>3, <2>4 DEF Covers
    <2>6. Covers(L, L)
        BY DEF Covers
    <2>7. ~tainted' => /\ Good(memories', filled')
                       /\ Good(L, filled') /\ Covers(memories', L)
        BY <1>4, <2>4, <2>5, <2>6
    <2>8. /\ generation' = generation + 1
          /\ copies' = [copies EXCEPT ![a] = L]
          /\ seen' = [seen EXCEPT ![a] = generation + 1]
          /\ misled' = [misled EXCEPT ![a] = MisledNow(a)]
        BY <1>6 DEF Persists
    <2> QED
        BY <1>1, <1>2, <1>3, <1>5, <2>1, <2>3, <2>4, <2>7, <2>8, CopySet
<1>7. CASE SaveRaises(a, L)
    <2>1. PICK why : why = IF MisledNow(a) = "raced" THEN "raced" ELSE "unsaved"
        OBVIOUS
    <2>2. /\ UNCHANGED <<memories, generation, tainted>>
          /\ copies' = [copies EXCEPT ![a] = L]
          /\ seen' = [seen EXCEPT ![a] = generation]
          /\ misled' = [misled EXCEPT ![a] = why]
        BY <1>7, <2>1 DEF SaveRaises
    <2>3. ~tainted => Good(memories, filled')
        BY <1>5, MoreFilled DEF MemoryInv, ListsGood
    <2>4. ~tainted /\ why # "raced" => Good(L, filled') /\ Covers(memories, L)
        BY <1>2, <1>3, <1>4, <2>1 DEF Covers
    <2>5. why \in {"no", "raced", "unsaved"} /\ why # "no"
        BY <2>1
    <2> QED
        BY <1>1, <1>3, <1>5, <2>2, <2>3, <2>4, <2>5, CopySet
<1> QED
    BY <1>6, <1>7 DEF Operation

\* An instance takes over the table.
LEMMA ReloadStep ==
    ASSUME MemoryInv, NEW a \in Systems, opened[a] = "yes",
           UNCHANGED <<memories, opened, tainted, filled>>,
           copies' = [copies EXCEPT ![a] = memories],
           misled' = [misled EXCEPT ![a] = "no"],
           \/ generation' = generation /\ seen' = [seen EXCEPT ![a] = generation]
           \/ /\ generation' = generation + 1
              /\ seen' = [seen EXCEPT ![a] = generation + 1]
    PROVE  MemoryInv'
<1>1. Covers(memories, memories)
    BY DEF Covers
<1>2. Shape(memories) /\ Shape(memories') /\ filled \subseteq MemIds
    BY DEF MemoryInv, CopiesTyped
<1>3. ~tainted => Good(memories, filled)
    BY DEF MemoryInv, ListsGood
<1> QED
    BY <1>1, <1>2, <1>3, CopySet

LEMMA FetchesStep ==
    ASSUME MemoryInv, NEW a \in Systems, Fetches(a)
    PROVE  MemoryInv'
<1> USE DEF MemoryInv, Fetches
<1>1. CopiesTyped'
    BY DEF CopiesTyped, Shape
<1>2. \A b \in Systems : Fresher(b)' => Fresher(b) /\ copies'[b] = copies[b]
    BY DEF CopiesTyped, Fresher
<1>3. CopiesTrue' /\ ListsGood'
    BY <1>2 DEF CopiesTrue, ListsGood
<1> QED
    BY <1>1, <1>3

LEMMA MarksStep ==
    ASSUME MemoryInv, NEW a \in Systems, Marks(a)
    PROVE  MemoryInv'
<1> USE DEF MemoryInv, Marks
<1>1. CopiesTyped'
    BY DEF CopiesTyped, Shape
<1>2. \A b \in Systems : Fresher(b)' /\ b # a =>
          Fresher(b) /\ misled'[b] = misled[b]
    BY DEF CopiesTyped, Fresher
<1>3. misled'[a] # "raced" => copies[a] = memories
    BY DEF CopiesTyped
<1>4. CopiesTrue'
    BY <1>2, <1>3 DEF CopiesTrue
<1>5. ListsGood'
    BY <1>2, <1>3 DEF ListsGood, Covers
<1> QED
    BY <1>1, <1>4, <1>5

LEMMA LooksStep ==
    ASSUME MemoryInv, NEW a \in Systems, Looks(a)
    PROVE  MemoryInv'
<1>1. /\ opened[a] = "yes"
      /\ UNCHANGED <<memories, opened, tainted, filled>>
      /\ copies' = [copies EXCEPT ![a] = memories]
      /\ misled' = [misled EXCEPT ![a] = "no"]
      /\ generation' = generation /\ seen' = [seen EXCEPT ![a] = generation]
    BY DEF Looks
<1> QED
    BY <1>1, ReloadStep

LEMMA FlushesAccessStep ==
    ASSUME MemoryInv, NEW a \in Systems, FlushesAccess(a)
    PROVE  MemoryInv'
<1>1. /\ opened[a] = "yes"
      /\ UNCHANGED <<memories, opened, tainted, filled>>
      /\ copies' = [copies EXCEPT ![a] = memories]
      /\ misled' = [misled EXCEPT ![a] = "no"]
      /\ generation' = generation + 1
      /\ seen' = [seen EXCEPT ![a] = generation + 1]
    BY DEF FlushesAccess
<1> QED
    BY <1>1, ReloadStep

\* The edits of the list an operation starts from.
LEMMA StartShape ==
    ASSUME MemoryInv, NEW a \in Systems
    PROVE  Shape(Current(a))
BY DEF MemoryInv, CopiesTyped, Current

LEMMA AddsMemoryStep ==
    ASSUME MemoryInv, NEW a \in Systems, AddsMemory(a)
    PROVE  MemoryInv'
<1>1. PICK m : m = FirstOf(Fresh \cup {MaxRecords + 1})
    OBVIOUS
<1>2. PICK c \in Contents, d \in Details :
        /\ \/ m \in MemIds
           \/ Holding(Current(a), c, {"active", "candidate"}) # {}
        /\ \E L \in Added(Current(a), m,
                  [status |-> "active", content |-> c, entity |-> d[1],
                   key |-> d[2], value |-> d[3], by |-> None]) :
               Operation(a, m, L)
    BY <1>1 DEF AddsMemory
<1>r. PICK row : row = [status |-> "active", content |-> c, entity |-> d[1],
                        key |-> d[2], value |-> d[3], by |-> None]
    OBVIOUS
<1>s. row \in MemoryRow /\ row.by = None /\ row.content = c
    BY <1>r, MemoryAssumption DEF MemoryRow
<1>3. PICK L \in Added(Current(a), m, row) : Operation(a, m, L)
    BY <1>2, <1>r
<1>4. m \in Fresh \cup {MaxRecords + 1}
    <2>1. Fresh \cup {MaxRecords + 1} \in SUBSET Nat
        BY MemoryAssumption DEF Fresh, MemIds
    <2> QED
        BY <1>1, <2>1, FirstIsOne
<1>5. m \in MemIds => Current(a)[m].status = "absent"
    <2>1. MaxRecords + 1 \notin MemIds
        BY MemoryAssumption DEF MemIds
    <2>2. Current(a) \in Range(copies) \cup {memories}
        BY DEF Current, Range, MemoryInv, CopiesTyped
    <2> QED
        BY <1>4, <2>1, <2>2 DEF Fresh
<1>6. m \in MemIds \cup {MaxRecords + 1}
    BY <1>4 DEF Fresh
<1>7. StaysGood(Current(a), L, m)
    BY <1>2, <1>s, <1>5, <1>6, StartShape, AddedStaysGood
<1> QED
    BY <1>3, <1>7, OperationStep

LEMMA UpdatesMemoryStep ==
    ASSUME MemoryInv, NEW a \in Systems, UpdatesMemory(a)
    PROVE  MemoryInv'
<1>1. PICK m \in Found(a) :
        \/ \E c \in Contents :
              Operation(a, m, Updated(Current(a), m,
                                  [Current(a)[m] EXCEPT !.content = c]))
        \/ \E k \in Keys, v \in Values \cup {None} :
              Operation(a, m, Updated(Current(a), m,
                  [Current(a)[m] EXCEPT !.entity = TRUE, !.key = k,
                                        !.value = v]))
    BY DEF UpdatesMemory
<1>2. /\ Shape(Current(a)) /\ m \in MemIds
      /\ Current(a)[m].status # "absent" /\ Current(a)[m] \in MemoryRow
    BY StartShape DEF Found, Shape
<1>3. ASSUME NEW c \in Contents,
             Operation(a, m, Updated(Current(a), m,
                                 [Current(a)[m] EXCEPT !.content = c]))
      PROVE  MemoryInv'
    <2>1. PICK new : new = [Current(a)[m] EXCEPT !.content = c]
        OBVIOUS
    <2>2. /\ new \in MemoryRow /\ new.status = Current(a)[m].status
          /\ new.by = Current(a)[m].by
        BY <1>2, <2>1 DEF MemoryRow
    <2>3. StaysGood(Current(a), Updated(Current(a), m, new), m)
        BY <1>2, <2>2, UpdatedStaysGood
    <2> QED
        BY <1>3, <2>1, <2>3, OperationStep
<1>4. ASSUME NEW k \in Keys, NEW v \in Values \cup {None},
             Operation(a, m, Updated(Current(a), m,
                 [Current(a)[m] EXCEPT !.entity = TRUE, !.key = k,
                                       !.value = v]))
      PROVE  MemoryInv'
    <2>1. PICK new : new = [Current(a)[m] EXCEPT !.entity = TRUE, !.key = k,
                                            !.value = v]
        OBVIOUS
    <2>2. /\ new \in MemoryRow /\ new.status = Current(a)[m].status
          /\ new.by = Current(a)[m].by
        BY <1>2, <2>1 DEF MemoryRow
    <2>3. StaysGood(Current(a), Updated(Current(a), m, new), m)
        BY <1>2, <2>2, UpdatedStaysGood
    <2> QED
        BY <1>4, <2>1, <2>3, OperationStep
<1> QED
    BY <1>1, <1>3, <1>4

LEMMA RetiresStep ==
    ASSUME MemoryInv, NEW a \in Systems, ArchivesMemory(a) \/ DeletesMemory(a)
    PROVE  MemoryInv'
<1>1. PICK m \in MemIds, st \in {"archived", "deleted"} :
        Operation(a, m, [Current(a) EXCEPT ![m].status = st])
    BY DEF ArchivesMemory, DeletesMemory, Found
<1>2. StaysGood(Current(a), [Current(a) EXCEPT ![m].status = st], m)
    BY StartShape, RetiredStaysGood
<1> QED
    BY <1>1, <1>2, OperationStep

LEMMA RevivesStep ==
    ASSUME MemoryInv, NEW a \in Systems, RestoresMemory(a) \/ ApprovesMemory(a)
    PROVE  MemoryInv'
<1>1. PICK m \in MemIds :
        /\ Current(a)[m].status # "absent"
        /\ Operation(a, m, Revived(Current(a), m))
    BY DEF RestoresMemory, ApprovesMemory, Found, InState
<1>2. StaysGood(Current(a), Revived(Current(a), m), m)
    BY <1>1, StartShape, RevivedStaysGood
<1> QED
    BY <1>1, <1>2, OperationStep

LEMMA MemoryStays ==
    ASSUME MemoryInv, UNCHANGED memoryVars
    PROVE  MemoryInv'
<1> USE DEF MemoryInv, memoryVars, memoryHistory
<1>1. \A a \in Systems : Fresher(a)' = Fresher(a)
    BY DEF Fresher
<1>2. CopiesTyped'
    BY DEF CopiesTyped
<1>3. CopiesTrue'
    BY <1>1 DEF CopiesTrue
<1>4. ListsGood'
    BY <1>1 DEF ListsGood
<1> QED
    BY <1>2, <1>3, <1>4

LEMMA MemoryStep ==
    ASSUME MemoryInv, [MemoryNext]_memoryVars
    PROVE  MemoryInv'
<1>1. CASE UNCHANGED memoryVars
    BY <1>1, MemoryStays
<1>2. CASE MemoryNext
    <2>1. PICK a \in Systems :
            \/ Fetches(a) \/ Marks(a) \/ Looks(a) \/ FlushesAccess(a)
            \/ AddsMemory(a) \/ UpdatesMemory(a)
            \/ ArchivesMemory(a) \/ DeletesMemory(a)
            \/ RestoresMemory(a) \/ ApprovesMemory(a)
        BY <1>2 DEF MemoryNext
    <2> QED
        BY <2>1, FetchesStep, MarksStep, LooksStep, FlushesAccessStep,
           AddsMemoryStep, UpdatesMemoryStep, RetiresStep, RevivesStep
<1> QED
    BY <1>1, <1>2

LEMMA MemoryStart ==
    ASSUME MemoryInit
    PROVE  MemoryInv
<1> USE DEF MemoryInit
<1>1. /\ NoMemory \in MemoryRow /\ NoMemory.status = "absent"
      /\ NoMemory.by = None
    BY DEF NoMemory, MemoryRow
<1> HIDE DEF NoMemory
<1>2. Shape(memories) /\ Shape(NoMemories)
    BY <1>1 DEF Shape, NoMemories
<1>3. CopiesTyped
    BY <1>2 DEF CopiesTyped, Shape
<1>4. \A a \in Systems : ~Fresher(a)
    BY DEF Fresher
<1>5. Good(memories, filled)
    <2>1. \A m \in MemIds : memories[m] = NoMemory
        BY DEF NoMemories
    <2>2. Replaced(memories) = {} /\ \A m \in MemIds : ~IsActive(memories, m)
        BY <1>1, <2>1 DEF Replaced, IsActive
    <2> QED
        BY <2>2 DEF Good, Agree, Settled, LeadsOut
<1> QED
    BY <1>3, <1>4, <1>5 DEF MemoryInv, CopiesTrue, ListsGood

THEOREM MemoryCorrect == MemorySpec => []MemoryInv
<1>1. MemoryInv /\ [MemoryNext]_memoryVars => MemoryInv'
    BY MemoryStep
<1> QED
    BY <1>1, MemoryStart, PTL DEF MemorySpec

\* Active memories do not contradict each other, whatever instances add,
\* update, merge, restore and approve, saves that fail included: unless a
\* copy was fetched across another's write and then written.
THEOREM MemoriesAgree == MemorySpec => []ActiveMemoriesAgree
<1>1. MemoryInv => ActiveMemoriesAgree
    <2> SUFFICES ASSUME MemoryInv, ~tainted
                 PROVE  ActiveMemoriesAgree
        BY DEF ActiveMemoriesAgree
    <2>1. Agree(memories, filled)
        BY DEF MemoryInv, ListsGood, Good
    <2> QED
        BY <2>1 DEF ActiveMemoriesAgree, Agree, InState, IsActive, Contradict
<1> QED
    BY <1>1, MemoryCorrect, PTL

\* From a superseded memory a reader always arrives at one in use, or at one
\* that was archived or deleted later: the chain has no gap and no circle.
THEOREM SupersessionsEnd == MemorySpec => []SupersessionEnds
<1>1. MemoryInv => SupersessionEnds
    BY DEF MemoryInv, ListsGood, Good, SupersessionEnds, Settled, LeadsOut,
           Replaced
<1> QED
    BY <1>1, MemoryCorrect, PTL

\* A save by an instance whose copy is the table changes the records of its
\* own operation only.
THEOREM OthersAreKept == MemorySpec => OthersKept
<1> DEFINE Kept == \A a \in Systems : SavedBy(a) /\ MisledNow(a) = "no" =>
               \A m \in MemIds : memories'[m] # memories[m] =>
                   copies'[a][m] # Current(a)[m]
<1>1. MemoryInv /\ [MemoryNext]_memoryVars => [Kept]_memoryVars
    <2> SUFFICES ASSUME MemoryInv, MemoryNext, NEW a \in Systems, SavedBy(a),
                        MisledNow(a) = "no", NEW m \in MemIds,
                        memories'[m] # memories[m]
                 PROVE  copies'[a][m] # Current(a)[m]
        OBVIOUS
    <2>1. PICK b \in Systems :
            \/ Fetches(b) \/ Marks(b) \/ Looks(b) \/ FlushesAccess(b)
            \/ AddsMemory(b) \/ UpdatesMemory(b)
            \/ ArchivesMemory(b) \/ DeletesMemory(b)
            \/ RestoresMemory(b) \/ ApprovesMemory(b)
        BY DEF MemoryNext
    <2>2. CASE Fetches(b) \/ Marks(b) \/ Looks(b) \/ FlushesAccess(b)
        BY <2>2 DEF Fetches, Marks, Looks, FlushesAccess
    <2>3. CASE \E n, L : Operation(b, n, L)
        <3>1. PICK n, L : Operation(b, n, L)
            BY <2>3
        <3>2. opened[b] = "yes" /\ Persists(b, L)
            BY <3>1 DEF Operation, SaveRaises, SavedBy
        <3>3. b = a
            <4>1. /\ generation \in Nat /\ seen \in [Systems -> Nat]
                  /\ seen[a] <= generation
                BY DEF MemoryInv, CopiesTyped
            <4>2. seen'[a] = generation + 1 /\ seen[a] # generation + 1
                BY <3>2, <4>1 DEF Persists, SavedBy
            <4> QED
                BY <3>2, <4>1, <4>2 DEF Persists
        <3>4. Current(a) = memories
            BY <3>2, <3>3, Starting
        <3>5. copies'[a] = L
            BY <3>2, <3>3 DEF Persists, MemoryInv, CopiesTyped
        <3> QED
            BY <3>2, <3>3, <3>4, <3>5 DEF Persists
    <2>4. CASE \/ AddsMemory(b) \/ UpdatesMemory(b)
               \/ ArchivesMemory(b) \/ DeletesMemory(b)
               \/ RestoresMemory(b) \/ ApprovesMemory(b)
        <3>1. \E n, L : Operation(b, n, L)
            BY <2>4 DEF AddsMemory, UpdatesMemory, ArchivesMemory,
               DeletesMemory, RestoresMemory, ApprovesMemory
        <3> QED
            BY <2>3, <3>1
    <2> QED
        BY <2>1, <2>2, <2>4
<1>2. []MemoryInv /\ [][MemoryNext]_memoryVars => [][Kept]_memoryVars
    BY <1>1, PTL
<1> QED
    BY <1>2, MemoryCorrect, PTL DEF MemorySpec, OthersKept

\* The table, the copies and what was done to them keep their types.
THEOREM MemoryIsTyped == MemorySpec => []MemoryTypeOK
<1>1. MemoryInv => MemoryTypeOK
    BY DEF MemoryInv, CopiesTyped, Shape, MemoryTypeOK
<1> QED
    BY <1>1, MemoryCorrect, PTL
=============================================================================
