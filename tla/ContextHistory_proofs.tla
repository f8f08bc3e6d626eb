----------------------- MODULE ContextHistory_proofs -----------------------
(***************************************************************************)
(* Proofs about ContextHistory, for histories of any length, any number of *)
(* rounds, and any limits of the cuts.                                     *)
(*                                                                         *)
(* The first part is about the repair before a model call.  It flattens    *)
(* the list of the blocks made of each message, and flattening is defined  *)
(* by recursion.  Instead of an induction the proofs take a smallest       *)
(* counterexample (Smallest): a shortest prefix whose flattening does not  *)
(* exist, or in which some message may not follow the one before (Mended). *)
(* The second part is about the cuts: snip_compact tears no call from its  *)
(* result; trim_by_size, reactive_compact and a reset may, and then cut    *)
(* says so.                                                                *)
(* The third part carries both through the run loop (HistoryInv).          *)
(***************************************************************************)
EXTENDS ContextHistory, SequenceTheorems, WellFoundedInduction, TLAPS

\* A set of numbers that is not empty has a smallest.
LEMMA Smallest ==
    ASSUME NEW S \in SUBSET Nat, S # {}
    PROVE  \E m \in S : \A n \in S : m <= n
<1>1. PICK m \in S : \A n \in S : ~(<<n, m>> \in OpToRel(<, Nat))
    BY WFMin, NatLessThanWellFounded, Zenon
<1>2. \A n \in S : ~(n < m)
    BY <1>1 DEF OpToRel
<1>3. \A n \in S : m <= n
    BY <1>2
<1> QED
    BY <1>3

\* f holds the flattenings of the first one, two, ... k members of s.
Flattens(f, s, k) ==
    f = [i \in 1..k |-> IF i = 1 THEN s[i] ELSE f[i - 1] \o s[i]]

\* The recursive function by which FlattenSeq is defined exists: there is no
\* shortest prefix without one.
LEMMA FlattensExist ==
    ASSUME NEW s, NEW n \in Nat
    PROVE  \A k \in 1..n : \E f : Flattens(f, s, k)
<1>1. SUFFICES ASSUME NEW b \in 1..n, ~(\E f : Flattens(f, s, b)) PROVE FALSE
    OBVIOUS
<1>2. PICK S : S = {k \in 1..n : ~(\E f : Flattens(f, s, k))}
    OBVIOUS
<1>3. S \in SUBSET Nat /\ S # {}
    BY <1>1, <1>2
<1>4. PICK m \in S : \A k \in S : m <= k
    BY <1>3, Smallest
<1>5. CASE m = 1
    <2>1. PICK f : f = [i \in 1..1 |-> s[i]]
        OBVIOUS
    <2>2. Flattens(f, s, 1)
        BY <2>1 DEF Flattens
    <2> QED
        BY <1>2, <1>4, <1>5, <2>2
<1>6. CASE m # 1
    <2>1. m - 1 \in 1..n /\ m - 1 \notin S /\ m \in 1..n /\ m > 1
        BY <1>2, <1>4, <1>6
    <2>2. PICK g : Flattens(g, s, m - 1)
        BY <1>2, <2>1
    <2>3. PICK f : f = [i \in 1..m |-> IF i < m THEN g[i] ELSE g[m - 1] \o s[m]]
        OBVIOUS
    <2>4. \A i \in 1..m : f[i] = IF i = 1 THEN s[i] ELSE f[i - 1] \o s[i]
        <3> TAKE i \in 1..m
        <3>1. CASE i = m
            BY <2>1, <2>3, <3>1
        <3>2. CASE i # m
            <4>1. i \in 1..(m - 1) /\ f[i] = g[i] /\ (i # 1 => f[i - 1] = g[i - 1])
                BY <2>1, <2>3, <3>2
            <4>2. g[i] = IF i = 1 THEN s[i] ELSE g[i - 1] \o s[i]
                BY <2>2, <4>1 DEF Flattens
            <4> QED
                BY <4>1, <4>2
        <3> QED
            BY <3>1, <3>2
    <2>5. Flattens(f, s, m)
        BY <2>3, <2>4 DEF Flattens
    <2> QED
        BY <1>2, <2>1, <2>5, <1>4
<1> QED
    BY <1>5, <1>6

\* FlattenSeq is the last value of that function.
LEMMA Flattened ==
    ASSUME NEW S, NEW s \in Seq(S), s # <<>>
    PROVE  \E f : Flattens(f, s, Len(s)) /\ FlattenSeq(s) = f[Len(s)]
<1>1. Len(s) \in Nat /\ Len(s) # 0 /\ Len(s) \in 1..Len(s)
    BY EmptySeq, LenProperties
<1>2. \E f : Flattens(f, s, Len(s))
    BY <1>1, FlattensExist
<1>3. PICK f : f = CHOOSE g : Flattens(g, s, Len(s))
    OBVIOUS
<1>4. Flattens(f, s, Len(s))
    BY <1>2, <1>3, Zenon
<1>5. FlattenSeq(s) = f[Len(s)]
    BY <1>1, <1>3, Zenon DEF FlattenSeq, Flattens
<1> QED
    BY <1>4, <1>5

-----------------------------------------------------------------------------
(* Histories and the repair.                                               *)

\* Only the assistant calls, only the user's messages carry results.
Plain == {m \in HistoryMessage :
            /\ m.role = "user" => m.calls = {}
            /\ m.role = "assistant" => m.results = {}}

\* b may follow a: what a calls is answered, and (if nothing was cut apart)
\* nothing else is.
Follows(a, b, whole) ==
    /\ a.calls \subseteq b.results
    /\ whole => b.results \subseteq a.calls

\* A sequence of messages each of which may follow the one before.
Mended(F, whole) ==
    /\ F \in Seq(Plain) /\ F # <<>>
    /\ whole => F[1].results = {}
    /\ \A k \in 1..(Len(F) - 1) : Follows(F[k], F[k + 1], whole)

\* What is mended stays so when a block that may follow is put behind it.
LEMMA JoinMended ==
    ASSUME NEW whole, NEW F, Mended(F, whole), NEW B \in Seq(Plain), B # <<>>,
           \A k \in 1..(Len(B) - 1) : Follows(B[k], B[k + 1], whole),
           Follows(F[Len(F)], B[1], whole)
    PROVE  /\ Mended(F \o B, whole)
           /\ (F \o B)[Len(F \o B)] = B[Len(B)]
<1>1. /\ F \in Seq(Plain) /\ F # <<>> /\ Len(F) \in Nat /\ Len(F) >= 1
      /\ Len(B) \in Nat /\ Len(B) >= 1
    BY EmptySeq, LenProperties DEF Mended
<1>2. PICK J : J = F \o B
    OBVIOUS
<1>3. /\ J \in Seq(Plain) /\ Len(J) = Len(F) + Len(B)
      /\ \A i \in 1..Len(J) : J[i] = IF i <= Len(F) THEN F[i] ELSE B[i - Len(F)]
    BY <1>1, <1>2, ConcatProperties
<1>4. J # <<>> /\ J[1] = F[1] /\ J[Len(J)] = B[Len(B)]
    BY <1>1, <1>3
<1>5. ASSUME NEW k \in 1..(Len(J) - 1)
      PROVE  Follows(J[k], J[k + 1], whole)
    <2>1. CASE k < Len(F)
        <3>1. k \in 1..(Len(F) - 1) /\ J[k] = F[k] /\ J[k + 1] = F[k + 1]
            BY <1>1, <1>3, <1>5, <2>1
        <3> QED
            BY <3>1 DEF Mended
    <2>2. CASE k = Len(F)
        <3>1. /\ k \in 1..Len(J) /\ k <= Len(F) /\ k + 1 \in 1..Len(J)
              /\ ~(k + 1 <= Len(F)) /\ (k + 1) - Len(F) = 1
            BY <1>1, <1>3, <2>2
        <3>2. J[k] = F[Len(F)] /\ J[k + 1] = B[1]
            BY <1>3, <2>2, <3>1
        <3> QED
            BY <3>2
    <2>3. CASE k > Len(F)
        <3>1. /\ k \in 1..Len(J) /\ ~(k <= Len(F)) /\ k - Len(F) \in 1..(Len(B) - 1)
              /\ k + 1 \in 1..Len(J) /\ ~(k + 1 <= Len(F))
              /\ (k + 1) - Len(F) = (k - Len(F)) + 1
            BY <1>1, <1>3, <2>3
        <3>2. J[k] = B[k - Len(F)] /\ J[k + 1] = B[(k - Len(F)) + 1]
            BY <1>3, <3>1
        <3> QED
            BY <3>1, <3>2
    <2> QED
        BY <1>1, <1>3, <1>5, <2>1, <2>2, <2>3
<1> QED
    BY <1>2, <1>3, <1>4, <1>5 DEF Mended

\* The message at i and the answers behind it in the repaired history.
Refilled(h, i) ==
    IF i > 1 /\ h[i].role = "user"
    THEN [h[i] EXCEPT !.results = @ \cup Unanswered(h, i - 1)]
    ELSE h[i]
Lacking(h, i) ==
    Unanswered(h, i) # {} /\ (i = Len(h) \/ h[i + 1].role # "user")
BlockOf(h, i) ==
    IF Lacking(h, i) THEN <<Refilled(h, i), Answers(Unanswered(h, i))>>
    ELSE <<Refilled(h, i)>>

\* Concatenation of one and of two messages.
LEMMA PairOfSingles ==
    /\ \A x : <<x>> \o <<>> = <<x>>
    /\ \A x, y : <<x>> \o <<y>> = <<x, y>>
<1>1. ASSUME NEW x PROVE <<x>> \o <<>> = <<x>>
    <2>1. <<x>> \in Seq({x})
        OBVIOUS
    <2> QED
        BY <2>1, ConcatEmptySeq
<1>2. ASSUME NEW x, NEW y PROVE <<x>> \o <<y>> = <<x, y>>
    <2>1. <<x>> \in Seq({x, y}) /\ <<y>> \in Seq({x, y}) /\ <<x, y>> \in Seq({x, y})
        OBVIOUS
    <2>2. PICK J : J = <<x>> \o <<y>>
        OBVIOUS
    <2>3. /\ J \in Seq({x, y}) /\ Len(J) = 2
          /\ J[1] = x /\ J[2] = y
        BY <2>1, <2>2, ConcatProperties
    <2>4. PICK t \in Seq({x, y}) : t = <<x, y>>
        BY <2>1
    <2>5. Len(t) = 2 /\ t[1] = x /\ t[2] = y
        BY <2>4
    <2>6. J = t
        BY <2>3, <2>5, SeqEqual
    <2> QED
        BY <2>2, <2>4, <2>6
<1> QED
    BY <1>1, <1>2

\* The repair is the flattening of the blocks.
LEMMA RepairFlattens ==
    ASSUME NEW h \in Seq(Plain)
    PROVE  Repair(h) = FlattenSeq([i \in DOMAIN h |-> BlockOf(h, i)])
<1>1. ASSUME NEW i \in DOMAIN h
      PROVE  BlockOf(h, i) =
               <<Refilled(h, i)>> \o (IF Lacking(h, i)
                                    THEN <<Answers(Unanswered(h, i))>> ELSE <<>>)
    BY PairOfSingles DEF BlockOf
<1>2. [i \in DOMAIN h |-> BlockOf(h, i)] =
      [i \in DOMAIN h |->
        <<Refilled(h, i)>> \o (IF Lacking(h, i)
                             THEN <<Answers(Unanswered(h, i))>> ELSE <<>>)]
    BY <1>1, Zenon
<1> QED
    BY <1>2, Zenon DEF Repair, Refilled, Lacking

\* The fields of a message.
LEMMA MessageFields ==
    ASSUME NEW m \in Plain
    PROVE  /\ m.calls \subseteq Rounds /\ m.results \subseteq Rounds
           /\ m.role \in {"user", "assistant"}
           /\ m.role = "user" => m.calls = {}
           /\ m.role = "assistant" => m.results = {}
<1>1. m \in HistoryMessage /\ (m.role = "user" => m.calls = {})
      /\ (m.role = "assistant" => m.results = {})
    BY DEF Plain
<1> QED
    BY <1>1 DEF HistoryMessage

\* The fields of the message of missing answers.
LEMMA AnswersPlain ==
    ASSUME NEW cs \in SUBSET Rounds
    PROVE  /\ Answers(cs) \in Plain
           /\ Answers(cs).calls = {} /\ Answers(cs).results = cs
BY DEF Answers, Plain, HistoryMessage

\* What is unanswered was called.
LEMMA UnansweredRounds ==
    ASSUME NEW h \in Seq(Plain), NEW i \in 1..Len(h)
    PROVE  /\ Unanswered(h, i) \subseteq h[i].calls
           /\ Unanswered(h, i) \subseteq Rounds
<1>1. h[i] \in Plain
    BY ElementOfSeq
<1> QED
    BY <1>1, MessageFields DEF Unanswered

\* The fields of a message the missing answers were merged into.
LEMMA MergedPlain ==
    ASSUME NEW h \in Seq(Plain), NEW i \in 1..Len(h)
    PROVE  /\ Refilled(h, i) \in Plain
           /\ Refilled(h, i).role = h[i].role
           /\ Refilled(h, i).calls = h[i].calls
           /\ Refilled(h, i).results =
                 IF i > 1 /\ h[i].role = "user"
                 THEN h[i].results \cup Unanswered(h, i - 1) ELSE h[i].results
<1>1. h[i] \in Plain
    BY ElementOfSeq
<1>2. CASE i > 1 /\ h[i].role = "user"
    <2>1. i - 1 \in 1..Len(h)
        BY <1>2, LenProperties
    <2>2. Unanswered(h, i - 1) \subseteq Rounds
        BY <2>1, UnansweredRounds
    <2>3. Refilled(h, i) = [h[i] EXCEPT !.results = @ \cup Unanswered(h, i - 1)]
        BY <1>2 DEF Refilled
    <2> QED
        BY <1>1, <1>2, <2>2, <2>3 DEF Plain, HistoryMessage
<1>3. CASE ~(i > 1 /\ h[i].role = "user")
    BY <1>1, <1>3 DEF Refilled
<1> QED
    BY <1>2, <1>3

\* Within a block: a call without a user's message behind it gets its answers.
LEMMA BlockMended ==
    ASSUME NEW h \in Seq(Plain), NEW i \in 1..Len(h), NEW whole
    PROVE  LET B == BlockOf(h, i)
           IN  /\ B \in Seq(Plain) /\ B # <<>> /\ B[1] = Refilled(h, i)
               /\ \A k \in 1..(Len(B) - 1) : Follows(B[k], B[k + 1], whole)
               /\ IF Lacking(h, i)
                  THEN B[Len(B)] = Answers(Unanswered(h, i))
                  ELSE B[Len(B)] = Refilled(h, i)
<1>1. PICK B : B = BlockOf(h, i)
    OBVIOUS
<1>2. PICK m \in Plain : m = Refilled(h, i)
    BY MergedPlain
<1>3. PICK a \in Plain : a = Answers(Unanswered(h, i))
    BY UnansweredRounds, AnswersPlain
<1>4. CASE Lacking(h, i)
    <2>1. B = <<m, a>>
        BY <1>1, <1>2, <1>3, <1>4 DEF BlockOf
    <2>2. h[i].calls = Unanswered(h, i)
        <3>1. CASE i = Len(h)
            BY <3>1 DEF Unanswered
        <3>2. CASE i # Len(h)
            <4>1. h[i + 1] \in Plain /\ h[i + 1].role # "user"
                BY <1>4, <3>2, ElementOfSeq, LenProperties DEF Lacking
            <4>2. h[i + 1].results = {}
                BY <4>1, MessageFields
            <4> QED
                BY <3>2, <4>2 DEF Unanswered
        <3> QED
            BY <3>1, <3>2
    <2>3. m.calls = h[i].calls
        BY <1>2, MergedPlain
    <2>4. a.results = Unanswered(h, i)
        BY <1>3, UnansweredRounds, AnswersPlain
    <2>5. Follows(m, a, whole)
        BY <2>2, <2>3, <2>4 DEF Follows
    <2> QED
        BY <1>1, <1>2, <1>3, <1>4, <2>1, <2>5
<1>5. CASE ~Lacking(h, i)
    <2>1. B = <<m>>
        BY <1>1, <1>2, <1>5 DEF BlockOf
    <2> QED
        BY <1>1, <1>2, <1>5, <2>1
<1> QED
    BY <1>4, <1>5

\* Across two blocks: either the first ends with the answers to its call, or
\* the second begins with the user's message they were merged into.
LEMMA BlocksFollow ==
    ASSUME NEW h \in Seq(Plain), NEW whole, whole => Orphans(h) = {},
           NEW i \in 2..Len(h)
    PROVE  LET B == BlockOf(h, i - 1)
           IN  Follows(B[Len(B)], BlockOf(h, i)[1], whole)
<1>1. /\ i \in 1..Len(h) /\ i - 1 \in 1..Len(h) /\ i > 1 /\ i - 1 # Len(h)
      /\ (i - 1) + 1 = i /\ Len(h) \in Nat
    BY LenProperties
<1>2. PICK m \in Plain : m = Refilled(h, i) /\ m = BlockOf(h, i)[1]
    BY <1>1, MergedPlain, BlockMended
<1>3. PICK B : B = BlockOf(h, i - 1)
    OBVIOUS
<1>4. h[i] \in Plain /\ h[i - 1] \in Plain
    BY <1>1, ElementOfSeq
<1>5. m.results = IF h[i].role = "user"
                  THEN h[i].results \cup Unanswered(h, i - 1) ELSE h[i].results
    BY <1>1, <1>2, MergedPlain
<1>6. Unanswered(h, i - 1) = h[i - 1].calls \ h[i].results
    BY <1>1 DEF Unanswered
<1>7. whole => h[i].results \subseteq h[i - 1].calls
    <2> SUFFICES ASSUME whole PROVE h[i].results \subseteq h[i - 1].calls
        OBVIOUS
    <2>1. ~IsOrphan(h, i)
        BY <1>1, LenProperties DEF Orphans
    <2> QED
        BY <1>1, <2>1 DEF IsOrphan
<1>8. CASE Lacking(h, i - 1)
    <2>1. h[i].role = "assistant"
        BY <1>1, <1>4, <1>8, MessageFields DEF Lacking
    <2>2. m.results = {}
        BY <1>4, <1>5, <2>1, MessageFields
    <2>3. B[Len(B)].calls = {}
        BY <1>1, <1>3, <1>8, BlockMended, UnansweredRounds, AnswersPlain
    <2> QED
        BY <1>2, <1>3, <2>2, <2>3 DEF Follows
<1>9. CASE ~Lacking(h, i - 1)
    <2>1. B[Len(B)].calls = h[i - 1].calls
        BY <1>1, <1>3, <1>9, BlockMended, MergedPlain
    <2>2. Unanswered(h, i - 1) = {} \/ h[i].role = "user"
        BY <1>1, <1>9 DEF Lacking
    <2>3. h[i - 1].calls \subseteq m.results
        BY <1>5, <1>6, <2>2
    <2>4. whole => m.results \subseteq h[i - 1].calls
        BY <1>5, <1>6, <1>7
    <2> QED
        BY <1>2, <1>3, <2>1, <2>3, <2>4 DEF Follows
<1> QED
    BY <1>8, <1>9

\* What the repair makes of a history.
LEMMA Repaired ==
    ASSUME NEW h \in Seq(Plain), h # <<>>, NEW whole, whole => Orphans(h) = {}
    PROVE  /\ Mended(Repair(h), whole)
           /\ Repair(h)[Len(Repair(h))].calls = {}
<1>1. PICK n : n = Len(h) /\ n \in Nat /\ n >= 1 /\ DOMAIN h = 1..n
    BY EmptySeq, LenProperties
<1>2. PICK s : s = [i \in 1..n |-> BlockOf(h, i)]
    OBVIOUS
<1>3. \A i \in 1..n : s[i] = BlockOf(h, i) /\ s[i] \in Seq(Plain)
    BY <1>1, <1>2, BlockMended
<1>4. s \in Seq(Seq(Plain)) /\ Len(s) = n /\ s # <<>>
    <2>1. s \in [1..n -> Seq(Plain)]
        BY <1>2, <1>3
    <2> QED
        BY <1>1, <2>1
<1>5. PICK f : Flattens(f, s, n) /\ FlattenSeq(s) = f[n]
    BY <1>4, Flattened
<1>6. \A i \in 1..n : f[i] = IF i = 1 THEN s[i] ELSE f[i - 1] \o s[i]
    BY <1>5 DEF Flattens
<1> DEFINE Holds(i) == Mended(f[i], whole) /\ f[i][Len(f[i])] = s[i][Len(s[i])]
<1>7. Holds(1)
    <2>1. f[1] = BlockOf(h, 1) /\ s[1] = BlockOf(h, 1) /\ 1 \in 1..n
        BY <1>1, <1>3, <1>6
    <2>2. whole => Refilled(h, 1).results = {}
        <3> SUFFICES ASSUME whole PROVE Refilled(h, 1).results = {}
            OBVIOUS
        <3>1. h[1] \in Plain /\ ~IsOrphan(h, 1)
            BY <1>1, <2>1, ElementOfSeq DEF Orphans
        <3>2. h[1].results = {}
            BY <3>1 DEF IsOrphan
        <3>3. Refilled(h, 1) = h[1]
            BY DEF Refilled
        <3> QED
            BY <3>2, <3>3
    <2>3. Mended(BlockOf(h, 1), whole)
        BY <1>1, <2>1, <2>2, BlockMended DEF Mended
    <2> QED
        BY <2>1, <2>3
<1>8. ASSUME NEW i \in 2..n, Holds(i - 1)
      PROVE  Holds(i)
    <2>1. i \in 1..n /\ i - 1 \in 1..n /\ i # 1 /\ i \in 2..Len(h)
        BY <1>1
    <2>2. f[i] = f[i - 1] \o s[i] /\ s[i] = BlockOf(h, i)
          /\ s[i - 1] = BlockOf(h, i - 1)
        BY <1>3, <1>6, <2>1
    <2>3. PICK F : F = f[i - 1]
        OBVIOUS
    <2>4. PICK B : B = s[i]
        OBVIOUS
    <2>5. /\ B \in Seq(Plain) /\ B # <<>>
          /\ \A k \in 1..(Len(B) - 1) : Follows(B[k], B[k + 1], whole)
        BY <1>1, <2>1, <2>2, <2>4, BlockMended
    <2>6. Follows(F[Len(F)], B[1], whole)
        BY <1>8, <2>1, <2>2, <2>3, <2>4, BlocksFollow
    <2>7. Mended(F, whole)
        BY <1>8, <2>3
    <2>8. /\ Mended(F \o B, whole)
          /\ (F \o B)[Len(F \o B)] = B[Len(B)]
        BY <2>5, <2>6, <2>7, JoinMended
    <2> QED
        BY <2>2, <2>3, <2>4, <2>8
<1>9. \A i \in 1..n : Holds(i)
    <2> HIDE DEF Holds
    <2>1. SUFFICES ASSUME NEW b \in 1..n, ~Holds(b) PROVE FALSE
        OBVIOUS
    <2>2. PICK S : S = {i \in 1..n : ~Holds(i)}
        OBVIOUS
    <2>3. S \in SUBSET Nat /\ S # {}
        BY <2>1, <2>2
    <2>4. PICK m \in S : \A i \in S : m <= i
        BY <2>3, Smallest
    <2>5. m \in 1..n /\ ~Holds(m) /\ m # 1
        BY <1>7, <2>2
    <2>6. m \in 2..n /\ m - 1 \in 1..n /\ m - 1 \notin S
        BY <1>1, <2>4, <2>5
    <2> QED
        BY <1>8, <2>2, <2>5, <2>6
<1>10. Repair(h) = f[n]
    BY <1>1, <1>2, <1>5, RepairFlattens
<1>11. n \in 1..n /\ Holds(n)
    BY <1>1, <1>9
<1>12. s[n][Len(s[n])].calls = {}
    <2>1. PICK B : B = BlockOf(h, n) /\ B = s[n]
        BY <1>3, <1>11
    <2>2. CASE Lacking(h, n)
        <3>1. n \in 1..Len(h)
            BY <1>1
        <3>2. B[Len(B)] = Answers(Unanswered(h, n))
            BY <2>1, <2>2, <3>1, BlockMended
        <3> QED
            BY <2>1, <3>1, <3>2, UnansweredRounds, AnswersPlain
    <2>3. CASE ~Lacking(h, n)
        <3>1. h[n].calls = {}
            BY <1>1, <2>3 DEF Lacking, Unanswered
        <3>2. n \in 1..Len(h)
            BY <1>1
        <3>3. B[Len(B)] = Refilled(h, n) /\ Refilled(h, n).calls = h[n].calls
            BY <2>1, <2>3, <3>2, BlockMended, MergedPlain
        <3> QED
            BY <2>1, <3>1, <3>3
    <2> QED
        BY <2>2, <2>3
<1> QED
    BY <1>10, <1>11, <1>12

-----------------------------------------------------------------------------
(* Results and their calls.                                                *)

\* Every result but those of the first message has its call before it.
Paired(h) == \A i \in 2..Len(h) : h[i].results \subseteq h[i - 1].calls

\* A history is without orphans when it is paired and begins without results.
LEMMA WholeMeans ==
    ASSUME NEW h \in Seq(Plain)
    PROVE  Orphans(h) = {} <=> Paired(h) /\ (h # <<>> => h[1].results = {})
<1>1. Len(h) \in Nat /\ DOMAIN h = 1..Len(h) /\ (h # <<>> <=> Len(h) >= 1)
    BY EmptySeq, LenProperties
<1>2. \A i \in 2..Len(h) : i # 1 /\ i \in 1..Len(h)
    BY <1>1
<1>3. \A i \in 1..Len(h) : i = 1 \/ i \in 2..Len(h)
    BY <1>1
<1>4. h # <<>> => 1 \in 1..Len(h)
    BY <1>1
<1>5. ASSUME Orphans(h) = {}
      PROVE  Paired(h) /\ (h # <<>> => h[1].results = {})
    <2>1. \A i \in 1..Len(h) : ~IsOrphan(h, i)
        BY <1>1, <1>5 DEF Orphans
    <2> QED
        BY <1>2, <1>4, <2>1 DEF IsOrphan, Paired
<1>6. ASSUME Paired(h), h # <<>> => h[1].results = {}
      PROVE  Orphans(h) = {}
    <2>1. ASSUME NEW i \in 1..Len(h) PROVE ~IsOrphan(h, i)
        <3>1. CASE i = 1
            BY <1>1, <1>6, <3>1 DEF IsOrphan
        <3>2. CASE i # 1
            BY <1>3, <1>6, <3>2 DEF IsOrphan, Paired
        <3> QED
            BY <3>1, <3>2
    <2> QED
        BY <1>1, <2>1 DEF Orphans
<1> QED
    BY <1>5, <1>6

\* A cut that keeps a call and its result on the same side, or both at the seam,
\* tears nothing.
LEMMA JoinPaired ==
    ASSUME NEW f \in Seq(Plain), f # <<>>, Paired(f),
           NEW g \in Seq(Plain), g # <<>>, Paired(g),
           g[1].results \subseteq f[Len(f)].calls
    PROVE  /\ f \o g \in Seq(Plain) /\ f \o g # <<>> /\ Paired(f \o g)
           /\ (f \o g)[1] = f[1] /\ (f \o g)[Len(f \o g)] = g[Len(g)]
<1>1. /\ Len(f) \in Nat /\ Len(f) >= 1 /\ Len(g) \in Nat /\ Len(g) >= 1
    BY EmptySeq, LenProperties
<1>2. PICK J : J = f \o g
    OBVIOUS
<1>3. /\ J \in Seq(Plain) /\ Len(J) = Len(f) + Len(g)
      /\ \A i \in 1..Len(J) : J[i] = IF i <= Len(f) THEN f[i] ELSE g[i - Len(f)]
    BY <1>1, <1>2, ConcatProperties
<1>4. J # <<>> /\ J[1] = f[1] /\ J[Len(J)] = g[Len(g)]
    BY <1>1, <1>3
<1>5. ASSUME NEW i \in 2..Len(J)
      PROVE  J[i].results \subseteq J[i - 1].calls
    <2>1. CASE i <= Len(f)
        <3>1. i \in 2..Len(f) /\ J[i] = f[i] /\ J[i - 1] = f[i - 1]
            BY <1>1, <1>3, <1>5, <2>1
        <3> QED
            BY <3>1 DEF Paired
    <2>2. CASE i = Len(f) + 1
        <3>1. /\ i \in 1..Len(J) /\ ~(i <= Len(f)) /\ i - Len(f) = 1
              /\ i - 1 \in 1..Len(J) /\ i - 1 <= Len(f) /\ i - 1 = Len(f)
            BY <1>1, <1>3, <2>2
        <3>2. J[i] = g[1] /\ J[i - 1] = f[Len(f)]
            BY <1>3, <3>1
        <3> QED
            BY <3>2
    <2>3. CASE i > Len(f) + 1
        <3>1. /\ i \in 1..Len(J) /\ ~(i <= Len(f)) /\ i - Len(f) \in 2..Len(g)
              /\ i - 1 \in 1..Len(J) /\ ~(i - 1 <= Len(f))
              /\ (i - 1) - Len(f) = (i - Len(f)) - 1
            BY <1>1, <1>3, <2>3
        <3>2. J[i] = g[i - Len(f)] /\ J[i - 1] = g[(i - Len(f)) - 1]
            BY <1>3, <3>1
        <3> QED
            BY <3>1, <3>2 DEF Paired
    <2> QED
        BY <1>1, <1>3, <1>5, <2>1, <2>2, <2>3
<1> QED
    BY <1>2, <1>3, <1>4, <1>5 DEF Paired

\* A part of a paired history is paired, but for its first message.
LEMMA PartPaired ==
    ASSUME NEW h \in Seq(Plain), NEW a \in 1..Len(h), NEW b \in a..Len(h)
    PROVE  LET P == SubSeq(h, a, b)
           IN  /\ P \in Seq(Plain) /\ P # <<>> /\ Len(P) = b - a + 1
               /\ P[1] = h[a] /\ P[Len(P)] = h[b]
               /\ Paired(h) => Paired(P)
<1>1. Len(h) \in Nat
    BY LenProperties
<1>2. PICK P : P = SubSeq(h, a, b)
    OBVIOUS
<1>3. \A i \in a..b : h[i] \in Plain
    BY <1>1, ElementOfSeq
<1>4. /\ P \in Seq(Plain) /\ Len(P) = b - a + 1
      /\ \A i \in 1..(b - a + 1) : P[i] = h[a + i - 1]
    BY <1>1, <1>2, <1>3, SubSeqProperties
<1>5. P # <<>> /\ P[1] = h[a] /\ P[Len(P)] = h[b]
    BY <1>1, <1>4
<1>6. ASSUME Paired(h) PROVE Paired(P)
    <2> SUFFICES ASSUME NEW i \in 2..Len(P)
                 PROVE  P[i].results \subseteq P[i - 1].calls
        BY DEF Paired
    <2>1. /\ a + i - 1 \in 2..Len(h) /\ P[i] = h[a + i - 1]
          /\ P[i - 1] = h[(a + i - 1) - 1]
        BY <1>1, <1>4
    <2> QED
        BY <1>6, <2>1 DEF Paired
<1> QED
    BY <1>2, <1>4, <1>5, <1>6

\* A history stays whole when what is appended only answers its last call.
LEMMA AppendWhole ==
    ASSUME NEW h \in Seq(Plain), NEW m \in Plain
    PROVE  /\ Append(h, m) \in Seq(Plain)
           /\ Append(h, m) # <<>> /\ Append(h, m)[Len(Append(h, m))] = m
           /\ \/ m.results = {}
              \/ h # <<>> /\ m.results \subseteq h[Len(h)].calls
              => (Orphans(h) = {} => Orphans(Append(h, m)) = {})
<1>1. Len(h) \in Nat /\ (h # <<>> => Len(h) >= 1)
    BY EmptySeq, LenProperties
<1>2. PICK J : J = Append(h, m)
    OBVIOUS
<1>3. /\ J \in Seq(Plain) /\ Len(J) = Len(h) + 1
      /\ \A i \in 1..Len(h) : J[i] = h[i]
      /\ J[Len(h) + 1] = m
    BY <1>2, AppendProperties
<1>4. J # <<>> /\ J[Len(J)] = m
    BY <1>1, <1>3
<1>5. ASSUME \/ m.results = {}
             \/ h # <<>> /\ m.results \subseteq h[Len(h)].calls,
             Orphans(h) = {}
      PROVE  Orphans(J) = {}
    <2>1. Paired(h) /\ (h # <<>> => h[1].results = {})
        BY <1>5, WholeMeans
    <2>2. J[1].results = {}
        <3>1. CASE h = <<>>
            BY <1>3, <1>5, <3>1
        <3>2. CASE h # <<>>
            BY <1>1, <1>3, <2>1, <3>2
        <3> QED
            BY <3>1, <3>2
    <2>3. ASSUME NEW i \in 2..Len(J)
          PROVE  J[i].results \subseteq J[i - 1].calls
        <3>1. CASE i = Len(h) + 1
            <4>1. J[i] = m /\ J[i - 1] = h[Len(h)]
                BY <1>1, <1>3, <2>3, <3>1
            <4> QED
                BY <1>5, <4>1
        <3>2. CASE i # Len(h) + 1
            <4>1. i \in 2..Len(h) /\ J[i] = h[i] /\ J[i - 1] = h[i - 1]
                BY <1>1, <1>3, <2>3, <3>2
            <4> QED
                BY <2>1, <4>1 DEF Paired
        <3> QED
            BY <3>1, <3>2
    <2> QED
        BY <1>3, <2>2, <2>3, WholeMeans DEF Paired
<1> QED
    BY <1>2, <1>3, <1>4, <1>5

-----------------------------------------------------------------------------
(* The cuts.                                                               *)

\* The fields of a text.
LEMMA TextPlain ==
    ASSUME NEW role \in {"user", "assistant"}
    PROVE  /\ Text(role) \in Plain
           /\ Text(role).calls = {} /\ Text(role).results = {}
BY DEF Text, Plain, HistoryMessage

\* The one message a cut leaves as a marker is paired.
LEMMA MarkerPaired ==
    ASSUME NEW m \in Plain, m.results = {}
    PROVE  /\ <<m>> \in Seq(Plain) /\ <<m>> # <<>> /\ Paired(<<m>>)
           /\ <<m>>[1] = m /\ <<m>>[Len(<<m>>)] = m
BY DEF Paired

\* snip_compact tears no pair: a call at the end of the head keeps its result,
\* and a result at the beginning of the tail its call.
LEMMA SnipWhole ==
    ASSUME NEW h \in Seq(Plain)
    PROVE  /\ Snip(h) \in Seq(Plain)
           /\ Orphans(h) = {} => Orphans(Snip(h)) = {}
<1>1. CASE Len(h) <= SnipAt
    BY <1>1 DEF Snip
<1>2. CASE ~(Len(h) <= SnipAt)
    <2>1. /\ Len(h) \in Nat /\ SnipAt \in Nat /\ SnipAt > 4 /\ Len(h) > SnipAt
          /\ h # <<>>
        BY <1>2, LenProperties, EmptySeq, ContextAssumption
    <2>2. PICK start \in 3..4 : start = IF HasToolUse(h[3]) THEN 4 ELSE 3
        OBVIOUS
    <2>3. PICK end \in 5..(Len(h) - 1) : end = Len(h) - (SnipAt - 4)
        <3>1. /\ Len(h) - (SnipAt - 4) \in Nat /\ Len(h) - (SnipAt - 4) >= 5
              /\ Len(h) - (SnipAt - 4) <= Len(h) - 1
            BY <2>1
        <3>2. Len(h) - (SnipAt - 4) \in 5..(Len(h) - 1)
            BY <2>1, <3>1
        <3> QED
            BY <3>2
    <2>4. PICK from \in end..(end + 1) :
              from = IF end > start /\ IsToolResult(h[end + 1])
                     THEN end ELSE end + 1
        BY <2>3
    <2>5. PICK head : head = SubSeq(h, 1, start)
        OBVIOUS
    <2>6. PICK tail : tail = SubSeq(h, from, Len(h))
        OBVIOUS
    <2>7. PICK mark \in Plain : mark = Text("user") /\ mark.calls = {} /\ mark.results = {}
        BY TextPlain
    <2>8. Snip(h) = head \o <<mark>> \o tail
        BY <1>2, <2>2, <2>3, <2>4, <2>5, <2>6, <2>7 DEF Snip
    <2>9. /\ head \in Seq(Plain) /\ head # <<>> /\ head[1] = h[1]
          /\ Paired(h) => Paired(head)
        <3>1. 1 \in 1..Len(h) /\ start \in 1..Len(h)
            BY <2>1
        <3> QED
            BY <2>5, <3>1, PartPaired
    <2>10. /\ tail \in Seq(Plain) /\ tail # <<>> /\ tail[1] = h[from]
           /\ Paired(h) => Paired(tail)
        <3>1. from \in 1..Len(h) /\ Len(h) \in from..Len(h)
            BY <2>1, <2>3, <2>4
        <3> QED
            BY <2>6, <3>1, PartPaired
    <2>11. /\ <<mark>> \in Seq(Plain) /\ <<mark>> # <<>> /\ Paired(<<mark>>)
           /\ <<mark>>[1] = mark /\ <<mark>>[Len(<<mark>>)] = mark
        BY <2>7, MarkerPaired
    <2>12. Snip(h) \in Seq(Plain)
        BY <2>8, <2>9, <2>10, <2>11, ConcatProperties
    <2>13. ASSUME Orphans(h) = {} PROVE Orphans(Snip(h)) = {}
        <3>1. Paired(h) /\ h[1].results = {}
            BY <2>1, <2>13, WholeMeans
        <3>2. h[from].results = {}
            <4>1. CASE IsToolResult(h[end + 1])
                <5>1. from = end /\ end \in 1..Len(h) /\ end + 1 \in 2..Len(h)
                    BY <2>1, <2>2, <2>3, <2>4, <4>1
                <5>2. h[end + 1].results \subseteq h[(end + 1) - 1].calls
                    BY <3>1, <5>1 DEF Paired
                <5>3. h[end].calls # {} /\ h[end] \in Plain
                    BY <4>1, <5>1, <5>2, ElementOfSeq DEF IsToolResult
                <5> QED
                    BY <5>1, <5>3, MessageFields
            <4>2. CASE ~IsToolResult(h[end + 1])
                BY <2>4, <4>2 DEF IsToolResult
            <4> QED
                BY <4>1, <4>2
        <3>3. /\ head \o <<mark>> \in Seq(Plain) /\ head \o <<mark>> # <<>>
              /\ Paired(head \o <<mark>>) /\ (head \o <<mark>>)[1] = h[1]
              /\ (head \o <<mark>>)[Len(head \o <<mark>>)] = mark
            BY <2>7, <2>9, <2>11, <3>1, JoinPaired
        <3>4. /\ head \o <<mark>> \o tail \in Seq(Plain)
              /\ head \o <<mark>> \o tail # <<>>
              /\ Paired(head \o <<mark>> \o tail)
              /\ (head \o <<mark>> \o tail)[1] = h[1]
            BY <2>7, <2>10, <3>1, <3>2, <3>3, JoinPaired
        <3> QED
            BY <2>8, <3>1, <3>4, WholeMeans
    <2> QED
        BY <2>12, <2>13
<1> QED
    BY <1>1, <1>2

\* What trim_by_size leaves is a history.
LEMMA TrimPlain ==
    ASSUME NEW h \in Seq(Plain), NEW from \in 3..Len(h)
    PROVE  Trim(h, from) \in Seq(Plain)
<1>1. from \in 1..Len(h) /\ Len(h) \in from..Len(h) /\ 1 \in 1..Len(h)
    BY LenProperties
<1>2. SubSeq(h, from, Len(h)) \in Seq(Plain)
    BY <1>1, PartPaired
<1>3. <<h[1], Text("user")>> \in Seq(Plain)
    BY <1>1, ElementOfSeq, TextPlain
<1> QED
    BY <1>2, <1>3, ConcatProperties DEF Trim

\* The first place from k on, counted from the end, where T ends.
LEMMA RunEnds ==
    ASSUME NEW n \in Nat, NEW k \in 0..n, NEW T
    PROVE  \E m \in k..n : /\ \A i \in k..(m - 1) : n - i \in T
                           /\ m < n => n - m \notin T
<1>1. PICK S : S = {m \in k..n : m < n => n - m \notin T}
    OBVIOUS
<1>2. n \in S /\ S \in SUBSET Nat
    BY <1>1
<1>3. PICK m \in S : \A i \in S : m <= i
    BY <1>2, Smallest
<1>4. \A i \in k..(m - 1) : n - i \in T
    BY <1>1, <1>3
<1> QED
    BY <1>1, <1>3, <1>4

\* What reactive_compact leaves is a history.
LEMMA ReactivePlain ==
    ASSUME NEW h \in Seq(Plain)
    PROVE  Reactive(h) \in Seq(Plain)
<1>1. CASE Len(h) <= KeepTail \/ ReactiveKeeps(h) >= Len(h)
    BY <1>1 DEF Reactive
<1>2. CASE ~(Len(h) <= KeepTail) /\ ~(ReactiveKeeps(h) >= Len(h))
    <2>1. Len(h) \in Nat /\ KeepTail \in Nat /\ KeepTail >= 1 /\ KeepTail < Len(h)
        BY <1>2, LenProperties, ContextAssumption
    <2>2. PICK a : a = CHOOSE n \in KeepTail..Len(h) :
                          /\ \A i \in KeepTail..(n - 1) : HasToolUse(h[Len(h) - i])
                          /\ n < Len(h) => ~HasToolUse(h[Len(h) - n])
        OBVIOUS
    <2>3. a \in KeepTail..Len(h)
        <3>1. PICK T : T = {j \in 0..Len(h) : HasToolUse(h[j])}
            OBVIOUS
        <3>2. KeepTail \in 0..Len(h)
            BY <2>1
        <3>3. PICK m \in KeepTail..Len(h) :
                  /\ \A i \in KeepTail..(m - 1) : Len(h) - i \in T
                  /\ m < Len(h) => Len(h) - m \notin T
            BY <2>1, <3>2, RunEnds
        <3>4. m \in KeepTail..Len(h) /\ m <= Len(h)
            BY <2>1, <3>3
        <3>5. \A i \in KeepTail..(m - 1) : HasToolUse(h[Len(h) - i])
            BY <3>1, <3>3
        <3>6. m < Len(h) => ~HasToolUse(h[Len(h) - m])
            BY <2>1, <3>1, <3>3
        <3> QED
            BY <2>2, <3>4, <3>5, <3>6, Zenon
    <2>4. PICK b : b = CHOOSE n \in a..Len(h) :
                          /\ \A i \in a..(n - 1) : IsToolResult(h[Len(h) - i])
                          /\ n < Len(h) => ~IsToolResult(h[Len(h) - n])
        OBVIOUS
    <2>5. b \in a..Len(h)
        <3>1. PICK T : T = {j \in 0..Len(h) : IsToolResult(h[j])}
            OBVIOUS
        <3>2. a \in 0..Len(h)
            BY <2>1, <2>3
        <3>3. PICK m \in a..Len(h) :
                  /\ \A i \in a..(m - 1) : Len(h) - i \in T
                  /\ m < Len(h) => Len(h) - m \notin T
            BY <2>1, <3>2, RunEnds
        <3>5. \A i \in a..(m - 1) : IsToolResult(h[Len(h) - i])
            BY <3>1, <3>3
        <3>6. m < Len(h) => ~IsToolResult(h[Len(h) - m])
            BY <2>1, <2>3, <3>1, <3>3
        <3> QED
            BY <2>4, <3>3, <3>5, <3>6, Zenon
    <2>6. ReactiveKeeps(h) = b
        BY <2>2, <2>4, Zenon DEF ReactiveKeeps
    <2>7. b \in 1..(Len(h) - 1)
        BY <1>2, <2>1, <2>3, <2>5, <2>6
    <2>8. Len(h) - b + 1 \in 1..Len(h) /\ Len(h) \in (Len(h) - b + 1)..Len(h)
        BY <2>1, <2>7
    <2>9. LastN(h, b) \in Seq(Plain)
        BY <2>8, PartPaired DEF LastN
    <2>10. <<Text("user")>> \in Seq(Plain)
        BY TextPlain
    <2>11. Reactive(h) = <<Text("user")>> \o LastN(h, b)
        BY <1>2, <2>6 DEF Reactive
    <2> QED
        BY <2>9, <2>10, <2>11, ConcatProperties
<1> QED
    BY <1>1, <1>2

-----------------------------------------------------------------------------
(* The run loop.                                                           *)

\* The agent's history and the stored ones are whole until a pair is torn.
HistoriesWhole == \/ cut
                  \/ /\ Orphans(history) = {}
                     /\ Orphans(stored) = {} /\ Orphans(saved) = {}

\* While tools run, their call is the last message, unless a reset emptied the
\* history.
CallIsLast == stage \in {"tools", "working"} =>
    /\ rounds \in Rounds
    /\ cut \/ (history # <<>> /\ history[Len(history)] = Call(rounds))

HistoryInv ==
    /\ history \in Seq(Plain) /\ stored \in Seq(Plain) /\ saved \in Seq(Plain)
    /\ rounds \in 0..MaxRounds /\ cut \in BOOLEAN
    /\ HistoriesWhole /\ CallIsLast /\ SentPairsHold

\* Every step but three ends outside of the two stages that promise something.
LEMMA HistoryMoves ==
    ASSUME HistoryInv, NEW h \in Seq(Plain), history' = h,
           stored' \in {stored, h}, saved' \in {saved, h},
           rounds' = rounds, stage' \notin {"tools", "working", "sent"},
           cut' = cut, Orphans(h) = {} \/ cut
    PROVE  HistoryInv'
BY DEF HistoryInv, HistoriesWhole, CallIsLast, SentPairsHold, Orphans, IsOrphan

\* What a run leaves in the two rows is what they held or its history.
LEMMA PersistsRows ==
    ASSUME NEW h, NEW row, PersistsRun(h, row)
    PROVE  stored' \in {stored, h} /\ saved' \in {saved, h}
BY DEF PersistsRun, Stores

\* A step that may cut: what it leaves is whole, or cut is set.
LEMMA CutMoves ==
    ASSUME HistoryInv, NEW g \in Seq(Plain), NEW k \in Seq(Plain),
           Orphans(history) = {} => Orphans(g) = {}, CutBy(g, k),
           NEW h \in Seq(Plain), Orphans(k) = {} => Orphans(h) = {},
           history' = h, stored' \in {stored, h}, saved' \in {saved, h},
           rounds' = rounds, stage' \notin {"tools", "working", "sent"}
    PROVE  HistoryInv'
<1>1. cut' \in BOOLEAN
    BY Zenon DEF CutBy
<1>2. cut' \/ (~cut /\ (Orphans(k) = {} \/ Orphans(g) # {}))
    BY Zenon DEF CutBy
<1>3. cut' \/ (Orphans(h) = {} /\ Orphans(stored) = {} /\ Orphans(saved) = {})
    BY <1>2 DEF HistoryInv, HistoriesWhole
<1>4. /\ history' \in Seq(Plain) /\ stored' \in Seq(Plain) /\ saved' \in Seq(Plain)
      /\ rounds' \in 0..MaxRounds
    BY DEF HistoryInv
<1>5. HistoriesWhole'
    BY <1>3 DEF HistoriesWhole, Orphans, IsOrphan
<1> QED
    BY <1>1, <1>4, <1>5 DEF HistoryInv, CallIsLast, SentPairsHold

\* A text appended to a whole history leaves it whole.
LEMMA TextWhole ==
    ASSUME HistoryInv, NEW role \in {"user", "assistant"}
    PROVE  /\ Append(history, Text(role)) \in Seq(Plain)
           /\ Orphans(Append(history, Text(role))) = {} \/ cut
BY TextPlain, AppendWhole DEF HistoryInv, HistoriesWhole

\* A model call sends what the repair made of the history.
LEMMA ModelIsCalled ==
    ASSUME HistoryInv, CallsModel
    PROVE  HistoryInv'
<1>1. /\ history \in Seq(Plain) /\ history' = Repair(history)
      /\ stored' = stored /\ saved' = saved /\ cut' = cut /\ rounds' = rounds
      /\ stage' = "sent"
      /\ \/ cut
         \/ Orphans(history) = {} /\ Orphans(stored) = {} /\ Orphans(saved) = {}
    BY DEF HistoryInv, HistoriesWhole, CallsModel, rows
<1>2. PICK r : r = Repair(history)
    OBVIOUS
<1>3. /\ r \in Seq(Plain) /\ (cut \/ Orphans(r) = {})
      /\ \A i \in DOMAIN r : Unanswered(r, i) = {}
    <2>1. CASE history = <<>>
        <3>1. r = <<>>
            <4>1. [i \in DOMAIN history |-> BlockOf(history, i)] = <<>>
                BY <2>1
            <4> QED
                BY <1>1, <1>2, <4>1, RepairFlattens DEF FlattenSeq
        <3> QED
            BY <1>1, <2>1, <3>1
    <2>2. CASE history # <<>>
        <3>1. /\ Mended(r, ~cut) /\ r[Len(r)].calls = {}
            BY <1>1, <1>2, <2>2, Repaired
        <3>2. /\ r \in Seq(Plain) /\ r # <<>> /\ Len(r) \in Nat /\ DOMAIN r = 1..Len(r)
              /\ ~cut => r[1].results = {}
              /\ \A k \in 1..(Len(r) - 1) : Follows(r[k], r[k + 1], ~cut)
            BY <3>1, LenProperties DEF Mended
        <3>3. ASSUME NEW i \in DOMAIN r PROVE Unanswered(r, i) = {}
            <4>1. CASE i = Len(r)
                BY <3>1, <4>1 DEF Unanswered
            <4>2. CASE i # Len(r)
                <5>1. i \in 1..(Len(r) - 1)
                    BY <3>2, <3>3, <4>2
                <5>2. Follows(r[i], r[i + 1], ~cut)
                    BY <3>2, <5>1
                <5> QED
                    BY <4>2, <5>2 DEF Unanswered, Follows
            <4> QED
                BY <4>1, <4>2
        <3>4. ASSUME ~cut PROVE Orphans(r) = {}
            <4>1. ASSUME NEW i \in 2..Len(r)
                  PROVE  r[i].results \subseteq r[i - 1].calls
                <5>1. i - 1 \in 1..(Len(r) - 1) /\ (i - 1) + 1 = i
                    BY <3>2, <4>1
                <5>2. Follows(r[i - 1], r[i], ~cut)
                    BY <3>2, <5>1
                <5> QED
                    BY <3>4, <5>2 DEF Follows
            <4> QED
                BY <3>2, <3>4, <4>1, WholeMeans DEF Paired
        <3> QED
            BY <3>2, <3>3, <3>4
    <2> QED
        BY <2>1, <2>2
<1>4. SentPairsHold'
    BY <1>1, <1>2, <1>3 DEF SentPairsHold, Unanswered, Orphans, IsOrphan
<1>5. HistoriesWhole'
    BY <1>1, <1>2, <1>3 DEF HistoriesWhole, Orphans, IsOrphan
<1> QED
    BY <1>1, <1>2, <1>3, <1>4, <1>5 DEF HistoryInv, CallIsLast

\* The answer of the model that asks for tools is the last message.
LEMMA ToolsAreCalled ==
    ASSUME HistoryInv, AsksForTools
    PROVE  HistoryInv'
<1>1. /\ history \in Seq(Plain) /\ rounds' = rounds + 1 /\ rounds' \in Rounds
      /\ history' = Append(history, Call(rounds')) /\ stored' = stored
      /\ saved' = saved /\ cut' = cut /\ stage' = "tools"
    BY ContextAssumption DEF HistoryInv, AsksForTools, Rounds, rows
<1>2. Call(rounds') \in Plain /\ Call(rounds').results = {}
    BY <1>1 DEF Call, Plain, HistoryMessage
<1>3. PICK h \in Seq(Plain) : h = Append(history, Call(rounds'))
    BY <1>1, <1>2, AppendWhole
<1>4. /\ h # <<>> /\ h[Len(h)] = Call(rounds')
      /\ Orphans(history) = {} => Orphans(h) = {}
    BY <1>1, <1>2, <1>3, AppendWhole
<1>5. CallIsLast' /\ SentPairsHold'
    BY <1>1, <1>3, <1>4 DEF CallIsLast, SentPairsHold, Call
<1>6. HistoriesWhole'
    BY <1>1, <1>3, <1>4 DEF HistoryInv, HistoriesWhole, Orphans, IsOrphan
<1> QED
    BY <1>1, <1>3, <1>5, <1>6 DEF HistoryInv, Rounds

\* Results, those of cancelled calls too, follow their call.
LEMMA ToolsAreAnswered ==
    ASSUME HistoryInv, AppendsResults \/ CancelsTools
    PROVE  HistoryInv'
<1>1. /\ history \in Seq(Plain) /\ rounds \in Rounds
      /\ cut \/ (history # <<>> /\ history[Len(history)] = Call(rounds))
    BY DEF HistoryInv, CallIsLast, AppendsResults, CancelsTools
<1>2. PICK a \in Plain : a = Answers({rounds}) /\ a.results = {rounds} /\ a.calls = {}
    BY <1>1, AnswersPlain
<1>3. cut \/ (history # <<>> /\ a.results \subseteq history[Len(history)].calls)
    <2>1. Call(rounds).calls = {rounds}
        BY DEF Call
    <2> QED
        BY <1>1, <1>2, <2>1
<1>4. PICK g \in Seq(Plain) : g = Append(history, a)
    BY <1>1, AppendWhole
<1>5. Orphans(g) = {} \/ cut
    BY <1>1, <1>3, <1>4, AppendWhole DEF HistoryInv, HistoriesWhole
<1>6. CASE AppendsResults
    <2>1. history' = g /\ rounds' = rounds /\ cut' = cut
          /\ stage' \notin {"tools", "working", "sent"}
        BY <1>2, <1>4, <1>6 DEF AppendsResults
    <2>2. stored' \in {stored, g} /\ saved' \in {saved, g}
        BY <1>6, <2>1, PersistsRows DEF AppendsResults, rows
    <2> QED
        BY <1>5, <2>1, <2>2, HistoryMoves
<1>7. CASE CancelsTools
    <2>1. PICK m \in Plain : m = Text("assistant") /\ m.results = {}
        BY TextPlain
    <2>2. PICK h : h = history \o <<a, m>>
        OBVIOUS
    <2>3. <<a, m>> \in Seq(Plain) /\ <<a, m>> # <<>>
          /\ <<a, m>>[1] = a /\ Paired(<<a, m>>)
        BY <2>1 DEF Paired
    <2>4. h \in Seq(Plain)
        BY <1>1, <2>2, <2>3, ConcatProperties
    <2>5. Orphans(h) = {} \/ cut
        <3> SUFFICES ASSUME ~cut PROVE Orphans(h) = {}
            OBVIOUS
        <3>1. history # <<>> /\ Paired(history) /\ history[1].results = {}
            BY <1>1, WholeMeans DEF HistoryInv, HistoriesWhole
        <3>2. Paired(h) /\ h # <<>> /\ h[1] = history[1]
            BY <1>1, <1>3, <2>2, <2>3, <3>1, JoinPaired
        <3> QED
            BY <2>4, <3>1, <3>2, WholeMeans
    <2>6. /\ history' = h /\ PersistsRun(h, "unsafe")
          /\ rounds' = rounds /\ cut' = cut /\ stage' = "idle"
        BY <1>2, <1>7, <2>1, <2>2 DEF CancelsTools, EndsRun
    <2>7. stored' \in {stored, h} /\ saved' \in {saved, h}
        BY <2>6, PersistsRows
    <2> QED
        BY <2>4, <2>5, <2>6, <2>7, HistoryMoves
<1> QED
    BY <1>6, <1>7

\* A history without messages is whole.
LEMMA EmptyWhole == <<>> \in Seq(Plain) /\ Orphans(<<>>) = {}
<1>1. PICK h \in Seq(Plain) : h = <<>> /\ Len(h) = 0
    BY EmptySeq
<1>2. DOMAIN h = 1..Len(h)
    BY LenProperties
<1> QED
    BY <1>1, <1>2 DEF Orphans

\* The summary that replaces everything is one text.
LEMMA SummaryWhole ==
    /\ <<Text("user")>> \in Seq(Plain)
    /\ Orphans(<<Text("user")>>) = {}
<1>1. PICK m \in Plain : m = Text("user") /\ m.results = {}
    BY TextPlain
<1>2. <<m>> \in Seq(Plain) /\ Paired(<<m>>) /\ <<m>>[1] = m
    BY <1>1, MarkerPaired
<1> QED
    BY <1>1, <1>2, WholeMeans

\* A reset leaves nothing to answer; what it tears while tools run, cut records.
LEMMA ResetKeeps ==
    ASSUME HistoryInv, ResetsHistory
    PROVE  HistoryInv'
<1>1. /\ history \in Seq(Plain) /\ saved \in Seq(Plain) /\ rounds \in 0..MaxRounds
      /\ \/ cut
         \/ Orphans(history) = {} /\ Orphans(saved) = {}
    BY DEF HistoryInv, HistoriesWhole
<1>2. /\ stored' = <<>> /\ saved' = saved /\ rounds' = rounds /\ stage' = stage
      /\ \/ history' = <<>>
         \/ stage \notin {"tools", "working", "sent"} /\ history' = history
    BY DEF ResetsHistory
<1>3. PICK h \in Seq(Plain) : history' = h /\ (cut \/ Orphans(h) = {})
                            /\ (h = <<>> \/ stage \notin {"tools", "working", "sent"})
    BY <1>1, <1>2, EmptyWhole
<1>4. /\ cut' \in BOOLEAN
      /\ cut => cut'
      /\ stage \in {"tools", "working"} => cut'
    BY Zenon DEF ResetsHistory
<1>5. HistoriesWhole'
    <2>1. PICK e \in Seq(Plain) : stored' = e /\ Orphans(e) = {}
        BY <1>2, EmptyWhole
    <2>2. \/ cut'
          \/ Orphans(h) = {} /\ Orphans(e) = {} /\ Orphans(saved) = {}
        BY <1>1, <1>3, <1>4, <2>1, Zenon
    <2> QED
        BY <1>2, <1>3, <2>1, <2>2 DEF HistoriesWhole, Orphans, IsOrphan
<1>6. CallIsLast'
    BY <1>2, <1>4 DEF HistoryInv, CallIsLast
<1>7. SentPairsHold'
    <2> SUFFICES ASSUME stage' = "sent"
                 PROVE  /\ \A i \in DOMAIN h : Unanswered(h, i) = {}
                        /\ Orphans(h) = {}
        BY <1>3 DEF SentPairsHold, Orphans, IsOrphan, Unanswered
    <2>1. h = <<>> /\ DOMAIN h = {}
        BY <1>2, <1>3
    <2> QED
        BY <2>1, EmptyWhole
<1>8. history' \in Seq(Plain) /\ stored' \in Seq(Plain) /\ saved' \in Seq(Plain)
    BY <1>1, <1>2, <1>3, EmptyWhole
<1> QED
    BY <1>1, <1>2, <1>4, <1>5, <1>6, <1>7, <1>8 DEF HistoryInv

\* Every step of the run loop keeps the invariant.
LEMMA HistoryStep == HistoryInv /\ [ContextNext]_contextVars => HistoryInv'
<1> SUFFICES ASSUME HistoryInv, [ContextNext]_contextVars PROVE HistoryInv'
    OBVIOUS
<1>1. /\ history \in Seq(Plain) /\ stored \in Seq(Plain) /\ saved \in Seq(Plain)
      /\ \/ cut
         \/ Orphans(history) = {} /\ Orphans(stored) = {} /\ Orphans(saved) = {}
    BY DEF HistoryInv, HistoriesWhole
<1>2. CASE UNCHANGED contextVars
    BY <1>2 DEF contextVars, HistoryInv, HistoriesWhole, CallIsLast,
                SentPairsHold, Orphans, IsOrphan, Unanswered
<1>3. CASE StartsChat
    BY <1>3, TextWhole, HistoryMoves DEF StartsChat, Stores
<1>4. CASE ResumesHistory \/ Restarts
    BY <1>1, <1>4, HistoryMoves DEF ResumesHistory, Restarts, Stores
<1>5. CASE CollectsNotes
    BY <1>1, <1>5, TextWhole, HistoryMoves DEF CollectsNotes, rows
<1>6. CASE CancelsLoop
    BY <1>6, TextWhole, PersistsRows, HistoryMoves DEF CancelsLoop, EndsRun
<1>7. CASE CompactsIfNeeded
    <2>1. PICK h \in {history, Snip(history)} :
              /\ \/ history' = h
                 \/ \E from \in 3..Len(h) : history' = Trim(h, from)
              /\ CutBy(h, history')
        BY <1>7 DEF CompactsIfNeeded
    <2>2. h \in Seq(Plain) /\ (Orphans(history) = {} => Orphans(h) = {})
        BY <1>1, <2>1, SnipWhole
    <2>3. PICK k \in Seq(Plain) : history' = k
        BY <2>1, <2>2, TrimPlain
    <2>4. CutBy(h, k)
        BY <2>1, <2>3
    <2>5. stored' = stored /\ saved' = saved /\ rounds' = rounds /\ stage' = "compacted"
        BY <1>7 DEF CompactsIfNeeded, rows
    <2> QED
        BY <2>2, <2>3, <2>4, <2>5, CutMoves
<1>8. CASE LastTurnEnds \/ CompletesRun \/ ModelCallFails \/ RecoveryRaises
    BY <1>1, <1>8, PersistsRows, HistoryMoves
    DEF LastTurnEnds, CompletesRun, ModelCallFails, RecoveryRaises, EndsRun
<1>9. CASE AnswersInWords
    BY <1>9, TextWhole, HistoryMoves DEF AnswersInWords, rows
<1>10. CASE EscalatesTokens \/ PromptIsTooLong \/ ClosesStream \/ SummaryFails
    BY <1>1, <1>10, HistoryMoves
    DEF EscalatesTokens, PromptIsTooLong, ClosesStream, SummaryFails, rows
<1>11. CASE RecoversOverflow
    <2>1. PICK k \in Seq(Plain) : k = Reactive(history)
        BY <1>1, ReactivePlain
    <2>2. PICK h \in {k, Snip(k)} :
              /\ history' = h /\ stored' \in {stored, h} /\ saved' \in {saved, h}
              /\ stage' \in {"turn", "idle"}
        BY <1>11, <2>1, PersistsRows DEF RecoversOverflow, EndsRun, rows
    <2>3. h \in Seq(Plain) /\ (Orphans(k) = {} => Orphans(h) = {})
        BY <2>1, <2>2, SnipWhole
    <2>4. CutBy(history, k) /\ rounds' = rounds
        BY <1>11, <2>1 DEF RecoversOverflow
    <2> QED
        BY <1>1, <2>1, <2>2, <2>3, <2>4, CutMoves
<1>12. CASE RunsATool
    <2>1. /\ history' = history /\ rounds' = rounds /\ cut' = cut
          /\ stage \in {"tools", "working"} /\ stage' = "working"
        BY <1>12 DEF RunsATool
    <2>2. stored' \in {stored, history} /\ saved' \in {saved, history}
        BY <1>12, PersistsRows DEF RunsATool
    <2> QED
        BY <2>1, <2>2 DEF HistoryInv, HistoriesWhole, CallIsLast, SentPairsHold,
           Orphans, IsOrphan
<1>13. CASE ReplacesHistory
    BY <1>13, SummaryWhole, PersistsRows, HistoryMoves DEF ReplacesHistory
<1> QED
    BY <1>2, <1>3, <1>4, <1>5, <1>6, <1>7, <1>8, <1>9, <1>10, <1>11, <1>12, <1>13,
       ModelIsCalled, ToolsAreCalled, ToolsAreAnswered, ResetKeeps DEF ContextNext

LEMMA HistoryStart == ContextInit => HistoryInv
<1> SUFFICES ASSUME ContextInit PROVE HistoryInv
    OBVIOUS
<1>1. PICK h \in Seq(Plain) : h = <<>> /\ Orphans(h) = {}
    BY EmptyWhole
<1>3. /\ history = h /\ stored = h /\ saved = h /\ rounds = 0 /\ cut = FALSE
      /\ stage = "idle"
    BY <1>1 DEF ContextInit
<1>4. 0 \in 0..MaxRounds
    BY ContextAssumption
<1> QED
    BY <1>1, <1>3, <1>4
    DEF HistoryInv, HistoriesWhole, CallIsLast, SentPairsHold

\* Whatever is appended, cut, summarised, cancelled, closed, reset, stored and
\* loaded between two model calls, the history that is sent answers every call
\* right behind it; and it holds no result without its call unless one of three
\* has torn a pair: trim_by_size, reactive_compact, or a reset between a call
\* and its results.  For histories of any length.
THEOREM SentPairsAreHeld == ContextSpec => []SentPairsHold
<1>1. HistoryInv => SentPairsHold
    BY DEF HistoryInv
<1> QED
    BY <1>1, HistoryStart, HistoryStep, PTL DEF ContextSpec

\* The stage, the row and the counters, beside the histories of HistoryInv.
LoopTyped ==
    /\ stage \in Stage /\ runRow \in StoredRun
    /\ turns \in 0..MaxTurns /\ recoveries \in 0..MaxRecoveries
    /\ chats \in 0..MaxChats

LEMMA LoopStep == LoopTyped /\ [ContextNext]_contextVars => LoopTyped'
<1> SUFFICES ASSUME LoopTyped, [ContextNext]_contextVars PROVE LoopTyped'
    OBVIOUS
<1> USE ContextAssumption DEF LoopTyped, Stage, StoredRun
<1>1. CASE UNCHANGED contextVars
    BY <1>1 DEF contextVars
<1>2. CASE StartsChat \/ ResumesHistory \/ CollectsNotes
    BY <1>2 DEF StartsChat, ResumesHistory, CollectsNotes, Stores, rows
<1>3. CASE CancelsLoop \/ LastTurnEnds \/ CompletesRun \/ ModelCallFails
           \/ RecoveryRaises \/ CancelsTools
    BY <1>3 DEF CancelsLoop, LastTurnEnds, CompletesRun, ModelCallFails,
                RecoveryRaises, CancelsTools, EndsRun, PersistsRun, Stores
<1>4. CASE CompactsIfNeeded \/ CallsModel \/ AnswersInWords \/ AsksForTools
    BY <1>4 DEF CompactsIfNeeded, CallsModel, AnswersInWords, AsksForTools, rows
<1>5. CASE EscalatesTokens \/ PromptIsTooLong \/ SummaryFails
    BY <1>5 DEF EscalatesTokens, PromptIsTooLong, SummaryFails, rows
<1>6. CASE RecoversOverflow
    BY <1>6 DEF RecoversOverflow, EndsRun, PersistsRun, Stores, rows
<1>7. CASE RunsATool
    BY <1>7 DEF RunsATool, PersistsRun, Stores
<1>8. CASE AppendsResults \/ ReplacesHistory
    BY <1>8 DEF AppendsResults, ReplacesHistory, PersistsRun, Stores, rows
<1>9. CASE ClosesStream \/ Restarts \/ ResetsHistory
    BY <1>9 DEF ClosesStream, Restarts, ResetsHistory, rows
<1> QED
    BY <1>1, <1>2, <1>3, <1>4, <1>5, <1>6, <1>7, <1>8, <1>9 DEF ContextNext

FlagsTyped ==
    compacting \in BOOLEAN /\ escalated \in BOOLEAN /\ named \in BOOLEAN

LEMMA FlagsStep == FlagsTyped /\ [ContextNext]_contextVars => FlagsTyped'
<1> SUFFICES ASSUME FlagsTyped, [ContextNext]_contextVars PROVE FlagsTyped'
    OBVIOUS
<1> USE DEF FlagsTyped
<1>1. CASE ~(EscalatesTokens \/ RunsATool \/ ReplacesHistory \/ Restarts
             \/ ResetsHistory)
    <2>1. compacting' = compacting /\ escalated' = escalated
        BY <1>1 DEF ContextNext, contextVars, StartsChat, ResumesHistory,
           CollectsNotes, CancelsLoop, CompactsIfNeeded, LastTurnEnds,
           CallsModel, AnswersInWords, CompletesRun, AsksForTools,
           ModelCallFails, PromptIsTooLong, RecoversOverflow, RecoveryRaises,
           AppendsResults, SummaryFails, CancelsTools, ClosesStream
    <2>2. named' \in {named, TRUE}
        BY <1>1 DEF ContextNext, contextVars, StartsChat, ResumesHistory,
           CollectsNotes, CancelsLoop, CompactsIfNeeded, LastTurnEnds,
           CallsModel, AnswersInWords, CompletesRun, AsksForTools,
           ModelCallFails, PromptIsTooLong, RecoversOverflow, RecoveryRaises,
           AppendsResults, SummaryFails, CancelsTools, ClosesStream, EndsRun,
           PersistsRun, rows
    <2> QED
        BY <2>1, <2>2, Zenon
<1>2. CASE EscalatesTokens \/ RunsATool
    <2>1. /\ compacting' \in {compacting, TRUE} /\ escalated' \in {escalated, TRUE}
          /\ named' = named
        BY <1>2 DEF EscalatesTokens, RunsATool, PersistsRun, rows
    <2> QED
        BY <2>1, Zenon
<1>3. CASE ReplacesHistory
    <2>1. /\ compacting' \in {compacting, FALSE} /\ escalated' = escalated
          /\ named' = named
        BY <1>3, Zenon DEF ReplacesHistory, PersistsRun
    <2> QED
        BY <2>1, Zenon
<1>4. CASE Restarts \/ ResetsHistory
    BY <1>4, Zenon DEF Restarts, ResetsHistory
<1> QED
    BY <1>1, <1>2, <1>3, <1>4

\* The loop's counters stay within the limits of a run, and its histories are
\* histories.
THEOREM HistoryIsTyped == ContextSpec => []ContextTypeOK
<1>1. ContextInit => LoopTyped /\ FlagsTyped
    <2>1. ContextInit => LoopTyped
        BY ContextAssumption DEF ContextInit, LoopTyped, Stage, StoredRun
    <2>2. ContextInit => FlagsTyped
        BY Zenon DEF ContextInit, FlagsTyped
    <2> QED
        BY <2>1, <2>2
<1>2. HistoryInv /\ LoopTyped /\ FlagsTyped => ContextTypeOK
    <2>1. \A h \in Seq(Plain) : h \in Seq(HistoryMessage)
        BY SeqDef DEF Plain
    <2>2. HistoryInv /\ FlagsTyped =>
              {named, compacting, escalated, cut} \subseteq BOOLEAN
        BY Zenon DEF HistoryInv, FlagsTyped
    <2> QED
        BY <2>1, <2>2 DEF HistoryInv, LoopTyped, ContextTypeOK
<1> QED
    BY <1>1, <1>2, LoopStep, FlagsStep, HistoryStart, HistoryStep, PTL DEF ContextSpec
=============================================================================
