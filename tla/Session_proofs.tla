---------------------------- MODULE Session_proofs ----------------------------
(***************************************************************************)
(* What a session shows of a condition, for every set of identities, every *)
(* agent and all bounds.                                                   *)
(***************************************************************************)
EXTENDS MCSession, FiniteSetTheorems, SequenceTheorems, WellFoundedInduction, TLAPS

----------------------------------------------------------------------------
(* The condition ledger, for every set of identities and every batch.      *)

LEMMA LeastExists ==
  ASSUME NEW S \in SUBSET Nat, S # {}
  PROVE  \E m \in S : \A i \in S : m <= i
<1>1. PICK m \in S : \A i \in S : ~(<<i, m>> \in OpToRel(<, Nat))
  BY NatLessThanWellFounded, WFMin
<1>2. \A i \in S : ~(i < m)
  BY <1>1 DEF OpToRel
<1>3. \A i \in S : i \in Nat
  OBVIOUS
<1>4. \A i \in S : m <= i
  BY <1>2, <1>3
<1> QED BY <1>4

LEMMA GreatestExists ==
  ASSUME NEW n \in Nat, NEW S \in SUBSET (1..n), S # {}
  PROVE  \E m \in S : \A i \in S : i <= m
<1> DEFINE R == {n - i : i \in S}
<1>1. \A i \in S : i \in Nat /\ n - i \in Nat
  OBVIOUS
<1>2. R \in SUBSET Nat /\ R # {}
  BY <1>1
<1> HIDE DEF R
<1>3. PICK r \in R : \A i \in R : r <= i
  BY <1>2, LeastExists
<1>4. PICK m \in S : r = n - m
  BY <1>3 DEF R
<1>5. \A i \in S : n - m <= n - i
  BY <1>3, <1>4 DEF R
<1>6. \A i \in S : i <= m
  BY <1>1, <1>5
<1> QED BY <1>6

----------------------------------------------------------------------------
(* A batch, one observation at a time.                                     *)

LEMMA MentionsGrows ==
  ASSUME NEW batch, NEW n \in Nat, NEW k
  PROVE  Mentions(batch, n + 1, k) =
           Mentions(batch, n, k) \cup (IF Concerns(batch[n + 1], k) THEN {n + 1} ELSE {})
<1>1. 1..(n + 1) = (1..n) \cup {n + 1}
  OBVIOUS
<1> QED BY <1>1 DEF Mentions

LEMMA LatestMention ==
  ASSUME NEW batch, NEW n \in Nat, NEW k, Concerns(batch[n + 1], k)
  PROVE  /\ Mentions(batch, n + 1, k) # {}
         /\ (CHOOSE i \in Mentions(batch, n + 1, k) :
               IsLast(i, Mentions(batch, n + 1, k))) = n + 1
<1> DEFINE S == Mentions(batch, n + 1, k)
<1>1. S = Mentions(batch, n, k) \cup {n + 1}
  BY MentionsGrows
<1>2. \A i \in Mentions(batch, n, k) : i \in Nat /\ i <= n
  BY DEF Mentions
<1>3. IsLast(n + 1, S)
  BY <1>1, <1>2 DEF IsLast
<1>4. \A i \in S : IsLast(i, S) => i = n + 1
  <2> TAKE i \in S
  <2> HAVE IsLast(i, S)
  <2>1. n + 1 \in S
    BY <1>1
  <2>2. n + 1 <= i
    BY <2>1 DEF IsLast
  <2>3. i \in Nat /\ i <= n + 1
    BY <1>1, <1>2
  <2> QED BY <2>2, <2>3
<1>5. n + 1 \in S
  BY <1>1
<1> HIDE DEF S
<1>6. (CHOOSE i \in S : IsLast(i, S)) = n + 1
  BY <1>3, <1>4, <1>5
<1> QED BY <1>5, <1>6 DEF S

\* The activation k after one more observation.
LEMMA FoldedAt ==
  ASSUME NEW book, NEW batch, NEW n \in Nat, NEW k \in Keys
  PROVE  Folded(book, batch, n + 1).active[k] =
           IF Concerns(batch[n + 1], k) THEN Says(batch[n + 1])
                                        ELSE Folded(book, batch, n).active[k]
<1> DEFINE Final(m) == CHOOSE i \in Mentions(batch, m, k) : IsLast(i, Mentions(batch, m, k))
<1>0. \A m \in Nat : Folded(book, batch, m).active[k] =
        IF Mentions(batch, m, k) = {} THEN book.active[k] ELSE Says(batch[Final(m)])
  BY DEF Folded
<1>1. CASE Concerns(batch[n + 1], k)
  <2>1. Mentions(batch, n + 1, k) # {} /\ Final(n + 1) = n + 1
    BY <1>1, LatestMention
  <2> HIDE DEF Final
  <2> QED BY <1>0, <1>1, <2>1
<1>2. CASE ~Concerns(batch[n + 1], k)
  <2>1. Mentions(batch, n + 1, k) = Mentions(batch, n, k)
    <3>1. Mentions(batch, n + 1, k) = Mentions(batch, n, k) \cup
            (IF Concerns(batch[n + 1], k) THEN {n + 1} ELSE {})
      BY MentionsGrows
    <3> QED BY <1>2, <3>1
  <2>2. Final(n + 1) = Final(n)
    BY <2>1
  <2> HIDE DEF Final
  <2> QED BY <1>0, <1>2, <2>1, <2>2
<1> QED BY <1>1, <1>2

\* A batch is folded into the ledger as map_batch_at folds it: nothing is changed by
\* an empty one, and each further observation is one more apply.
THEOREM FoldIsApply ==
  ASSUME NEW book \in Ledger, NEW batch
  PROVE  /\ Folded(book, batch, 0) = book
         /\ \A n \in Nat : Folded(book, batch, n + 1) =
                             apply(Folded(book, batch, n), batch[n + 1])
<1>1. Folded(book, batch, 0) = book
  <2>1. \A k \in Keys : Mentions(batch, 0, k) = {}
    BY DEF Mentions
  <2>2. Folded(book, batch, 0).active = [k \in Keys |-> book.active[k]]
    BY <2>1 DEF Folded
  <2>3. Folded(book, batch, 0).active = book.active
    BY <2>2 DEF Ledger
  <2> QED BY <2>3 DEF Folded, Ledger
<1>2. ASSUME NEW n \in Nat
      PROVE  Folded(book, batch, n + 1) = apply(Folded(book, batch, n), batch[n + 1])
  <2>1. Folded(book, batch, n + 1).active =
          [k \in Keys |-> Folded(book, batch, n + 1).active[k]]
    BY DEF Folded
  <2>2. Folded(book, batch, n + 1).active = apply(Folded(book, batch, n), batch[n + 1]).active
    BY <2>1, FoldedAt DEF apply
  <2>3. Folded(book, batch, n + 1).unavailable =
          apply(Folded(book, batch, n), batch[n + 1]).unavailable
    BY DEF apply, Folded
  <2> QED BY <2>2, <2>3 DEF apply, Folded
<1> QED BY <1>1, <1>2

----------------------------------------------------------------------------
(* One observation.                                                        *)

LEMMA ApplyTyped ==
  ASSUME NEW book \in Ledger, NEW obs \in Condition
  PROVE  apply(book, obs) \in Ledger
BY DEF apply, Ledger, Condition, Says, Asserted, CondStates, Clear

\* What stands of an activation after a batch was standing before it, or is the
\* assertion of an observation in it: the fold invents nothing.
THEOREM NothingInvented ==
  ASSUME NEW book \in Ledger, NEW batch, NEW n \in Nat, NEW k \in Keys
  PROVE  LET after == Folded(book, batch, n).active[k]
         IN  \/ after = Clear
             \/ after = book.active[k]
             \/ \E i \in 1..n : batch[i].key = k /\ batch[i].state = after
<1> DEFINE S    == Mentions(batch, n, k)
           last == CHOOSE i \in S : IsLast(i, S)
<1>1. CASE S = {}
  BY <1>1 DEF Folded
<1>2. CASE S # {}
  <2>1. S \in SUBSET (1..n)
    BY DEF Mentions
  <2>2. Folded(book, batch, n).active[k] = Says(batch[last])
    BY <1>2 DEF Folded
  <2>3. CASE last \in S
    <3>1. last \in 1..n /\ Concerns(batch[last], k)
      BY <2>3 DEF Mentions
    <3>2. CASE batch[last].state \in Asserted
      BY <2>2, <3>1, <3>2 DEF Says, Concerns, Asserted
    <3>3. CASE batch[last].state \notin Asserted
      BY <2>2, <3>3 DEF Says
    <3> QED BY <3>2, <3>3
  <2>4. last \in S
    <3>1. \E i \in S : IsLast(i, S)
      BY <1>2, <2>1, GreatestExists DEF IsLast
    <3> QED BY <3>1
  <2> QED BY <2>3, <2>4
<1> QED BY <1>1, <1>2

\* Two observations about different activations settle the same way in either
\* order: the document may list concurrent activations as it likes (the test
\* a_mixed_batch_settles_the_same_way_in_either_document_order).
Sweeps(obs) == obs.state = "UNAVAILABLE" \/ (obs.state = "NORMAL" /\ obs.key = NoIdent)

THEOREM ActivationsCommute ==
  ASSUME NEW book \in Ledger, NEW o \in Condition, NEW p \in Condition,
         o.key # p.key, ~Sweeps(o), ~Sweeps(p)
  PROVE  apply(apply(book, o), p) = apply(apply(book, p), o)
<1>1. \A k \in Keys : /\ Concerns(o, k) <=> o.key = k
                      /\ Concerns(p, k) <=> p.key = k
  BY DEF Concerns, Sweeps
<1>2. o.state # "UNAVAILABLE" /\ p.state # "UNAVAILABLE"
  BY DEF Sweeps
<1> QED BY <1>1, <1>2 DEF apply

----------------------------------------------------------------------------
(* The aggregate.                                                          *)

LEMMA NeverBetter ==
  \A q \in {"GOOD", "UNCERTAIN", "BAD"} : \A state :
    severity_of(q) <= severity_of(Worse(q, condition_quality(state)))
<1> SUFFICES ASSUME NEW q \in {"GOOD", "UNCERTAIN", "BAD"}, NEW state
             PROVE  severity_of(q) <= severity_of(Worse(q, condition_quality(state)))
  OBVIOUS
<1>1. severity_of(q) \in 0..2 /\ severity_of(condition_quality(state)) \in 0..2
  BY DEF severity_of
<1> QED BY <1>1 DEF Worse

\* A bound signal is as bad as the worst activation that stands: the aggregate is
\* at least as severe as each of them, is one of them if there is any, and a
\* quality combined with it never gets better.
THEOREM WorstIsShown ==
  ASSUME NEW book \in Ledger
  PROVE  /\ \A k \in Active(book) : severity(book.active[k]) <= severity(aggregate(book))
         /\ Active(book) # {} => \E k \in Active(book) : book.active[k] = aggregate(book)
         /\ \A q \in {"GOOD", "UNCERTAIN", "BAD"} :
              LET overlaid == Worse(q, condition_quality(aggregate(book)))
              IN  /\ severity_of(q) <= severity_of(overlaid)
                  /\ (\E k \in Keys : book.active[k] = "FAULT") => overlaid = "BAD"
<1>1. \A k \in Keys : book.active[k] \in {"WARNING", "FAULT", "CLEAR"}
  BY DEF Ledger, Asserted, Clear
<1>2. CASE \E k \in Keys : book.active[k] = "FAULT"
  <2>1. \E k \in Active(book) : book.active[k] = "FAULT"
    BY <1>2 DEF Active, Clear
  <2>2. aggregate(book) = "FAULT"
    <3>1. Active(book) # {}
      BY <2>1
    <3> QED BY <1>2, <3>1 DEF aggregate
  <2>3. \A k \in Active(book) : severity(book.active[k]) <= 3
    BY <1>1 DEF Active, severity
  <2>4. severity(aggregate(book)) = 3 /\ condition_quality(aggregate(book)) = "BAD"
    BY <2>2 DEF severity, condition_quality
  <2>5. \A k \in Active(book) : severity(book.active[k]) <= severity(aggregate(book))
    BY <2>3, <2>4
  <2>6. \A q \in {"GOOD", "UNCERTAIN", "BAD"} : Worse(q, "BAD") = "BAD"
    BY DEF Worse, severity_of
  <2>7. \A q \in {"GOOD", "UNCERTAIN", "BAD"} : severity_of(q) <= severity_of("BAD")
    BY DEF severity_of
  <2> QED BY <2>1, <2>2, <2>4, <2>5, <2>6, <2>7
<1>3. CASE /\ \A k \in Keys : book.active[k] # "FAULT"
           /\ \E k \in Keys : book.active[k] = "WARNING"
  <2>1. \E k \in Active(book) : book.active[k] = "WARNING"
    BY <1>3 DEF Active, Clear
  <2>2. aggregate(book) = "WARNING"
    <3>1. Active(book) # {}
      BY <2>1
    <3> QED BY <1>3, <3>1 DEF aggregate
  <2>3. \A k \in Active(book) : book.active[k] = "WARNING"
    BY <1>1, <1>3 DEF Active, Clear
  <2>4. condition_quality(aggregate(book)) = "UNCERTAIN"
    BY <2>2 DEF condition_quality
  <2>5. \A k \in Active(book) : severity(book.active[k]) <= severity(aggregate(book))
    BY <2>2, <2>3 DEF severity
  <2> QED BY <1>3, <2>1, <2>2, <2>4, <2>5, NeverBetter
<1>4. CASE \A k \in Keys : book.active[k] \notin {"FAULT", "WARNING"}
  <2>1. Active(book) = {}
    BY <1>1, <1>4 DEF Active, Clear
  <2> QED BY <1>4, <2>1, NeverBetter
<1> QED BY <1>1, <1>2, <1>3, <1>4

USE SetupsTyped, PartsBounded, ValueIsNoKey, NoIdentIsOther

----------------------------------------------------------------------------
(* Places, in order.                                                       *)

LEMMA PlacesAreFinite ==
  ASSUME NEW m \in Nat, NEW S \in SUBSET (1..m)
  PROVE  IsFiniteSet(S) /\ Cardinality(S) \in Nat
<1>1. IsFiniteSet(1..m)
  BY FS_Interval
<1>2. IsFiniteSet(S)
  BY <1>1, FS_Subset
<1> QED BY <1>2, FS_CardinalityType

\* The members of S, one after the other.
Lists(s, S) == /\ s \in [1..Cardinality(S) -> S]
               /\ \A i, j \in 1..Cardinality(S) : i < j => s[i] < s[j]
               /\ \A n \in S : \E i \in 1..Cardinality(S) : s[i] = n

\* One more member, beyond the others, is the last of the list.
LEMMA RisingGrows ==
  ASSUME NEW m \in Nat, NEW S \in SUBSET (1..m), NEW g \in S, \A i \in S : i <= g,
         Lists(Rising(S \ {g}), S \ {g}),
         \A i \in 1..Cardinality(S \ {g}) : Rank(Rising(S \ {g})[i], S \ {g}) = i - 1
  PROVE  /\ Lists(Rising(S), S)
         /\ \A i \in 1..Cardinality(S) : Rank(Rising(S)[i], S) = i - 1
<1> DEFINE U == S \ {g}
           n == Cardinality(S)
           t == Rising(U)
           s == Rising(S)
<1>1. IsFiniteSet(S) /\ n \in Nat /\ IsFiniteSet(U) /\ Cardinality(U) \in Nat
  BY PlacesAreFinite
<1>2. Cardinality(U) = n - 1 /\ n # 0 /\ 1..n = 1..(n - 1) \cup {n}
  <2>1. Cardinality(U) = n - 1
    BY <1>1, FS_RemoveElement
  <2> HIDE DEF n, U
  <2> QED BY <1>1, <2>1
<1>3. \A x \in U : x < g /\ Rank(x, S) = Rank(x, U)
  <2>1. \A x \in U : x < g
    OBVIOUS
  <2>2. \A x \in U : {y \in S : y < x} = {y \in U : y < x}
    BY <2>1
  <2> QED BY <2>1, <2>2 DEF Rank
<1>4. Rank(g, S) = n - 1
  <2>1. ~(g < g)
    OBVIOUS
  <2>2. \A y \in S : y < g <=> y # g
    BY <1>3, <2>1
  <2>3. {y \in S : y < g} = U
    BY <2>2
  <2> QED BY <1>2, <2>3 DEF Rank
<1>5. \A i \in 1..(n - 1) : t[i] \in U /\ Rank(t[i], U) = i - 1
  BY <1>2 DEF Lists
<1>6. \A i, j \in 1..(n - 1) : i < j => t[i] < t[j]
  BY <1>2 DEF Lists
<1>7. \A x \in U : \E i \in 1..(n - 1) : t[i] = x
  BY <1>2 DEF Lists
<1> HIDE DEF t, n
<1>8. \A x \in U : Rank(x, S) # n - 1 /\ Rank(x, S) \in Nat
  <2> TAKE x \in U
  <2>1. PICK i \in 1..(n - 1) : t[i] = x
    BY <1>7
  <2>2. Rank(x, S) = i - 1
    BY <1>3, <1>5, <2>1
  <2> QED BY <1>1, <2>1, <2>2
<1>9. s = [i \in 1..n |-> CHOOSE x \in S : Rank(x, S) = i - 1]
  BY DEF Rising, n
<1> HIDE DEF s
<1>10. n \in 1..n /\ s[n] = g
  <2>1. \A x \in S : Rank(x, S) = n - 1 => x = g
    BY <1>8
  <2>2. n \in 1..n
    BY <1>1, <1>2
  <2>3. s[n] = CHOOSE x \in S : Rank(x, S) = n - 1
    BY <1>9, <2>2
  <2> QED BY <1>4, <2>1, <2>2, <2>3
<1>11. \A i \in 1..(n - 1) : i \in 1..n /\ s[i] = t[i]
  <2> TAKE i \in 1..(n - 1)
  <2>1. i \in 1..n /\ i - 1 # n - 1
    BY <1>1
  <2>2. t[i] \in S /\ Rank(t[i], S) = i - 1
    BY <1>3, <1>5
  <2>3. \A x \in S : Rank(x, S) = i - 1 => x = t[i]
    <3> SUFFICES ASSUME NEW x \in S, Rank(x, S) = i - 1 PROVE x = t[i]
      OBVIOUS
    <3>1. x \in U
      BY <1>4, <2>1
    <3>2. PICK j \in 1..(n - 1) : t[j] = x
      BY <1>7, <3>1
    <3>3. j - 1 = i - 1
      BY <1>3, <1>5, <3>2
    <3> QED BY <1>1, <3>2, <3>3
  <2>4. s[i] = CHOOSE x \in S : Rank(x, S) = i - 1
    BY <1>9, <2>1
  <2> QED BY <2>1, <2>2, <2>3, <2>4
<1>12. \A i \in 1..n : i = n \/ i \in 1..(n - 1)
  BY <1>2
<1>13. s \in [1..n -> S]
  <2>1. \A i \in 1..n : s[i] \in S
    BY <1>5, <1>10, <1>11, <1>12
  <2> QED BY <1>9, <2>1
<1>14. \A i, j \in 1..n : i < j => s[i] < s[j]
  <2> SUFFICES ASSUME NEW i \in 1..n, NEW j \in 1..n, i < j PROVE s[i] < s[j]
    OBVIOUS
  <2>1. i \in 1..(n - 1)
    BY <1>1
  <2>2. CASE j = n
    BY <1>3, <1>5, <1>10, <1>11, <2>1, <2>2
  <2>3. CASE j # n
    <3>1. j \in 1..(n - 1)
      BY <1>12, <2>3
    <3> QED BY <1>6, <1>11, <2>1, <3>1
  <2> QED BY <2>2, <2>3
<1>15. \A x \in S : \E i \in 1..n : s[i] = x
  <2> TAKE x \in S
  <2>1. CASE x = g
    BY <1>10, <2>1
  <2>2. CASE x # g
    <3>1. PICK i \in 1..(n - 1) : t[i] = x
      BY <1>7, <2>2
    <3> QED BY <1>11, <3>1
  <2> QED BY <2>1, <2>2
<1>16. \A i \in 1..n : Rank(s[i], S) = i - 1
  <2> TAKE i \in 1..n
  <2>1. CASE i = n
    BY <1>4, <1>10, <2>1
  <2>2. CASE i \in 1..(n - 1)
    BY <1>3, <1>5, <1>11, <2>2
  <2> QED BY <1>12, <2>1, <2>2
<1> QED BY <1>13, <1>14, <1>15, <1>16 DEF Lists, n, s

LEMMA RisingIs ==
  ASSUME NEW m \in Nat, NEW S \in SUBSET (1..m)
  PROVE  Lists(Rising(S), S)
<1> DEFINE Good(T) == /\ Lists(Rising(T), T)
                      /\ \A i \in 1..Cardinality(T) : Rank(Rising(T)[i], T) = i - 1
           Bad == {n \in Nat : \E T \in SUBSET (1..m) : Cardinality(T) = n /\ ~Good(T)}
<1>1. Bad = {}
  <2> SUFFICES ASSUME Bad # {} PROVE FALSE
    OBVIOUS
  <2>1. PICK n \in Bad : \A i \in Bad : n <= i
    <3>1. Bad \in SUBSET Nat
      OBVIOUS
    <3> HIDE DEF Bad
    <3> QED BY <3>1, LeastExists
  <2>2. n \in Nat
    OBVIOUS
  <2>3. PICK T \in SUBSET (1..m) : Cardinality(T) = n /\ ~Good(T)
    OBVIOUS
  <2>4. CASE T = {}
    <3>1. Cardinality(T) = 0
      BY <2>4, FS_EmptySet
    <3>2. Rising(T) \in [1..0 -> T]
      BY <3>1 DEF Rising
    <3> QED BY <2>3, <2>4, <3>1, <3>2 DEF Lists
  <2>5. CASE T # {}
    <3>1. PICK g \in T : \A i \in T : i <= g
      BY <2>5, GreatestExists
    <3> DEFINE U == T \ {g}
    <3>2. Cardinality(U) = n - 1 /\ U \in SUBSET (1..m) /\ n - 1 \in Nat
      <4>1. U \in SUBSET (1..m) /\ IsFiniteSet(T)
        BY PlacesAreFinite
      <4>2. Cardinality(U) = Cardinality(T) - 1
        BY <3>1, <4>1, FS_RemoveElement
      <4>3. Cardinality(U) \in Nat
        BY PlacesAreFinite, <4>1
      <4> QED BY <2>3, <4>1, <4>2, <4>3
    <3>3. Good(U)
      <4>1. n - 1 \notin Bad
        <5>1. ~(n <= n - 1)
          BY <2>2
        <5> HIDE DEF Bad
        <5> QED BY <2>1, <5>1
      <4> HIDE DEF Good
      <4> QED BY <3>2, <4>1
    <3>4. Good(T)
      BY <3>1, <3>3, RisingGrows
    <3> HIDE DEF Good
    <3> QED BY <2>3, <3>4
  <2> QED BY <2>4, <2>5
<1>2. Cardinality(S) \in Nat
  BY PlacesAreFinite
<1>3. Good(S)
  <2> HIDE DEF Good
  <2> QED BY <1>1, <1>2
<1> QED BY <1>3

\* The entries of a sequence at some of its places: where each comes from, in order.
LEMMA TakenIs ==
  ASSUME NEW T, NEW q \in Seq(T), NEW S \in SUBSET (1..Len(q))
  PROVE  /\ Taken(q, S) \in Seq(T) /\ Len(Taken(q, S)) \in Nat
         /\ \A i \in 1..Len(Taken(q, S)) : Rising(S)[i] \in S /\ Taken(q, S)[i] = q[Rising(S)[i]]
         /\ \A i, j \in 1..Len(Taken(q, S)) : i < j => Rising(S)[i] < Rising(S)[j]
         /\ \A p \in S : \E i \in 1..Len(Taken(q, S)) : Rising(S)[i] = p
<1> DEFINE from  == Rising(S)
           taken == Taken(q, S)
           n     == Cardinality(S)
<1>1. DOMAIN q = 1..Len(q) /\ Len(q) \in Nat
  OBVIOUS
<1>2. n \in Nat /\ Lists(from, S)
  BY <1>1, PlacesAreFinite, RisingIs
<1>3. from \in [1..n -> S]
  BY <1>2 DEF Lists
<1>4. taken = [i \in DOMAIN from |-> q[from[i]]]
  BY DEF Taken, Entries
<1> HIDE DEF taken, from, n
<1>5. \A i \in 1..n : q[from[i]] \in T
  <2>1. \A p \in 1..Len(q) : q[p] \in T
    BY ElementOfSeq
  <2> QED BY <1>1, <1>3, <2>1
<1>6. taken \in Seq(T) /\ Len(taken) = n /\ DOMAIN taken = 1..n
  BY <1>2, <1>3, <1>4, <1>5
<1>7. \A i \in 1..n : from[i] \in S /\ taken[i] = q[from[i]]
  BY <1>3, <1>4
<1>8. \A i, j \in 1..n : i < j => from[i] < from[j]
  BY <1>2 DEF Lists, n
<1>9. \A p \in S : \E i \in 1..n : from[i] = p
  BY <1>2 DEF Lists, n
<1> QED BY <1>2, <1>6, <1>7, <1>8, <1>9 DEF from, taken

----------------------------------------------------------------------------
(* The agent's log.                                                        *)

LEMMA ObservationIs ==
  ASSUME NEW o \in Observation
  PROVE  /\ o.seq \in Nat
         /\ IsCondition(o) <=> o \in Condition
         /\ Item(o) = (IF IsCondition(o) THEN "condition" ELSE "value")
         /\ IsCondition(o) => o.key \in Keys /\ o.state \in CondStates /\ Concerns(o, o.key)
         /\ ~IsCondition(o) => \A k \in Keys : ~Concerns(o, k)
<1>1. CASE o \in Condition
  BY <1>1 DEF Condition, IsCondition, Item, Concerns
<1>2. CASE o \notin Condition
  <2>1. o.key = Value /\ o.state = "GOOD" /\ o.seq \in Nat
    BY <1>2 DEF Observation
  <2> QED BY <1>2, <2>1 DEF IsCondition, Item, Concerns
<1> QED BY <1>1, <1>2

\* What the agent's log says of the activation k, from observation to observation.
SaidSo(k) ==
  /\ \A n \in 1..Len(log) : Concerns(log[n], k) => agent[n][k] = Says(log[n])
  /\ \A m, n \in 1..Len(log) :
       m <= n /\ (\A i \in 1..Len(log) : m < i /\ i <= n => ~Concerns(log[i], k))
         => agent[n][k] = agent[m][k]
  /\ \A n \in 1..Len(log) :
       agent[n][k] # Clear => \E i \in 1..Len(log) : i <= n /\ Concerns(log[i], k)
  /\ Concerns(log[2], k)
  /\ \A m, n \in 1..Len(log) :
       n = m + 1 /\ Concerns(log[n], k) /\ log[n].state \in Asserted => agent[n][k] # agent[m][k]

Logged == LogTypes /\ \A k \in Keys : SaidSo(k)

LEMMA LogIs ==
  ASSUME LogTypes
  PROVE  /\ Len(log) \in Nat /\ DOMAIN log = 1..Len(log) /\ DOMAIN agent = 1..Len(log)
         /\ 1 \in 1..Len(log) /\ 2 \in 1..Len(log) /\ Len(log) \in 1..Len(log)
         /\ \A n \in 1..Len(log) : /\ log[n] \in Observation /\ log[n].seq = n
                                   /\ agent[n] \in [Keys -> Asserted \cup {Clear}]
         /\ setup.ascending \in BOOLEAN /\ setup.streaming \in BOOLEAN
         /\ setup.identifies \in BOOLEAN
         /\ setup.observations \in Nat
<1>1. /\ log \in Seq(Observation) /\ agent \in Seq([Keys -> Asserted \cup {Clear}])
      /\ Len(agent) = Len(log) /\ 2 <= Len(log)
  BY DEF LogTypes
<1>2. /\ Len(log) \in Nat /\ DOMAIN log = 1..Len(log) /\ DOMAIN agent = 1..Len(log)
  BY <1>1
<1>3. 1 \in 1..Len(log) /\ 2 \in 1..Len(log) /\ Len(log) \in 1..Len(log)
  BY <1>1, <1>2
<1>4. \A n \in 1..Len(log) : log[n] \in Observation /\ agent[n] \in [Keys -> Asserted \cup {Clear}]
  BY <1>1, <1>2, ElementOfSeq
<1>5. setup \in [streaming : BOOLEAN, identifies : BOOLEAN, ascending : BOOLEAN,
                 observations : Nat \ {0, 1}, breaks : Nat, attaches : Nat, serves : Nat,
                 drops : Nat]
  BY DEF LogTypes
<1> QED BY <1>2, <1>3, <1>4, <1>5 DEF LogTypes

LEMMA LoggedInit == Init => Logged
<1> SUFFICES ASSUME Init PROVE Logged
  OBVIOUS
<1> DEFINE normal == [seq |-> 2, key |-> NoIdent, state |-> "NORMAL"]
<1>1. log = <<ValueObs(1), normal>> /\ agent = <<Quiet, Quiet>> /\ setup \in Setups
  BY DEF Init, Boot
<1>2. /\ ValueObs(1) = [seq |-> 1, key |-> Value, state |-> "GOOD"]
      /\ ValueObs(1) \in Observation /\ ~IsCondition(ValueObs(1))
  BY DEF ValueObs, Observation, IsCondition, Item
<1>3. normal \in Condition /\ normal \in Observation /\ IsCondition(normal)
  BY DEF Condition, Observation, Keys, CondStates, IsCondition, Item
<1>4. Quiet \in [Keys -> Asserted \cup {Clear}] /\ \A k \in Keys : Quiet[k] = Clear
  BY DEF Quiet
<1>5. \A k \in Keys : Concerns(normal, k) /\ Says(normal) = Clear /\ ~Concerns(ValueObs(1), k)
  BY <1>2, ObservationIs DEF Concerns, Says, Asserted
<1>6. ValueObs(1).seq = 1 /\ normal.seq = 2
  BY <1>2
<1> HIDE DEF normal
<1>7. /\ log \in Seq(Observation) /\ agent \in Seq([Keys -> Asserted \cup {Clear}])
      /\ Len(log) = 2 /\ Len(agent) = 2 /\ log[1] = ValueObs(1) /\ log[2] = normal
      /\ agent[1] = Quiet /\ agent[2] = Quiet
  BY <1>1, <1>2, <1>3, <1>4
<1>8. setup.observations \in Nat \ {0, 1}
  BY <1>1
<1>9. 1..2 = {1, 2}
  OBVIOUS
<1>10. LogTypes
  BY <1>1, <1>2, <1>3, <1>6, <1>7, <1>8, <1>9 DEF LogTypes
<1>11. \A k \in Keys : SaidSo(k)
  <2>1. normal.state \notin Asserted
    BY DEF normal, Asserted
  <2> QED BY <1>4, <1>5, <1>7, <1>9, <2>1 DEF SaidSo
<1> QED BY <1>10, <1>11 DEF Logged

\* What a dropped event takes with it: the claims made of the session, and nothing else.
LEMMA DropIs ==
  ASSUME DropObs \/ DropSnapshot
  PROVE  /\ exact' = FALSE /\ whole' = FALSE
         /\ UNCHANGED <<setup, log, agent, next, floor, owed, attached, critical, data, ledger, shown,
                        reply, drained>>
BY DEF DropObs, DropSnapshot

LEMMA DropLeaves ==
  ASSUME DropObs \/ DropSnapshot, "obs" \in DOMAIN doc, "full" \in DOMAIN doc
  PROVE  /\ doc.kind \in {"part", "cycle", "snapshot"} /\ doc.obs # <<>>
         /\ \/ doc' = NoDoc
            \/ \E q \in {Tail(doc.obs), <<>>} : doc' = [doc EXCEPT !.obs = q, !.full = FALSE]
<1>1. CASE DropObs
  <2>1. doc' = NoDoc \/ doc' = [doc EXCEPT !.obs = Tail(doc.obs), !.full = FALSE]
    BY <1>1 DEF DropObs
  <2> QED BY <1>1, <2>1 DEF DropObs
<1>2. CASE DropSnapshot
  BY <1>2 DEF DropSnapshot
<1> QED BY <1>1, <1>2

LEMMA LogMoves ==
  ASSUME [Next]_vars
  PROVE  Observe \/ UNCHANGED <<setup, log, agent>>
<1>1. CASE StreamPart BY <1>1 DEF StreamPart
<1>2. CASE Poll \/ Reopen \/ Recover BY <1>2 DEF Poll, Reopen, Recover, Cycle
<1>3. CASE DispatchObs \/ DispatchSnapshot \/ CycleDone
  BY <1>3 DEF DispatchObs, DispatchSnapshot, CycleDone
<1>4. CASE ServeAttach \/ ServeAttachUndelivered \/ ServeAttachFailed
  BY <1>4 DEF ServeAttach, ServeAttachUndelivered, ServeAttachFailed
<1>7. CASE DropObs \/ DropSnapshot BY <1>7, DropIs
<1>5. CASE Attach \/ Detach \/ Read \/ Ask \/ Served
  BY <1>5 DEF Attach, Detach, Read, Ask, Served
<1>6. CASE UNCHANGED vars BY <1>6 DEF vars
<1> QED BY <1>1, <1>2, <1>3, <1>4, <1>5, <1>6, <1>7 DEF Next

\* What the agent's next observation is, and what stands after it.
LEMMA ObserveIs ==
  ASSUME Logged, Observe
  PROVE  \E o \in Observation :
           /\ o.seq = Len(log) + 1
           /\ log' = Append(log, o)
           /\ agent' = Append(agent, After(o))
           /\ After(o) \in [Keys -> Asserted \cup {Clear}]
           /\ \A k \in Keys : After(o)[k] = IF Concerns(o, k) THEN Says(o) ELSE Now[k]
           /\ \A k \in Keys : Concerns(o, k) /\ o.state \in Asserted => After(o)[k] # Now[k]
           /\ setup' = setup /\ Len(log) < setup.observations
<1>1. PICK o \in Reports \cup {ValueObs(Len(log) + 1)} :
        log' = Append(log, o) /\ agent' = Append(agent, After(o))
  BY DEF Observe
<1>2. Now \in [Keys -> Asserted \cup {Clear}] /\ Len(log) \in Nat
  BY LogIs DEF Logged, LogTypes, Now
<1>3. CASE o = ValueObs(Len(log) + 1)
  <2>1. o.key = Value /\ o.seq = Len(log) + 1 /\ o \in Observation /\ ~IsCondition(o)
    BY <1>2, <1>3 DEF ValueObs, Observation, IsCondition, Item
  <2>2. After(o) = Now
    BY <2>1 DEF After
  <2> QED BY <1>1, <1>2, <2>1, <2>2, ObservationIs DEF Observe
<1>4. CASE o \in Reports
  <2>1. /\ o.seq = Len(log) + 1 /\ o.key \in Keys /\ o.state \in CondStates
        /\ o \in Observation
        /\ o.state = "UNAVAILABLE" => o.key = NoIdent
    <3>1. o \in [seq : {Len(log) + 1}, key : Keys, state : CondStates]
      BY <1>4 DEF Reports
    <3>2. o \in Condition
      BY <1>2, <3>1 DEF Condition
    <3> QED BY <1>4, <3>1, <3>2 DEF Reports, Observation
  <2>2. CASE o.key = NoIdent /\ o.state \notin Asserted
    <3>1. After(o) = Quiet
      BY <2>1, <2>2 DEF After
    <3>2. \A k \in Keys : Concerns(o, k)
      BY <2>1, <2>2 DEF Concerns, CondStates
    <3>3. \A k \in Keys : After(o)[k] = Clear /\ After(o) \in [Keys -> Asserted \cup {Clear}]
      BY <3>1 DEF Quiet
    <3> QED BY <1>1, <2>1, <2>2, <3>2, <3>3 DEF Says, Observe
  <2>3. CASE ~(o.key = NoIdent /\ o.state \notin Asserted)
    <3>1. After(o) = [Now EXCEPT ![o.key] = IF o.state \in Asserted THEN o.state ELSE Clear]
      BY <2>1, <2>3 DEF After
    <3>2. \A k \in Keys : Concerns(o, k) <=> k = o.key
      BY <2>1, <2>3 DEF Concerns, Asserted
    <3>3. After(o) \in [Keys -> Asserted \cup {Clear}]
      BY <1>2, <2>1, <3>1
    <3>4. \A k \in Keys : After(o)[k] = IF Concerns(o, k) THEN Says(o) ELSE Now[k]
      BY <1>2, <2>1, <3>1, <3>2 DEF Says
    <3>5. ASSUME NEW k \in Keys, Concerns(o, k), o.state \in Asserted PROVE After(o)[k] # Now[k]
      <4>1. After(o) # Now
        BY <1>4, <3>5 DEF Reports, Asserted
      <4>2. SUFFICES ASSUME After(o)[k] = Now[k] PROVE FALSE
        OBVIOUS
      <4>3. \A x \in Keys : After(o)[x] = Now[x]
        BY <3>2, <3>4, <3>5, <4>2
      <4> QED BY <1>2, <3>3, <4>1, <4>3
    <3> QED BY <1>1, <2>1, <3>3, <3>4, <3>5 DEF Observe
  <2> QED BY <2>2, <2>3
<1> QED BY <1>1, <1>3, <1>4

LEMMA LoggedStep == Logged /\ [Next]_vars => Logged'
<1> SUFFICES ASSUME Logged, [Next]_vars PROVE Logged'
  OBVIOUS
<1>1. CASE UNCHANGED <<setup, log, agent>>
  <2>1. LogTypes'
    BY <1>1 DEF Logged, LogTypes
  <2>2. \A k \in Keys : SaidSo(k)'
    BY <1>1 DEF Logged, SaidSo
  <2> QED BY <2>1, <2>2 DEF Logged
<1>2. CASE Observe
  <2> DEFINE len == Len(log)
  <2>1. PICK o \in Observation :
           /\ o.seq = len + 1 /\ log' = Append(log, o) /\ agent' = Append(agent, After(o))
           /\ After(o) \in [Keys -> Asserted \cup {Clear}]
           /\ \A k \in Keys : After(o)[k] = IF Concerns(o, k) THEN Says(o) ELSE Now[k]
           /\ \A k \in Keys : Concerns(o, k) /\ o.state \in Asserted => After(o)[k] # Now[k]
           /\ setup' = setup /\ len < setup.observations
    BY <1>2, ObserveIs
  <2>2. /\ log \in Seq(Observation) /\ agent \in Seq([Keys -> Asserted \cup {Clear}])
        /\ Len(agent) = len /\ len \in Nat /\ 2 <= len
    BY LogIs DEF Logged, LogTypes
  <2> HIDE DEF len
  <2>3. /\ log' \in Seq(Observation) /\ Len(log') = len + 1 /\ log'[len + 1] = o
        /\ \A n \in 1..len : log'[n] = log[n]
    BY <2>1, <2>2, AppendProperties DEF len
  <2>4. /\ agent' \in Seq([Keys -> Asserted \cup {Clear}]) /\ Len(agent') = len + 1
        /\ agent'[len + 1] = After(o)
        /\ \A n \in 1..len : agent'[n] = agent[n]
    BY <2>1, <2>2, AppendProperties
  <2>5. 1..(len + 1) = 1..len \cup {len + 1} /\ 1 \in 1..len /\ 2 \in 1..len /\ len \in 1..len
    BY <2>2
  <2>6. LogTypes'
    <3>1. \A n \in 1..len : log[n].seq = n
      BY DEF Logged, LogTypes, len
    <3>2. ~IsCondition(log[1]) /\ IsCondition(log[2]) /\ setup \in Setups
      BY DEF Logged, LogTypes
    <3>3. \A n \in 1..(len + 1) : log'[n].seq = n
      BY <2>1, <2>3, <2>5, <3>1
    <3>4. log'[1] = log[1] /\ log'[2] = log[2]
      BY <2>3, <2>5
    <3>5. setup.observations \in Nat
      BY LogIs DEF Logged
    <3> QED BY <2>1, <2>2, <2>3, <2>4, <3>2, <3>3, <3>4, <3>5 DEF LogTypes
  <2>7. ASSUME NEW k \in Keys PROVE SaidSo(k)'
    <3>1. /\ \A n \in 1..len : Concerns(log[n], k) => agent[n][k] = Says(log[n])
          /\ \A m, n \in 1..len :
               m <= n /\ (\A i \in 1..len : m < i /\ i <= n => ~Concerns(log[i], k))
                 => agent[n][k] = agent[m][k]
          /\ \A n \in 1..len : agent[n][k] # Clear => \E i \in 1..len : i <= n /\ Concerns(log[i], k)
          /\ Concerns(log[2], k)
          /\ \A m, n \in 1..len :
               n = m + 1 /\ Concerns(log[n], k) /\ log[n].state \in Asserted
                 => agent[n][k] # agent[m][k]
      BY DEF Logged, SaidSo, len
    <3>2. Now = agent[len]
      BY <2>2 DEF Now
    <3>3. \A n \in 1..(len + 1) : Concerns(log'[n], k) => agent'[n][k] = Says(log'[n])
      BY <2>1, <2>3, <2>4, <2>5, <3>1
    <3>4. ASSUME NEW m \in 1..(len + 1), NEW n \in 1..(len + 1), m <= n,
                 \A i \in 1..(len + 1) : m < i /\ i <= n => ~Concerns(log'[i], k)
          PROVE  agent'[n][k] = agent'[m][k]
      <4>1. \A i \in 1..len : m < i /\ i <= n => ~Concerns(log[i], k)
        BY <2>3, <2>5, <3>4
      <4>2. CASE n \in 1..len
        <5>1. m \in 1..len
          BY <2>2, <3>4, <4>2
        <5> QED BY <2>4, <3>1, <3>4, <4>1, <4>2, <5>1
      <4>3. CASE n = len + 1 /\ m = len + 1
        BY <4>3
      <4>4. CASE n = len + 1 /\ m \in 1..len
        <5>1. ~Concerns(o, k)
          BY <2>2, <2>3, <2>5, <3>4, <4>4
        <5>2. \A i \in 1..len : m < i /\ i <= len => ~Concerns(log[i], k)
          BY <2>2, <4>1, <4>4
        <5>3. agent[len][k] = agent[m][k]
          BY <2>2, <2>5, <3>1, <4>4, <5>2
        <5> QED BY <2>1, <2>4, <3>2, <4>4, <5>1, <5>3
      <4> QED BY <2>5, <4>2, <4>3, <4>4
    <3>5. ASSUME NEW n \in 1..(len + 1), agent'[n][k] # Clear
          PROVE  \E i \in 1..(len + 1) : i <= n /\ Concerns(log'[i], k)
      <4>1. CASE n \in 1..len
        <5>1. PICK i \in 1..len : i <= n /\ Concerns(log[i], k)
          BY <2>4, <3>1, <3>5, <4>1
        <5> QED BY <2>3, <2>5, <5>1
      <4>2. CASE n = len + 1 /\ Concerns(o, k)
        BY <2>2, <2>3, <2>5, <4>2
      <4>3. CASE n = len + 1 /\ ~Concerns(o, k)
        <5>1. agent[len][k] # Clear
          BY <2>1, <2>4, <3>2, <3>5, <4>3
        <5>2. PICK i \in 1..len : i <= len /\ Concerns(log[i], k)
          BY <2>5, <3>1, <5>1
        <5> QED BY <2>2, <2>3, <2>5, <4>3, <5>2
      <4> QED BY <2>5, <4>1, <4>2, <4>3
    <3>6. ASSUME NEW m \in 1..(len + 1), NEW n \in 1..(len + 1), n = m + 1,
                 Concerns(log'[n], k), log'[n].state \in Asserted
          PROVE  agent'[n][k] # agent'[m][k]
      <4>1. m \in 1..len
        BY <2>2, <3>6
      <4>2. CASE n \in 1..len
        <5>1. log'[n] = log[n] /\ agent'[n] = agent[n] /\ agent'[m] = agent[m]
          BY <2>3, <2>4, <4>1, <4>2
        <5>2. Concerns(log[n], k) /\ log[n].state \in Asserted
          BY <3>6, <5>1
        <5> QED BY <3>1, <3>6, <4>1, <4>2, <5>1, <5>2
      <4>3. CASE n = len + 1
        <5>1. m = len
          BY <2>2, <3>6, <4>3
        <5> QED BY <2>1, <2>3, <2>4, <3>2, <3>6, <4>1, <4>3, <5>1
      <4> QED BY <2>5, <4>2, <4>3
    <3>7. Concerns(log'[2], k)
      BY <2>3, <2>5, <3>1
    <3>8. /\ Len(log') = len + 1
          /\ \A m, n \in 1..(len + 1) :
               m <= n /\ (\A i \in 1..(len + 1) : m < i /\ i <= n => ~Concerns(log'[i], k))
                 => agent'[n][k] = agent'[m][k]
      BY <2>3, <3>4
    <3> QED BY <3>3, <3>5, <3>6, <3>7, <3>8 DEF SaidSo
  <2> QED BY <2>6, <2>7 DEF Logged
<1> QED BY <1>1, <1>2, LogMoves

LEMMA LoggedHolds == Spec => []Logged
BY LoggedInit, LoggedStep, PTL DEF Spec

\* The last observation the agent made of k.
Latest(k, i) == /\ i \in 1..Len(log) /\ Concerns(log[i], k)
                /\ \A j \in 1..Len(log) : Concerns(log[j], k) => j <= i

LEMMA LatestExists ==
  ASSUME Logged, NEW k \in Keys, NEW j \in 1..Len(log), Concerns(log[j], k)
  PROVE  \E i \in 1..Len(log) : Latest(k, i)
<1> DEFINE S == {i \in 1..Len(log) : Concerns(log[i], k)}
<1>1. S \in SUBSET (1..Len(log)) /\ S # {} /\ Len(log) \in Nat
  BY LogIs DEF Logged
<1> HIDE DEF S
<1>2. PICK i \in S : \A n \in S : n <= i
  BY <1>1, GreatestExists
<1> QED BY <1>2 DEF Latest, S

\* What stands of k has stood since then, and is what was said then.
LEMMA LatestSays ==
  ASSUME Logged, NEW k \in Keys, NEW i, Latest(k, i)
  PROVE  /\ \A n \in i..Len(log) : n \in 1..Len(log) /\ agent[n][k] = Says(log[i])
         /\ Now[k] = Says(log[i])
<1>1. LogTypes /\ SaidSo(k) /\ i \in 1..Len(log) /\ Len(log) \in Nat
  BY LogIs DEF Logged, Latest
<1>2. \A n \in i..Len(log) : n \in 1..Len(log) /\ i <= n
  BY <1>1
<1>3. \A n \in 1..Len(log) : i < n => ~Concerns(log[n], k)
  BY <1>1 DEF Latest
<1>4. \A n \in i..Len(log) : agent[n][k] = agent[i][k]
  BY <1>1, <1>2, <1>3 DEF SaidSo
<1>5. agent[i][k] = Says(log[i])
  BY <1>1 DEF SaidSo, Latest
<1>6. Now = agent[Len(log)] /\ Len(log) \in i..Len(log)
  BY <1>1 DEF LogTypes, Now
<1> QED BY <1>2, <1>4, <1>5, <1>6

\* What stands was asserted under its own identity.
LEMMA StandingIs ==
  ASSUME Logged, NEW k \in Keys, Now[k] # Clear
  PROVE  \E i \in 1..Len(log) : /\ Latest(k, i) /\ log[i].key = k /\ IsCondition(log[i])
                                /\ log[i].state = Now[k] /\ Now[k] \in Asserted
<1>1. Now = agent[Len(log)] /\ Len(log) \in 1..Len(log)
  BY LogIs DEF Logged, LogTypes, Now
<1>2. PICK j \in 1..Len(log) : Concerns(log[j], k)
  BY <1>1 DEF Logged, SaidSo
<1>3. PICK i \in 1..Len(log) : Latest(k, i)
  BY <1>2, LatestExists
<1>4. log[i].state \in Asserted /\ Now[k] = log[i].state
  BY <1>3, LatestSays DEF Says
<1>5. log[i] \in Observation
  BY LogIs DEF Logged
<1>6. log[i].key = k
  BY <1>3, <1>4 DEF Latest, Concerns, Asserted
<1>7. IsCondition(log[i])
  BY <1>3, <1>5, ObservationIs DEF Latest
<1> QED BY <1>3, <1>4, <1>6, <1>7

----------------------------------------------------------------------------
(* What a document lists.                                                  *)

LEMMA MaxIs ==
  ASSUME NEW m \in Nat, NEW S \in SUBSET (1..m), S # {}
  PROVE  Max(S) \in S /\ \A n \in S : n <= Max(S)
<1>1. PICK g \in S : \A n \in S : n <= g
  BY GreatestExists
<1>2. \A n \in S : g >= n
  BY <1>1
<1>3. Max(S) \in S /\ \A n \in S : Max(S) >= n
  BY <1>2 DEF Max
<1>4. \A n \in S : n \in Nat
  OBVIOUS
<1> QED BY <1>3, <1>4

\* What /current reports of the condition: every activation that stands, each as it
\* was last asserted, or the last report when none does.
LEMMA ReportedIs ==
  ASSUME Logged
  PROVE  /\ Reported \in SUBSET (1..Len(log)) /\ Reported # {}
         /\ \A s \in Reported : /\ IsCondition(log[s])
                                /\ \A k \in Keys : Concerns(log[s], k) => Latest(k, s)
         /\ \A k \in Keys : Now[k] # Clear => \E s \in Reported : Latest(k, s) /\ log[s].key = k
         /\ (\E k \in Keys : Now[k] # Clear) => \A s \in Reported : log[s].state \in Asserted
         /\ (\A k \in Keys : Now[k] = Clear) =>
              \E s \in Reported : /\ Reported = {s}
                                  /\ \A n \in 1..Len(log) : IsCondition(log[n]) => n <= s
<1>1. Len(log) \in Nat /\ DOMAIN log = 1..Len(log)
  BY LogIs DEF Logged
<1> DEFINE On(k) == {n \in Activations : log[n].key = k}
<1>2. ASSUME NEW k \in Keys, Now[k] # Clear
      PROVE  /\ Latest(k, Max(On(k))) /\ Max(On(k)) \in 1..Len(log)
             /\ log[Max(On(k))].key = k /\ IsCondition(log[Max(On(k))])
             /\ log[Max(On(k))].state \in Asserted
  <2>1. PICK i \in 1..Len(log) : /\ Latest(k, i) /\ log[i].key = k /\ IsCondition(log[i])
                                 /\ log[i].state = Now[k] /\ Now[k] \in Asserted
    BY <1>2, StandingIs
  <2>2. i \in On(k) /\ On(k) \in SUBSET (1..Len(log))
    BY <1>1, <2>1 DEF Activations
  <2>3. \A n \in On(k) : n <= i
    BY <1>1, <2>1 DEF Latest, Activations, Concerns
  <2>4. Max(On(k)) \in On(k) /\ i <= Max(On(k))
    BY <1>1, <2>2, MaxIs
  <2>5. Max(On(k)) = i
    BY <1>1, <2>2, <2>3, <2>4
  <2> QED BY <2>1, <2>5
<1>3. Standing = {Max(On(k)) : k \in {x \in Keys : Now[x] # Clear}}
  BY DEF Standing
<1> HIDE DEF On
<1>4. CASE \E k \in Keys : Now[k] # Clear
  <2>1. Standing # {}
    BY <1>3, <1>4
  <2>2. Reported = Standing
    BY <2>1 DEF Reported
  <2>3. \A s \in Reported : \E k \in Keys : Now[k] # Clear /\ s = Max(On(k))
    BY <1>3, <2>2
  <2>4. \A s \in Reported : \E k \in Keys : /\ Latest(k, s) /\ s \in 1..Len(log) /\ log[s].key = k
                                            /\ IsCondition(log[s]) /\ log[s].state \in Asserted
    BY <1>2, <2>3
  <2>5. \A s \in Reported : \A k \in Keys : Concerns(log[s], k) => Latest(k, s)
    BY <2>4 DEF Concerns, Asserted
  <2>6. \A k \in Keys : Now[k] # Clear => Max(On(k)) \in Reported
    BY <1>3, <2>2
  <2>7. \A k \in Keys : Now[k] # Clear => \E s \in Reported : Latest(k, s) /\ log[s].key = k
    BY <1>2, <2>6
  <2>8. Reported \in SUBSET (1..Len(log))
    BY <2>4
  <2> QED BY <1>4, <2>1, <2>2, <2>4, <2>5, <2>7, <2>8
<1>5. CASE \A k \in Keys : Now[k] = Clear
  <2>1. Standing = {}
    BY <1>3, <1>5
  <2>2. Activations \in SUBSET (1..Len(log)) /\ Activations # {}
    BY <1>1, LogIs DEF Logged, LogTypes, Activations
  <2> DEFINE a == Max(Activations)
  <2>3. a \in Activations /\ \A n \in Activations : n <= a
    BY <1>1, <2>2, MaxIs
  <2>4. Reported = {a}
    BY <2>1 DEF Reported
  <2>5. \A n \in 1..Len(log) : IsCondition(log[n]) => n <= a
    BY <1>1, <2>3 DEF Activations
  <2>6. a \in 1..Len(log) /\ IsCondition(log[a])
    BY <2>2, <2>3 DEF Activations
  <2>7. \A n \in 1..Len(log), k \in Keys : Concerns(log[n], k) => IsCondition(log[n])
    BY LogIs, ObservationIs DEF Logged
  <2> HIDE DEF a
  <2>8. \A k \in Keys : Concerns(log[a], k) => Latest(k, a)
    BY <2>5, <2>6, <2>7 DEF Latest
  <2> QED BY <1>5, <2>4, <2>5, <2>6, <2>8
<1> QED BY <1>4, <1>5

\* /current, place by place: a value, and behind it what is reported.
LEMMA CurrentIs ==
  ASSUME Logged
  PROVE  /\ Made(Current) /\ Len(Current) \in Nat /\ 2 <= Len(Current)
         /\ ~IsCondition(Current[1])
         /\ \A i \in 1..Len(Current) : i # 1 =>
              IsCondition(Current[i]) /\ Current[i].seq \in Reported
         /\ \A n \in 1..Len(log) : ~IsCondition(log[n]) => n <= Current[1].seq
         /\ \A s \in Reported : \E i \in 1..Len(Current) : i # 1 /\ Current[i].seq = s
         /\ setup.ascending => \A i, j \in 1..Len(Current) :
              i # 1 /\ i < j => Current[i].seq < Current[j].seq
         /\ \A i, j \in 1..Len(Current) : i # j => Current[i].seq # Current[j].seq
<1> DEFINE n == Cardinality(Reported)
           up == Rising(Reported)
           r == IF setup.ascending THEN up ELSE Reverse(up)
           v == Max(DOMAIN log \ Activations)
<1>1. LogTypes /\ Len(log) \in Nat /\ DOMAIN log = 1..Len(log) /\ 1 \in 1..Len(log)
  BY LogIs DEF Logged
<1>2. Reported \in SUBSET (1..Len(log)) /\ Reported # {}
  BY ReportedIs
<1>3. Lists(up, Reported) /\ n \in Nat
  BY <1>1, <1>2, RisingIs, PlacesAreFinite
<1>4. /\ up \in [1..n -> Reported]
      /\ \A i, j \in 1..n : i < j => up[i] < up[j]
      /\ \A s \in Reported : \E i \in 1..n : up[i] = s
  BY <1>3 DEF Lists
<1> HIDE DEF n, up
<1>5. /\ r \in [1..n -> Reported]
      /\ setup.ascending => \A i, j \in 1..n : i < j => r[i] < r[j]
      /\ \A s \in Reported : \E i \in 1..n : r[i] = s
      /\ \A i, j \in 1..n : i # j => r[i] # r[j]
  <2>0. \A i, j \in 1..n : i # j => up[i] # up[j]
    <3> SUFFICES ASSUME NEW i \in 1..n, NEW j \in 1..n, i # j PROVE up[i] # up[j]
      OBVIOUS
    <3>1. \A s \in Reported : s \in Nat
      BY <1>1, <1>2
    <3>2. up[i] \in Nat /\ up[j] \in Nat
      BY <1>4, <3>1
    <3>3. i < j \/ j < i
      BY <1>3
    <3> QED BY <1>4, <3>2, <3>3
  <2>1. CASE setup.ascending
    BY <1>4, <2>0, <2>1
  <2>2. CASE ~setup.ascending
    <3>1. up \in Seq(Reported) /\ Len(up) = n
      BY <1>3, <1>4
    <3>2. r = [i \in 1..n |-> up[(n - i) + 1]]
      BY <2>2, <3>1 DEF Reverse
    <3>3. \A i \in 1..n : (n - i) + 1 \in 1..n /\ (n - ((n - i) + 1)) + 1 = i
      BY <1>3
    <3> HIDE DEF r
    <3>4. r \in [1..n -> Reported]
      BY <1>4, <3>2, <3>3
    <3>5. \A i \in 1..n : r[(n - i) + 1] = up[i]
      BY <3>2, <3>3
    <3>6. \A s \in Reported : \E i \in 1..n : r[i] = s
      <4> TAKE s \in Reported
      <4>1. PICK i \in 1..n : up[i] = s
        BY <1>4
      <4> QED BY <3>3, <3>5, <4>1
    <3>7. \A i, j \in 1..n : i # j => (n - i) + 1 # (n - j) + 1
      BY <1>3
    <3>8. \A i, j \in 1..n : i # j => r[i] # r[j]
      BY <2>0, <3>2, <3>3, <3>7
    <3> QED BY <2>2, <3>4, <3>6, <3>8
  <2> QED BY <2>1, <2>2
<1>6. v \in 1..Len(log) /\ ~IsCondition(log[v]) /\ \A m \in 1..Len(log) : ~IsCondition(log[m]) => m <= v
  <2>1. DOMAIN log \ Activations \in SUBSET (1..Len(log)) /\ DOMAIN log \ Activations # {}
    BY <1>1 DEF LogTypes, Activations
  <2>2. v \in DOMAIN log \ Activations /\ \A m \in DOMAIN log \ Activations : m <= v
    BY <1>1, <2>1, MaxIs
  <2> QED BY <1>1, <2>2 DEF Activations
<1>7. Current = Entries(log, <<v>> \o r)
  BY DEF Current, up
<1> HIDE DEF r, v
<1> DEFINE places == <<v>> \o r
<1>8. /\ places \in Seq(1..Len(log)) /\ Len(places) = n + 1
      /\ places[1] = v /\ \A i \in 1..n : places[i + 1] = r[i]
  <2>1. r \in Seq(1..Len(log)) /\ Len(r) = n
    <3>1. r \in [1..n -> 1..Len(log)]
      BY <1>2, <1>5
    <3> QED BY <1>3, <3>1
  <2>2. <<v>> \in Seq(1..Len(log)) /\ Len(<<v>>) = 1 /\ <<v>>[1] = v
    BY <1>6
  <2> QED BY <1>3, <2>1, <2>2, ConcatProperties
<1> HIDE DEF places
<1>9. Current = [i \in 1..(n + 1) |-> log[places[i]]]
  <2>1. DOMAIN places = 1..(n + 1)
    BY <1>3, <1>8
  <2> QED BY <1>7, <2>1 DEF Entries, places
<1>10. \A i \in 1..(n + 1) : places[i] \in 1..Len(log) /\ log[places[i]] \in Observation
                             /\ log[places[i]].seq = places[i]
  <2>1. \A i \in 1..(n + 1) : places[i] \in 1..Len(log)
    BY <1>3, <1>8, ElementOfSeq
  <2> QED BY <1>1, <2>1, LogIs
<1>11. /\ Current \in Seq(Observation) /\ Len(Current) = n + 1
       /\ \A i \in 1..(n + 1) : Current[i] = log[places[i]] /\ Current[i].seq = places[i]
  BY <1>3, <1>9, <1>10
<1>12. Made(Current)
  BY <1>10, <1>11 DEF Made
<1>13. n # 0
  <2>1. PICK s \in Reported : TRUE
    BY <1>2
  <2>2. PICK i \in 1..n : r[i] = s
    BY <1>5
  <2> QED BY <1>3, <2>2
<1>14. \A i \in 1..(n + 1) : i # 1 => i - 1 \in 1..n /\ places[i] = r[i - 1]
  <2> TAKE i \in 1..(n + 1)
  <2> HAVE i # 1
  <2>1. i - 1 \in 1..n /\ (i - 1) + 1 = i
    BY <1>3
  <2> QED BY <1>8, <2>1
<1>15. \A i \in 1..(n + 1) : i # 1 => IsCondition(Current[i]) /\ Current[i].seq \in Reported
  <2> TAKE i \in 1..(n + 1)
  <2> HAVE i # 1
  <2>1. PICK s \in Reported : s = r[i - 1]
    BY <1>5, <1>14
  <2>2. Current[i] = log[s] /\ Current[i].seq = s
    BY <1>11, <1>14, <2>1
  <2>3. IsCondition(log[s])
    BY ReportedIs
  <2> QED BY <2>2, <2>3
<1>16. 1 \in 1..(n + 1) /\ Current[1] = log[v] /\ Current[1].seq = v
  BY <1>3, <1>8, <1>11
<1>17. \A s \in Reported : \E i \in 1..(n + 1) : i # 1 /\ Current[i].seq = s
  <2> TAKE s \in Reported
  <2>1. PICK i \in 1..n : r[i] = s
    BY <1>5
  <2>2. i + 1 \in 1..(n + 1) /\ i + 1 # 1
    BY <1>3
  <2> QED BY <1>8, <1>11, <2>1, <2>2
<1>18. ASSUME setup.ascending, NEW i \in 1..(n + 1), NEW j \in 1..(n + 1), i # 1, i < j
       PROVE  Current[i].seq < Current[j].seq
  <2>1. j # 1 /\ i - 1 < j - 1
    BY <1>3, <1>18
  <2> QED BY <1>5, <1>11, <1>14, <1>18, <2>1
<1>19. ASSUME NEW i \in 1..(n + 1), NEW j \in 1..(n + 1), i # j
       PROVE  Current[i].seq # Current[j].seq
  <2>1. CASE i # 1 /\ j # 1
    <3>1. i - 1 # j - 1
      BY <1>3, <1>19
    <3> QED BY <1>5, <1>11, <1>14, <2>1, <3>1
  <2>2. CASE i = 1 \/ j = 1
    <3>1. \A m \in 1..(n + 1) : m # 1 => Current[m].seq # Current[1].seq
      BY <1>6, <1>11, <1>15, <1>16
    <3> QED BY <1>16, <1>19, <2>2, <3>1
  <2> QED BY <2>1, <2>2
<1>20. Len(Current) \in Nat /\ 2 <= Len(Current)
  BY <1>3, <1>11, <1>13
<1> QED BY <1>6, <1>11, <1>12, <1>15, <1>16, <1>17, <1>18, <1>19, <1>20

\* A part, place by place: what of the log it covers, the values and the conditions
\* each in order.
LEMMA PartIs ==
  ASSUME Logged, NEW m \in 1..Len(log), NEW n \in 1..Len(log)
  PROVE  /\ Made(Part(m, n)) /\ Len(Part(m, n)) \in Nat
         /\ \A i \in 1..Len(Part(m, n)) : m <= Part(m, n)[i].seq /\ Part(m, n)[i].seq <= n
         /\ \A x \in m..n : \E i \in 1..Len(Part(m, n)) : Part(m, n)[i].seq = x
         /\ \A i, j \in 1..Len(Part(m, n)) :
              i < j /\ (IsCondition(Part(m, n)[i]) <=> IsCondition(Part(m, n)[j]))
                => Part(m, n)[i].seq < Part(m, n)[j].seq
<1> DEFINE P == Part(m, n)
           A == (m..n) \ Activations
           B == (m..n) \cap Activations
           a == Taken(log, A)
           b == Taken(log, B)
           fa == Rising(A)
           fb == Rising(B)
<1>1. LogTypes /\ Len(log) \in Nat /\ DOMAIN log = 1..Len(log) /\ log \in Seq(Observation)
  BY LogIs DEF Logged, LogTypes
<1>2. A \in SUBSET (1..Len(log)) /\ B \in SUBSET (1..Len(log))
  BY <1>1
<1> HIDE DEF A, B
<1>3. /\ a \in Seq(Observation) /\ Len(a) \in Nat
      /\ \A i \in 1..Len(a) : fa[i] \in A /\ a[i] = log[fa[i]]
      /\ \A i, j \in 1..Len(a) : i < j => fa[i] < fa[j]
      /\ \A p \in A : \E i \in 1..Len(a) : fa[i] = p
  <2> HIDE DEF a, fa
  <2>1. A \in SUBSET (1..Len(log)) /\ log \in Seq(Observation)
    BY <1>1, <1>2
  <2> QED BY <2>1, TakenIs DEF a, fa
<1>4. /\ b \in Seq(Observation) /\ Len(b) \in Nat
      /\ \A i \in 1..Len(b) : fb[i] \in B /\ b[i] = log[fb[i]]
      /\ \A i, j \in 1..Len(b) : i < j => fb[i] < fb[j]
      /\ \A p \in B : \E i \in 1..Len(b) : fb[i] = p
  BY <1>1, <1>2, TakenIs
<1>5. \A p \in 1..Len(log) : log[p].seq = p /\ log[p] \in Observation
  BY <1>1, LogIs
<1>6. P = a \o b
  BY DEF Part, A, B
<1>a. A = (m..n) \ Activations /\ B = (m..n) \cap Activations
  BY DEF A, B
<1> HIDE DEF a, b, fa, fb
<1>7. /\ P \in Seq(Observation) /\ Len(P) = Len(a) + Len(b)
      /\ \A i \in 1..Len(P) : P[i] = IF i <= Len(a) THEN a[i] ELSE b[i - Len(a)]
  BY <1>3, <1>4, <1>6, ConcatProperties
<1> HIDE DEF P
<1>8. ASSUME NEW i \in 1..Len(P), i <= Len(a)
      PROVE  i \in 1..Len(a) /\ P[i] = log[fa[i]] /\ P[i].seq = fa[i] /\ fa[i] \in A
  <2>1. i \in 1..Len(a)
    BY <1>3, <1>4, <1>7, <1>8
  <2>2. P[i] = log[fa[i]] /\ fa[i] \in A
    BY <1>3, <1>7, <1>8, <2>1
  <2> QED BY <1>2, <1>5, <2>1, <2>2
<1>9. ASSUME NEW i \in 1..Len(P), ~(i <= Len(a))
      PROVE  /\ i - Len(a) \in 1..Len(b) /\ P[i] = log[fb[i - Len(a)]]
             /\ P[i].seq = fb[i - Len(a)] /\ fb[i - Len(a)] \in B
  <2>1. i - Len(a) \in 1..Len(b)
    BY <1>3, <1>4, <1>7, <1>9
  <2> QED BY <1>2, <1>4, <1>5, <1>7, <1>9, <2>1
<1>10. \A i \in 1..Len(P) : /\ P[i].seq \in 1..Len(log) /\ P[i] = log[P[i].seq]
                            /\ P[i].seq \in m..n
                            /\ i <= Len(a) => ~IsCondition(P[i])
                            /\ ~(i <= Len(a)) => IsCondition(P[i])
  BY <1>1, <1>2, <1>8, <1>9, <1>a DEF Activations
<1>11. Made(P)
  BY <1>7, <1>10 DEF Made
<1>12. \A x \in m..n : \E i \in 1..Len(P) : P[i].seq = x
  <2> TAKE x \in m..n
  <2>1. CASE x \in A
    <3>1. PICK i \in 1..Len(a) : fa[i] = x
      BY <1>3, <2>1
    <3>2. i \in 1..Len(P) /\ i <= Len(a)
      BY <1>3, <1>4, <1>7
    <3> QED BY <1>8, <3>1, <3>2
  <2>2. CASE x \in B
    <3>1. PICK i \in 1..Len(b) : fb[i] = x
      BY <1>4, <2>2
    <3>2. /\ i + Len(a) \in 1..Len(P) /\ ~(i + Len(a) <= Len(a))
          /\ (i + Len(a)) - Len(a) = i
      BY <1>3, <1>4, <1>7
    <3> QED BY <1>9, <3>1, <3>2
  <2> QED BY <1>a, <2>1, <2>2
<1>13. ASSUME NEW i \in 1..Len(P), NEW j \in 1..Len(P), i < j,
              IsCondition(P[i]) <=> IsCondition(P[j])
       PROVE  P[i].seq < P[j].seq
  <2>1. CASE i <= Len(a)
    <3>1. j <= Len(a)
      BY <1>10, <1>13, <2>1
    <3>2. i \in 1..Len(a) /\ j \in 1..Len(a)
      BY <1>8, <2>1, <3>1
    <3>3. P[i].seq = fa[i] /\ P[j].seq = fa[j]
      BY <1>8, <2>1, <3>1
    <3> QED BY <1>3, <1>13, <3>2, <3>3
  <2>2. CASE ~(i <= Len(a))
    <3>1. ~(j <= Len(a)) /\ i - Len(a) < j - Len(a)
      BY <1>3, <1>7, <1>13, <2>2
    <3> QED BY <1>4, <1>9, <1>13, <2>2, <3>1
  <2> QED BY <2>1, <2>2
<1>14. /\ Len(P) \in Nat /\ \A i \in 1..Len(P) : m <= P[i].seq /\ P[i].seq <= n
  BY <1>1, <1>3, <1>4, <1>7, <1>10
<1> QED BY <1>11, <1>12, <1>13, <1>14 DEF P

----------------------------------------------------------------------------
(* What should_publish lets through, and what it remembers.                *)

Items == {"value", "condition"}

\* What passes is above the floor of its data item, and rises.
LEMMA FreshIs ==
  ASSUME Logged, NEW entries, Made(entries), NEW floors \in [Items -> Nat]
  PROVE  /\ Made(FreshOf(entries, floors)) /\ Len(FreshOf(entries, floors)) \in Nat
         /\ \A i \in 1..Len(FreshOf(entries, floors)) :
              /\ floors[Item(FreshOf(entries, floors)[i])] < FreshOf(entries, floors)[i].seq
              /\ \E p \in 1..Len(entries) : FreshOf(entries, floors)[i] = entries[p]
         /\ \A i, j \in 1..Len(FreshOf(entries, floors)) :
              i < j /\ Item(FreshOf(entries, floors)[i]) = Item(FreshOf(entries, floors)[j])
                => FreshOf(entries, floors)[i].seq < FreshOf(entries, floors)[j].seq
         /\ \A p \in 1..Len(entries) :
              (/\ floors[Item(entries[p])] < entries[p].seq
               /\ \A q \in 1..Len(entries) : q < p /\ Item(entries[q]) = Item(entries[p])
                                               => entries[q].seq < entries[p].seq)
              => \E i \in 1..Len(FreshOf(entries, floors)) : FreshOf(entries, floors)[i] = entries[p]
<1> DEFINE S == {i \in DOMAIN entries : Passes(entries, floors, i)}
           fresh == FreshOf(entries, floors)
           from == Rising(S)
<1>1. entries \in Seq(Observation) /\ Len(entries) \in Nat /\ DOMAIN entries = 1..Len(entries)
  BY DEF Made
<1>2. S \in SUBSET (1..Len(entries))
  BY <1>1
<1>3. fresh = Taken(entries, S)
  BY DEF FreshOf
<1>0. \A p \in 1..Len(entries) : p \in S <=> Passes(entries, floors, p)
  BY <1>1
<1> HIDE DEF S
<1>4. /\ fresh \in Seq(Observation) /\ Len(fresh) \in Nat
      /\ \A i \in 1..Len(fresh) : from[i] \in S /\ fresh[i] = entries[from[i]]
      /\ \A i, j \in 1..Len(fresh) : i < j => from[i] < from[j]
      /\ \A p \in S : \E i \in 1..Len(fresh) : from[i] = p
  BY <1>1, <1>2, <1>3, TakenIs
<1> HIDE DEF fresh, from
<1>5. \A p \in 1..Len(entries) :
        /\ entries[p].seq \in 1..Len(log) /\ entries[p] = log[entries[p].seq]
        /\ entries[p] \in Observation
  BY <1>1, ElementOfSeq DEF Made
<1>6. \A p \in S : /\ p \in 1..Len(entries) /\ entries[p].seq > floors[Item(entries[p])]
                   /\ \A j \in 1..(p - 1) : Item(entries[j]) = Item(entries[p]) =>
                                              entries[j].seq < entries[p].seq
  BY <1>0, <1>2 DEF Passes
<1>7. Made(fresh)
  <2>1. ASSUME NEW i \in 1..Len(fresh)
        PROVE  fresh[i].seq \in 1..Len(log) /\ fresh[i] = log[fresh[i].seq]
    <3>1. from[i] \in 1..Len(entries) /\ fresh[i] = entries[from[i]]
      BY <1>2, <1>4
    <3> QED BY <1>5, <3>1
  <2> QED BY <1>4, <2>1 DEF Made
<1>8. \A p \in 1..Len(entries) : Item(entries[p]) \in Items /\ entries[p].seq \in Nat
  BY <1>5, ObservationIs DEF Items
<1>9. ASSUME NEW i \in 1..Len(fresh)
      PROVE  floors[Item(fresh[i])] < fresh[i].seq /\ \E p \in 1..Len(entries) : fresh[i] = entries[p]
  <2>1. from[i] \in S /\ fresh[i] = entries[from[i]]
    BY <1>4
  <2>2. floors[Item(entries[from[i]])] \in Nat
    BY <1>6, <1>8, <2>1
  <2> QED BY <1>6, <1>8, <2>1, <2>2
<1>10. ASSUME NEW i \in 1..Len(fresh), NEW j \in 1..Len(fresh), i < j, Item(fresh[i]) = Item(fresh[j])
       PROVE  fresh[i].seq < fresh[j].seq
  <2>1. /\ from[i] \in S /\ fresh[i] = entries[from[i]] /\ from[j] \in S
        /\ fresh[j] = entries[from[j]] /\ from[i] < from[j]
    BY <1>4, <1>10
  <2>2. from[i] \in 1..(from[j] - 1)
    <3>1. from[i] \in 1..Len(entries) /\ from[j] \in 1..Len(entries)
      BY <1>2, <2>1
    <3> QED BY <1>1, <2>1, <3>1
  <2> QED BY <1>6, <1>10, <2>1, <2>2
<1>11. ASSUME NEW p \in 1..Len(entries), floors[Item(entries[p])] < entries[p].seq,
              \A q \in 1..Len(entries) : q < p /\ Item(entries[q]) = Item(entries[p])
                                            => entries[q].seq < entries[p].seq
       PROVE  \E i \in 1..Len(fresh) : fresh[i] = entries[p]
  <2>1. \A q \in 1..(p - 1) : q \in 1..Len(entries) /\ q < p
    BY <1>1
  <2>2. floors[Item(entries[p])] \in Nat /\ entries[p].seq \in Nat
    BY <1>8
  <2>3. Passes(entries, floors, p)
    BY <1>11, <2>1, <2>2 DEF Passes
  <2>4. p \in S
    BY <1>0, <2>3
  <2> QED BY <1>4, <2>4
<1> QED BY <1>4, <1>7, <1>9, <1>10, <1>11 DEF fresh

LEMMA GreatestIs ==
  ASSUME NEW m \in Nat, NEW S \in SUBSET (0..m), S # {}
  PROVE  Greatest(S) \in S /\ \A n \in S : n <= Greatest(S)
<1>1. \E g \in S : \A n \in S : n <= g
  <2>1. CASE S = {0}
    BY <2>1
  <2>2. CASE S # {0}
    <3>1. S \ {0} # {} /\ S \ {0} \in SUBSET (1..m)
      BY <2>2
    <3>2. PICK g \in S \ {0} : \A n \in S \ {0} : n <= g
      BY <3>1, GreatestExists
    <3> QED BY <3>1, <3>2
  <2> QED BY <2>1, <2>2
<1> QED BY <1>1 DEF Greatest

LEMMA RaisedIs ==
  ASSUME Logged, NEW q, Made(q), NEW floors \in [Items -> 0..Len(log)]
  PROVE  /\ Raised(floors, q) \in [Items -> 0..Len(log)]
         /\ \A item \in Items : floors[item] <= Raised(floors, q)[item]
         /\ \A i \in 1..Len(q) : q[i].seq <= Raised(floors, q)[Item(q[i])]
         /\ \A item \in Items : \/ Raised(floors, q)[item] = floors[item]
                                \/ \E i \in 1..Len(q) : /\ Item(q[i]) = item
                                                        /\ Raised(floors, q)[item] = q[i].seq
<1> DEFINE R(item) == {floors[item]} \cup {q[i].seq : i \in {j \in DOMAIN q : Item(q[j]) = item}}
<1>1. /\ DOMAIN q = 1..Len(q) /\ Len(log) \in Nat
      /\ \A i \in 1..Len(q) : q[i].seq \in 1..Len(log) /\ q[i] \in Observation
  BY LogIs, ElementOfSeq DEF Made, Logged
<1>2. Raised(floors, q) = [item \in Items |-> Greatest(R(item))]
  BY DEF Raised, Items
<1>3. \A item \in Items : R(item) \in SUBSET (0..Len(log)) /\ R(item) # {}
  BY <1>1
<1>4. \A item \in Items : Greatest(R(item)) \in R(item) /\ \A n \in R(item) : n <= Greatest(R(item))
  BY <1>1, <1>3, GreatestIs
<1>5. \A i \in 1..Len(q) : Item(q[i]) \in Items
  BY <1>1, ObservationIs DEF Items
<1>6. \A item \in Items : floors[item] \in R(item)
  OBVIOUS
<1>7. \A i \in 1..Len(q) : q[i].seq \in R(Item(q[i]))
  BY <1>1
<1>8. \A item \in Items : \A n \in R(item) : \/ n = floors[item]
                                            \/ \E i \in 1..Len(q) : Item(q[i]) = item /\ n = q[i].seq
  BY <1>1
<1> HIDE DEF R
<1> QED BY <1>2, <1>3, <1>4, <1>5, <1>6, <1>7, <1>8

----------------------------------------------------------------------------
(* What is on its way.                                                     *)

LEMMA MadeIs ==
  ASSUME NEW q, Made(q)
  PROVE  /\ q \in Seq(Observation) /\ Len(q) \in Nat /\ DOMAIN q = 1..Len(q)
         /\ \A i \in 1..Len(q) : q[i] \in Observation /\ q[i].seq \in 1..Len(log) /\ q[i] = log[q[i].seq]
BY ElementOfSeq DEF Made

LEMMA MadeJoins ==
  ASSUME NEW p, NEW q, Made(p), Made(q)
  PROVE  /\ Made(p \o q) /\ Len(p \o q) = Len(p) + Len(q)
         /\ \A i \in 1..Len(p) : i \in 1..Len(p \o q) /\ (p \o q)[i] = p[i]
         /\ \A i \in 1..Len(q) : i + Len(p) \in 1..Len(p \o q) /\ (p \o q)[i + Len(p)] = q[i]
         /\ \A i \in 1..Len(p \o q) : \/ i \in 1..Len(p) /\ (p \o q)[i] = p[i]
                                      \/ i - Len(p) \in 1..Len(q) /\ (p \o q)[i] = q[i - Len(p)]
<1> DEFINE r == p \o q
<1>1. p \in Seq(Observation) /\ q \in Seq(Observation) /\ Len(p) \in Nat /\ Len(q) \in Nat
  BY MadeIs
<1>2. /\ r \in Seq(Observation) /\ Len(r) = Len(p) + Len(q)
      /\ \A i \in 1..Len(r) : r[i] = IF i <= Len(p) THEN p[i] ELSE q[i - Len(p)]
  BY <1>1, ConcatProperties
<1> HIDE DEF r
<1>3. \A i \in 1..Len(p) : i \in 1..Len(r) /\ r[i] = p[i]
  BY <1>1, <1>2
<1>4. \A i \in 1..Len(q) : i + Len(p) \in 1..Len(r) /\ r[i + Len(p)] = q[i]
  <2> TAKE i \in 1..Len(q)
  <2>1. i + Len(p) \in 1..Len(r) /\ ~(i + Len(p) <= Len(p)) /\ (i + Len(p)) - Len(p) = i
    BY <1>1, <1>2
  <2> QED BY <1>2, <2>1
<1>5. \A i \in 1..Len(r) : \/ i \in 1..Len(p) /\ r[i] = p[i]
                           \/ i - Len(p) \in 1..Len(q) /\ r[i] = q[i - Len(p)]
  BY <1>1, <1>2
<1>6. Made(r)
  <2>1. \A i \in 1..Len(p) : p[i].seq \in 1..Len(log) /\ p[i] = log[p[i].seq]
    BY MadeIs
  <2>2. \A i \in 1..Len(q) : q[i].seq \in 1..Len(log) /\ q[i] = log[q[i].seq]
    BY MadeIs
  <2>3. \A i \in 1..Len(r) : r[i].seq \in 1..Len(log) /\ r[i] = log[r[i].seq]
    BY <1>5, <2>1, <2>2
  <2> QED BY <1>2, <2>3 DEF Made
<1> QED BY <1>2, <1>3, <1>4, <1>5, <1>6 DEF r

LEMMA MadeTaken ==
  ASSUME NEW q, Made(q), NEW S \in SUBSET (1..Len(q))
  PROVE  Made(Taken(q, S))
<1> DEFINE t == Taken(q, S)
           from == Rising(S)
<1>1. q \in Seq(Observation)
  BY MadeIs
<1>2. t \in Seq(Observation) /\ \A i \in 1..Len(t) : from[i] \in S /\ t[i] = q[from[i]]
  BY <1>1, TakenIs
<1> HIDE DEF t, from
<1>3. \A i \in 1..Len(t) : t[i].seq \in 1..Len(log) /\ t[i] = log[t[i].seq]
  BY <1>2, MadeIs
<1> QED BY <1>2, <1>3 DEF Made, t

LEMMA MadeTail ==
  ASSUME NEW q, Made(q), q # <<>>
  PROVE  /\ 1 \in 1..Len(q) /\ Head(q) = q[1] /\ Made(<<Head(q)>>) /\ Made(Tail(q))
         /\ Len(Tail(q)) = Len(q) - 1
         /\ \A i \in 1..Len(Tail(q)) : i + 1 \in 1..Len(q) /\ Tail(q)[i] = q[i + 1]
         /\ \A i \in 1..Len(q) : i = 1 \/ (i - 1 \in 1..Len(Tail(q)) /\ Tail(q)[i - 1] = q[i])
<1>1. q \in Seq(Observation) /\ Len(q) \in Nat /\ Len(q) # 0
  BY MadeIs, EmptySeq
<1> DEFINE t == Tail(q)
<1>2. /\ t \in Seq(Observation) /\ Len(t) = Len(q) - 1
      /\ \A i \in 1..Len(t) : t[i] = q[i + 1]
      /\ Head(q) = q[1] /\ Head(q) \in Observation
  BY <1>1, HeadTailProperties
<1> HIDE DEF t
<1>3. 1 \in 1..Len(q)
  BY <1>1
<1>4. \A i \in 1..Len(t) : i + 1 \in 1..Len(q)
  BY <1>1, <1>2
<1>5. \A i \in 1..Len(q) : i = 1 \/ (i - 1 \in 1..Len(t) /\ t[i - 1] = q[i])
  <2> SUFFICES ASSUME NEW i \in 1..Len(q), i # 1 PROVE i - 1 \in 1..Len(t) /\ t[i - 1] = q[i]
    OBVIOUS
  <2>1. i - 1 \in 1..Len(t) /\ (i - 1) + 1 = i
    BY <1>1, <1>2
  <2> QED BY <1>2, <2>1
<1>6. Made(t)
  <2>1. \A i \in 1..Len(q) : q[i].seq \in 1..Len(log) /\ q[i] = log[q[i].seq]
    BY MadeIs
  <2>2. \A i \in 1..Len(t) : t[i].seq \in 1..Len(log) /\ t[i] = log[t[i].seq]
    BY <1>2, <1>4, <2>1
  <2> QED BY <1>2, <2>2 DEF Made
<1>7. Made(<<Head(q)>>)
  <2>1. /\ <<Head(q)>> \in Seq(Observation) /\ Len(<<Head(q)>>) = 1
        /\ <<Head(q)>>[1] = q[1] /\ 1..1 = {1}
    BY <1>2
  <2>2. q[1].seq \in 1..Len(log) /\ q[1] = log[q[1].seq]
    BY <1>3, MadeIs
  <2> QED BY <2>1, <2>2 DEF Made
<1> QED BY <1>2, <1>3, <1>4, <1>5, <1>6, <1>7 DEF t

LEMMA MadeNothing == Made(<<>>) /\ Len(<<>>) = 0
BY EmptySeq DEF Made

----------------------------------------------------------------------------
(* What an action does to what is on its way.                              *)

\* What is let through of a document, and what the floors are raised to.
LEMMA IngestIs ==
  ASSUME Logged, attached \in BOOLEAN,
         NEW kind \in {"part", "cycle", "snapshot"}, NEW entries, Made(entries),
         NEW floors \in [Items -> 0..Len(log)], Ingest(kind, entries, floors)
  PROVE  /\ Made(doc'.obs)
         /\ doc' \in [kind : {"none", "part", "cycle", "snapshot"}, obs : Seq(Observation),
                      full : BOOLEAN]
         /\ doc'.kind = "none" => doc'.obs = <<>> /\ kind = "part"
         /\ doc'.kind # "none" => doc'.kind = kind
         /\ ~attached => doc'.obs = <<>>
         /\ \A i \in 1..Len(doc'.obs) :
              /\ floors[Item(doc'.obs[i])] < doc'.obs[i].seq
              /\ \E p \in 1..Len(entries) : doc'.obs[i] = entries[p]
         /\ \A i, j \in 1..Len(doc'.obs) :
              i < j /\ Item(doc'.obs[i]) = Item(doc'.obs[j]) => doc'.obs[i].seq < doc'.obs[j].seq
         /\ attached => \A p \in 1..Len(entries) :
              (/\ floors[Item(entries[p])] < entries[p].seq
               /\ \A q \in 1..Len(entries) : q < p /\ Item(entries[q]) = Item(entries[p])
                                               => entries[q].seq < entries[p].seq)
              => \E i \in 1..Len(doc'.obs) : doc'.obs[i] = entries[p]
         /\ doc'.full => doc'.obs = entries
         /\ floor' \in [Items -> 0..Len(log)]
         /\ \A item \in Items : \/ floor'[item] = floors[item]
                                \/ \E i \in 1..Len(doc'.obs) : /\ Item(doc'.obs[i]) = item
                                                               /\ floor'[item] = doc'.obs[i].seq
         /\ \A item \in Items : floors[item] <= floor'[item]
<1> DEFINE fresh == IF attached THEN FreshOf(entries, floors) ELSE <<>>
<1>1. /\ doc' = IF fresh = <<>> /\ kind = "part" THEN NoDoc
                ELSE [kind |-> kind, obs |-> fresh, full |-> fresh = entries]
      /\ floor' = Raised(floors, fresh)
  BY DEF Ingest
<1>2. Len(log) \in Nat /\ floors \in [Items -> Nat]
  <2>1. Len(log) \in Nat
    BY LogIs DEF Logged
  <2>2. 0..Len(log) \subseteq Nat
    BY <2>1
  <2> QED BY <2>1, <2>2
<1>3. /\ Made(fresh)
      /\ \A i \in 1..Len(fresh) : /\ floors[Item(fresh[i])] < fresh[i].seq
                                  /\ \E p \in 1..Len(entries) : fresh[i] = entries[p]
      /\ \A i, j \in 1..Len(fresh) :
           i < j /\ Item(fresh[i]) = Item(fresh[j]) => fresh[i].seq < fresh[j].seq
      /\ attached => \A p \in 1..Len(entries) :
              (/\ floors[Item(entries[p])] < entries[p].seq
               /\ \A q \in 1..Len(entries) : q < p /\ Item(entries[q]) = Item(entries[p])
                                               => entries[q].seq < entries[p].seq)
              => \E i \in 1..Len(fresh) : fresh[i] = entries[p]
      /\ ~attached => fresh = <<>>
  <2>1. CASE attached
    <3> DEFINE F == FreshOf(entries, floors)
    <3>1. /\ Made(F)
          /\ \A i \in 1..Len(F) : /\ floors[Item(F[i])] < F[i].seq
                                  /\ \E p \in 1..Len(entries) : F[i] = entries[p]
          /\ \A i, j \in 1..Len(F) : i < j /\ Item(F[i]) = Item(F[j]) => F[i].seq < F[j].seq
          /\ \A p \in 1..Len(entries) :
              (/\ floors[Item(entries[p])] < entries[p].seq
               /\ \A q \in 1..Len(entries) : q < p /\ Item(entries[q]) = Item(entries[p])
                                               => entries[q].seq < entries[p].seq)
              => \E i \in 1..Len(F) : F[i] = entries[p]
      BY <1>2, FreshIs
    <3>2. fresh = F
      BY <2>1
    <3> HIDE DEF F, fresh
    <3> QED BY <2>1, <3>1, <3>2
  <2>2. CASE ~attached
    <3>1. fresh = <<>> /\ Len(fresh) = 0
      BY <2>2, MadeNothing
    <3> QED BY <2>2, <3>1, MadeNothing
  <2> QED BY <2>1, <2>2
<1> HIDE DEF fresh
<1>4. fresh \in Seq(Observation)
  BY <1>3, MadeIs
<1>5. /\ doc'.obs = fresh /\ doc'.full \in BOOLEAN
      /\ doc' \in [kind : {"none", "part", "cycle", "snapshot"}, obs : Seq(Observation),
                   full : BOOLEAN]
      /\ doc'.kind = "none" => fresh = <<>> /\ kind = "part"
      /\ doc'.kind # "none" => doc'.kind = kind
      /\ doc'.full => fresh = entries
  <2>1. CASE fresh = <<>> /\ kind = "part"
    BY <1>1, <1>4, <2>1 DEF NoDoc
  <2>2. CASE ~(fresh = <<>> /\ kind = "part")
    BY <1>1, <1>4, <2>2
  <2> QED BY <2>1, <2>2
<1>6. /\ floor' \in [Items -> 0..Len(log)]
      /\ \A item \in Items : floors[item] <= floor'[item]
      /\ \A item \in Items : \/ floor'[item] = floors[item]
                             \/ \E i \in 1..Len(fresh) : /\ Item(fresh[i]) = item
                                                         /\ floor'[item] = fresh[i].seq
  BY <1>1, <1>3, RaisedIs
<1> QED BY <1>3, <1>5, <1>6

\* A stream part: what the agent said from the cursor up to somewhere within the part's
\* reach, past the floors, its conditions in order.
LEMMA PartBrings ==
  ASSUME Logged, DocTypes, attached \in BOOLEAN, StreamPart
  PROVE  \E n \in 1..Len(log) :
           /\ next <= n /\ n < next + MaxPart /\ next' = n + 1
           /\ Made(doc'.obs)
           /\ doc' \in [kind : {"none", "part", "cycle", "snapshot"}, obs : Seq(Observation),
                        full : BOOLEAN]
           /\ doc'.kind \in {"none", "part"} /\ (doc'.kind = "none" => doc'.obs = <<>>)
           /\ ~attached => doc'.obs = <<>>
           /\ floor' \in [Items -> 0..Len(log)]
           /\ \A item \in Items : floor[item] <= floor'[item]
           /\ \A item \in Items : floor'[item] = floor[item] \/ floor'[item] <= n
           /\ \A i \in 1..Len(doc'.obs) :
                /\ next <= doc'.obs[i].seq /\ doc'.obs[i].seq <= n
                /\ floor[Item(doc'.obs[i])] < doc'.obs[i].seq
           /\ \A i, j \in 1..Len(doc'.obs) :
                i < j /\ Item(doc'.obs[i]) = Item(doc'.obs[j]) => doc'.obs[i].seq < doc'.obs[j].seq
           /\ attached => \A x \in 1..Len(log) :
                next <= x /\ x <= n /\ floor[Item(log[x])] < x
                  => \E i \in 1..Len(doc'.obs) : doc'.obs[i].seq = x
<1>1. PICK n \in next..Len(log) : /\ n < next + MaxPart /\ next' = n + 1
                                  /\ Ingest("part", Part(next, n), floor)
  BY DEF StreamPart
<1>2. Len(log) \in Nat /\ next \in 1..Len(log) /\ n \in 1..Len(log) /\ next <= n
  BY <1>1, LogIs DEF Logged, DocTypes, StreamPart
<1> DEFINE P == Part(next, n)
<1>3. /\ Made(P) /\ \A i \in 1..Len(P) : next <= P[i].seq /\ P[i].seq <= n
      /\ \A x \in next..n : \E i \in 1..Len(P) : P[i].seq = x
      /\ \A i, j \in 1..Len(P) : i < j /\ (IsCondition(P[i]) <=> IsCondition(P[j]))
                                   => P[i].seq < P[j].seq
  BY <1>2, PartIs
<1>4. floor \in [Items -> 0..Len(log)]
  BY DEF DocTypes, Items
<1> HIDE DEF P
<1>5. /\ Made(doc'.obs)
      /\ doc' \in [kind : {"none", "part", "cycle", "snapshot"}, obs : Seq(Observation),
                   full : BOOLEAN]
      /\ doc'.kind \in {"none", "part"} /\ (doc'.kind = "none" => doc'.obs = <<>>)
      /\ ~attached => doc'.obs = <<>>
      /\ \A i \in 1..Len(doc'.obs) : /\ floor[Item(doc'.obs[i])] < doc'.obs[i].seq
                                     /\ \E p \in 1..Len(P) : doc'.obs[i] = P[p]
      /\ \A i, j \in 1..Len(doc'.obs) :
           i < j /\ Item(doc'.obs[i]) = Item(doc'.obs[j]) => doc'.obs[i].seq < doc'.obs[j].seq
      /\ attached => \A p \in 1..Len(P) :
              (/\ floor[Item(P[p])] < P[p].seq
               /\ \A q \in 1..Len(P) : q < p /\ Item(P[q]) = Item(P[p]) => P[q].seq < P[p].seq)
              => \E i \in 1..Len(doc'.obs) : doc'.obs[i] = P[p]
      /\ floor' \in [Items -> 0..Len(log)]
      /\ \A item \in Items : floor[item] <= floor'[item]
      /\ \A item \in Items : \/ floor'[item] = floor[item]
                             \/ \E i \in 1..Len(doc'.obs) : /\ Item(doc'.obs[i]) = item
                                                            /\ floor'[item] = doc'.obs[i].seq
  <2>1. Ingest("part", P, floor)
    BY <1>1 DEF P
  <2>2. "part" \in {"part", "cycle", "snapshot"}
    OBVIOUS
  <2> DEFINE kind == "part"
  <2>3. kind \in {"part", "cycle", "snapshot"} /\ Ingest(kind, P, floor) /\ kind = "part"
    BY <2>1
  <2> HIDE DEF kind
  <2>0. Made(P)
    BY <1>3
  <2>4. /\ Made(doc'.obs)
        /\ doc' \in [kind : {"none", "part", "cycle", "snapshot"}, obs : Seq(Observation),
                     full : BOOLEAN]
        /\ doc'.kind = "none" => doc'.obs = <<>> /\ kind = "part"
        /\ doc'.kind # "none" => doc'.kind = kind
        /\ ~attached => doc'.obs = <<>>
        /\ floor' \in [Items -> 0..Len(log)]
    BY <1>4, <2>3, <2>0, IngestIs
  <2>5. /\ \A i \in 1..Len(doc'.obs) : /\ floor[Item(doc'.obs[i])] < doc'.obs[i].seq
                                       /\ \E p \in 1..Len(P) : doc'.obs[i] = P[p]
        /\ \A i, j \in 1..Len(doc'.obs) :
             i < j /\ Item(doc'.obs[i]) = Item(doc'.obs[j]) => doc'.obs[i].seq < doc'.obs[j].seq
    BY <1>4, <2>3, <2>0, IngestIs
  <2>6. attached => \A p \in 1..Len(P) :
             (/\ floor[Item(P[p])] < P[p].seq
              /\ \A q \in 1..Len(P) : q < p /\ Item(P[q]) = Item(P[p]) => P[q].seq < P[p].seq)
             => \E i \in 1..Len(doc'.obs) : doc'.obs[i] = P[p]
    BY <1>4, <2>3, <2>0, IngestIs
  <2>7. /\ \A item \in Items : \/ floor'[item] = floor[item]
                               \/ \E i \in 1..Len(doc'.obs) : /\ Item(doc'.obs[i]) = item
                                                              /\ floor'[item] = doc'.obs[i].seq
        /\ \A item \in Items : floor[item] <= floor'[item]
    BY <1>4, <2>3, <2>0, IngestIs
  <2> QED BY <2>3, <2>4, <2>5, <2>6, <2>7
<1>6. \A i \in 1..Len(doc'.obs) : next <= doc'.obs[i].seq /\ doc'.obs[i].seq <= n
  BY <1>3, <1>5
<1>7. \A i, j \in 1..Len(P) : Item(P[i]) = Item(P[j]) => (IsCondition(P[i]) <=> IsCondition(P[j]))
  BY DEF IsCondition
<1>8. ASSUME attached, NEW x \in 1..Len(log), next <= x, x <= n, floor[Item(log[x])] < x
      PROVE  \E i \in 1..Len(doc'.obs) : doc'.obs[i].seq = x
  <2>1. PICK p \in 1..Len(P) : P[p].seq = x
    BY <1>2, <1>3, <1>8
  <2>2. P[p] = log[x]
    BY <1>3, <2>1, MadeIs
  <2>3. \A q \in 1..Len(P) : q < p /\ Item(P[q]) = Item(P[p]) => P[q].seq < P[p].seq
    BY <1>3, <1>7
  <2>4. floor[Item(P[p])] < P[p].seq
    BY <1>8, <2>1, <2>2
  <2>5. PICK i \in 1..Len(doc'.obs) : doc'.obs[i] = P[p]
    BY <1>5, <1>8, <2>3, <2>4
  <2> QED BY <2>1, <2>5
<1>9. \A item \in Items : floor'[item] = floor[item] \/ floor'[item] <= n
  BY <1>5, <1>6
<1> QED BY <1>1, <1>2, <1>5, <1>6, <1>8, <1>9

\* A cycle: of /current what is past the floors, and the cursor behind all of the log.
LEMMA CycleBrings ==
  ASSUME Logged, DocTypes, attached \in BOOLEAN,
         NEW kind \in {"cycle", "snapshot"}, NEW floors \in [Items -> 0..Len(log)],
         Cycle(kind, floors)
  PROVE  /\ next' = Len(log) + 1
         /\ Made(doc'.obs)
         /\ doc' \in [kind : {"none", "part", "cycle", "snapshot"}, obs : Seq(Observation),
                      full : BOOLEAN]
         /\ doc'.kind = kind
         /\ ~attached => doc'.obs = <<>>
         /\ floor' \in [Items -> 0..Len(log)]
         /\ \A i \in 1..Len(doc'.obs) : \E p \in 1..Len(Current) : doc'.obs[i] = Current[p]
         /\ \A i, j \in 1..Len(doc'.obs) :
              i < j /\ Item(doc'.obs[i]) = Item(doc'.obs[j]) => doc'.obs[i].seq < doc'.obs[j].seq
         /\ attached /\ setup.ascending => \A s \in Reported :
              floors["condition"] < s => \E i \in 1..Len(doc'.obs) : doc'.obs[i].seq = s
         /\ doc'.full => doc'.obs = Current
<1>1. Ingest(kind, Current, floors) /\ next' = Len(log) + 1
  BY DEF Cycle
<1>2. Made(Current)
  BY CurrentIs
<1>3. /\ Made(doc'.obs)
      /\ doc' \in [kind : {"none", "part", "cycle", "snapshot"}, obs : Seq(Observation),
                   full : BOOLEAN]
      /\ doc'.kind = kind
      /\ ~attached => doc'.obs = <<>>
      /\ \A i \in 1..Len(doc'.obs) : \E p \in 1..Len(Current) : doc'.obs[i] = Current[p]
      /\ \A i, j \in 1..Len(doc'.obs) :
           i < j /\ Item(doc'.obs[i]) = Item(doc'.obs[j]) => doc'.obs[i].seq < doc'.obs[j].seq
      /\ attached => \A p \in 1..Len(Current) :
              (/\ floors[Item(Current[p])] < Current[p].seq
               /\ \A q \in 1..Len(Current) : q < p /\ Item(Current[q]) = Item(Current[p])
                                              => Current[q].seq < Current[p].seq)
              => \E i \in 1..Len(doc'.obs) : doc'.obs[i] = Current[p]
      /\ doc'.full => doc'.obs = Current
      /\ floor' \in [Items -> 0..Len(log)]
  <2>1. kind \in {"part", "cycle", "snapshot"} /\ kind # "part"
    OBVIOUS
  <2> DEFINE C == Current
  <2>2. Made(C) /\ Ingest(kind, C, floors)
    BY <1>1, <1>2
  <2> HIDE DEF C
  <2>3. /\ Made(doc'.obs)
        /\ doc' \in [kind : {"none", "part", "cycle", "snapshot"}, obs : Seq(Observation),
                     full : BOOLEAN]
        /\ doc'.kind = "none" => doc'.obs = <<>> /\ kind = "part"
        /\ doc'.kind # "none" => doc'.kind = kind
        /\ ~attached => doc'.obs = <<>>
        /\ \A i \in 1..Len(doc'.obs) : \E p \in 1..Len(C) : doc'.obs[i] = C[p]
        /\ \A i, j \in 1..Len(doc'.obs) :
             i < j /\ Item(doc'.obs[i]) = Item(doc'.obs[j]) => doc'.obs[i].seq < doc'.obs[j].seq
        /\ attached => \A p \in 1..Len(C) :
             (/\ floors[Item(C[p])] < C[p].seq
              /\ \A q \in 1..Len(C) : q < p /\ Item(C[q]) = Item(C[p]) => C[q].seq < C[p].seq)
             => \E i \in 1..Len(doc'.obs) : doc'.obs[i] = C[p]
        /\ doc'.full => doc'.obs = C
        /\ floor' \in [Items -> 0..Len(log)]
    BY <2>1, <2>2, IngestIs
  <2> QED BY <2>1, <2>3 DEF C
<1>4. ASSUME attached, setup.ascending, NEW s \in Reported, floors["condition"] < s
      PROVE  \E i \in 1..Len(doc'.obs) : doc'.obs[i].seq = s
  <2> DEFINE C == Current
  <2>1. /\ Len(C) \in Nat /\ ~IsCondition(C[1])
        /\ \A i \in 1..Len(C) : i # 1 => IsCondition(C[i])
        /\ \A i, j \in 1..Len(C) : i # 1 /\ i < j => C[i].seq < C[j].seq
        /\ \E i \in 1..Len(C) : i # 1 /\ C[i].seq = s
    BY <1>4, CurrentIs
  <2> HIDE DEF C
  <2>2. PICK p \in 1..Len(C) : p # 1 /\ C[p].seq = s
    BY <2>1
  <2>3. Item(C[p]) = "condition" /\ Item(C[1]) # "condition"
    BY <2>1, <2>2 DEF IsCondition
  <2>4. \A q \in 1..Len(C) : q < p /\ Item(C[q]) = Item(C[p]) => C[q].seq < C[p].seq
    <3> SUFFICES ASSUME NEW q \in 1..Len(C), q < p, Item(C[q]) = Item(C[p])
                 PROVE  C[q].seq < C[p].seq
      OBVIOUS
    <3>1. q # 1
      BY <2>3
    <3> QED BY <2>1, <3>1
  <2>5. floors[Item(C[p])] < C[p].seq
    BY <1>4, <2>2, <2>3
  <2>6. PICK i \in 1..Len(doc'.obs) : doc'.obs[i] = C[p]
    BY <1>3, <1>4, <2>4, <2>5 DEF C
  <2> QED BY <2>2, <2>6
<1> QED BY <1>1, <1>3, <1>4

----------------------------------------------------------------------------
(* What a batch makes of the ledger, and which reading it publishes.       *)

\* Where the conditions, or the values, of a batch are.
PlacesOf(q, conditions) == {i \in DOMAIN q : IsCondition(q[i]) <=> conditions}
From(q, conditions)     == Rising(PlacesOf(q, conditions))
Split(q, conditions)    == Taken(q, PlacesOf(q, conditions))

SplitOf(q, conditions, c, from) ==
  /\ Made(c)
  /\ \A i \in 1..Len(c) : /\ from[i] \in 1..Len(q) /\ c[i] = q[from[i]]
                          /\ IsCondition(c[i]) <=> conditions
  /\ \A i, j \in 1..Len(c) : i < j => from[i] < from[j]
  /\ \A p \in 1..Len(q) : (IsCondition(q[p]) <=> conditions) => \E i \in 1..Len(c) : from[i] = p

LEMMA SplitIs ==
  ASSUME NEW q, Made(q), NEW conditions \in BOOLEAN
  PROVE  SplitOf(q, conditions, Split(q, conditions), From(q, conditions))
<1> DEFINE S == PlacesOf(q, conditions)
           c == Taken(q, S)
           from == Rising(S)
<1>1. q \in Seq(Observation) /\ DOMAIN q = 1..Len(q)
  BY MadeIs
<1>2. S \in SUBSET (1..Len(q)) /\ \A p \in 1..Len(q) : p \in S <=> (IsCondition(q[p]) <=> conditions)
  BY <1>1 DEF PlacesOf
<1> HIDE DEF S
<1>3. /\ \A i \in 1..Len(c) : from[i] \in S /\ c[i] = q[from[i]]
      /\ \A i, j \in 1..Len(c) : i < j => from[i] < from[j]
      /\ \A p \in S : \E i \in 1..Len(c) : from[i] = p
  <2> HIDE DEF c, from
  <2>1. S \in SUBSET (1..Len(q))
    BY <1>2
  <2> QED BY <1>1, <2>1, TakenIs DEF c, from
<1>4. Made(c)
  BY <1>2, MadeTaken
<1> HIDE DEF c, from
<1>5. \A i \in 1..Len(c) : /\ from[i] \in 1..Len(q) /\ c[i] = q[from[i]]
                           /\ IsCondition(c[i]) <=> conditions
  BY <1>2, <1>3
<1> QED BY <1>2, <1>3, <1>4, <1>5 DEF S, c, from, SplitOf, Split, From

LEMMA ConditionsIs ==
  ASSUME NEW q, Made(q)
  PROVE  SplitOf(q, TRUE, Conditions_(q), From(q, TRUE))
<1>1. Conditions_(q) = Split(q, TRUE)
  BY DEF Conditions_, PlacesOf, Split
<1> QED BY <1>1, SplitIs

LEMMA ValuesIs ==
  ASSUME NEW q, Made(q), Values_(q) # <<>>
  PROVE  \E p \in 1..Len(q) : ~IsCondition(q[p]) /\ Last(Values_(q)) = q[p]
<1> DEFINE v == Values_(q)
<1>1. v = Split(q, FALSE)
  BY DEF Values_, PlacesOf, Split
<1>2. Made(v) /\ \A i \in 1..Len(v) : \E p \in 1..Len(q) : v[i] = q[p] /\ ~IsCondition(q[p])
  <2>1. SplitOf(q, FALSE, v, From(q, FALSE))
    BY <1>1, SplitIs
  <2> HIDE DEF v
  <2> QED BY <2>1 DEF SplitOf
<1> HIDE DEF v
<1>3. v # <<>>
  BY DEF v
<1>4. Len(v) \in 1..Len(v)
  <2>1. v \in Seq(Observation) /\ Len(v) \in Nat /\ Len(v) # 0
    BY <1>2, <1>3, MadeIs, EmptySeq
  <2> QED BY <2>1
<1> QED BY <1>2, <1>4 DEF Last, v

FoldOf(l, q) == Folded(l, Conditions_(q), Len(Conditions_(q)))

\* A batch leaves alone what it does not concern; the data item's own say is that of its
\* last condition.
LEMMA FoldTyped ==
  ASSUME NEW q, Made(q), NEW l \in Ledger
  PROVE  /\ FoldOf(l, q) \in Ledger
         /\ \A k \in Keys : (\A i \in 1..Len(q) : ~Concerns(q[i], k))
                              => FoldOf(l, q).active[k] = l.active[k]
         /\ (\A i \in 1..Len(q) : ~IsCondition(q[i])) => FoldOf(l, q).unavailable = l.unavailable
         /\ \A i \in 1..Len(q) :
              IsCondition(q[i]) /\ (\A j \in 1..Len(q) : i < j => ~IsCondition(q[j]))
                => FoldOf(l, q).unavailable = (q[i].state = "UNAVAILABLE")
<1> DEFINE c == Conditions_(q)
           n == Len(c)
           from == From(q, TRUE)
           f == FoldOf(l, q)
           Pick(k) == CHOOSE i \in Mentions(c, n, k) : IsLast(i, Mentions(c, n, k))
<1>1. /\ Made(c)
      /\ \A i \in 1..n : from[i] \in 1..Len(q) /\ c[i] = q[from[i]] /\ IsCondition(c[i])
      /\ \A i, j \in 1..n : i < j => from[i] < from[j]
      /\ \A p \in 1..Len(q) : IsCondition(q[p]) => \E i \in 1..n : from[i] = p
  BY ConditionsIs DEF SplitOf
<1>2. n \in Nat /\ \A i \in 1..n : c[i] \in Observation
  BY <1>1, MadeIs
<1>3. f = [active |-> [k \in Keys |-> IF Mentions(c, n, k) = {} THEN l.active[k] ELSE Says(c[Pick(k)])],
           unavailable |-> IF n = 0 THEN l.unavailable ELSE c[n].state = "UNAVAILABLE"]
  BY DEF FoldOf, Folded
<1>4. l.active \in [Keys -> Asserted \cup {Clear}] /\ l.unavailable \in BOOLEAN
  BY DEF Ledger
<1> HIDE DEF c, n, from, f, Pick
<1>5. \A k \in Keys : Says(c[Pick(k)]) \in Asserted \cup {Clear}
  BY DEF Says
<1>6. f.active \in [Keys -> Asserted \cup {Clear}] /\ f.unavailable \in BOOLEAN
  BY <1>3, <1>4, <1>5
<1>7. f \in Ledger
  BY <1>3, <1>6 DEF Ledger
<1>8. ASSUME NEW k \in Keys, \A i \in 1..Len(q) : ~Concerns(q[i], k)
      PROVE  f.active[k] = l.active[k]
  <2>1. Mentions(c, n, k) = {}
    BY <1>1, <1>8 DEF Mentions
  <2> QED BY <1>3, <2>1
<1>9. ASSUME \A i \in 1..Len(q) : ~IsCondition(q[i]) PROVE f.unavailable = l.unavailable
  <2>1. n = 0
    <3>1. n # 0 => 1 \in 1..n
      BY <1>2
    <3> QED BY <1>1, <1>9, <3>1
  <2> QED BY <1>3, <2>1
<1>10. ASSUME NEW i \in 1..Len(q), IsCondition(q[i]),
              \A j \in 1..Len(q) : i < j => ~IsCondition(q[j])
       PROVE  f.unavailable = (q[i].state = "UNAVAILABLE")
  <2>1. PICK x \in 1..n : from[x] = i
    BY <1>1, <1>10
  <2>2. n \in 1..n
    BY <1>2
  <2>3. ~(x < n)
    BY <1>1, <1>10, <2>1, <2>2
  <2>4. x = n
    BY <1>2, <2>1, <2>3
  <2> QED BY <1>1, <1>3, <2>1, <2>2, <2>4
<1> QED BY <1>7, <1>8, <1>9, <1>10 DEF f

\* In a batch, of two observations of one activation the later comes second.
Ordered(q) == \A i, j \in 1..Len(q) : i < j =>
                \A k \in Keys : Concerns(q[i], k) /\ Concerns(q[j], k) => q[i].seq <= q[j].seq

\* What an orderly batch concerns is left as its latest observation has it.
LEMMA FoldIs ==
  ASSUME Logged, NEW q, Made(q), Ordered(q), NEW l \in Ledger, NEW k \in Keys,
         \E i \in 1..Len(q) : Concerns(q[i], k)
  PROVE  \E i \in 1..Len(q) : /\ Concerns(q[i], k)
                              /\ \A j \in 1..Len(q) : Concerns(q[j], k) => q[j].seq <= q[i].seq
                              /\ FoldOf(l, q).active[k] = agent[q[i].seq][k]
<1> DEFINE c == Conditions_(q)
           n == Len(c)
           from == From(q, TRUE)
           f == FoldOf(l, q)
           S == Mentions(c, n, k)
           g == CHOOSE i \in S : IsLast(i, S)
<1>1. /\ Made(c)
      /\ \A i \in 1..n : from[i] \in 1..Len(q) /\ c[i] = q[from[i]] /\ IsCondition(c[i])
      /\ \A i, j \in 1..n : i < j => from[i] < from[j]
      /\ \A p \in 1..Len(q) : IsCondition(q[p]) => \E i \in 1..n : from[i] = p
  BY ConditionsIs DEF SplitOf
<1>2. n \in Nat /\ Len(q) \in Nat
  BY <1>1, MadeIs
<1>3. S # {} => f.active[k] = Says(c[g])
  BY DEF FoldOf, Folded
<1>4. \A i \in 1..Len(q) : Concerns(q[i], k) => IsCondition(q[i])
  BY MadeIs, ObservationIs
<1> HIDE DEF c, n, from, f
<1>5. S \in SUBSET (1..n) /\ \A i \in 1..n : i \in S <=> Concerns(c[i], k)
  BY DEF Mentions
<1>6. \A p \in 1..Len(q) : Concerns(q[p], k) => \E i \in S : from[i] = p
  BY <1>1, <1>4, <1>5
<1>7. S # {}
  BY <1>6
<1> HIDE DEF S
<1>8. \E i \in S : IsLast(i, S)
  <2>1. PICK i \in S : \A j \in S : j <= i
    BY <1>2, <1>5, <1>7, GreatestExists
  <2> QED BY <2>1 DEF IsLast
<1>9. g \in S /\ \A j \in S : j <= g
  BY <1>8 DEF IsLast
<1> HIDE DEF g
<1>10. g \in 1..n /\ from[g] \in 1..Len(q) /\ Concerns(q[from[g]], k) /\ c[g] = q[from[g]]
  BY <1>1, <1>5, <1>9
<1>11. ASSUME NEW j \in 1..Len(q), Concerns(q[j], k) PROVE q[j].seq <= q[from[g]].seq
  <2>1. PICK i \in S : from[i] = j
    BY <1>6, <1>11
  <2>2. CASE i = g
    <3>1. q[j].seq \in Nat
      BY LogIs, MadeIs DEF Logged
    <3> QED BY <2>1, <2>2, <3>1
  <2>3. CASE i # g
    <3>1. i \in 1..n /\ i < g
      BY <1>2, <1>5, <1>9, <2>3
    <3>2. j < from[g]
      BY <1>1, <1>10, <2>1, <3>1
    <3> QED BY <1>10, <1>11, <3>2 DEF Ordered
  <2> QED BY <2>2, <2>3
<1>12. f.active[k] = agent[q[from[g]].seq][k]
  <2> DEFINE s == q[from[g]].seq
  <2>1. s \in 1..Len(log) /\ q[from[g]] = log[s]
    BY <1>10, MadeIs
  <2>2. agent[s][k] = Says(log[s])
    BY <1>10, <2>1 DEF Logged, SaidSo
  <2> QED BY <1>3, <1>7, <1>10, <2>1, <2>2
<1> QED BY <1>10, <1>11, <1>12 DEF f

LEMMA DegradedTyped == \A l : Degraded(l) \in {"GOOD", "UNCERTAIN", "BAD"}
<1>1. \A state : condition_quality(state) \in {"GOOD", "UNCERTAIN", "BAD"}
  BY DEF condition_quality
<1> QED BY <1>1 DEF Degraded, Worse

----------------------------------------------------------------------------
(* Type correctness.                                                       *)

\* What the agent has made stays made.
MadeOf(q, l) == /\ q \in Seq(Observation)
                /\ \A i \in 1..Len(q) : q[i].seq \in 1..Len(l) /\ q[i] = l[q[i].seq]

LEMMA LogGrows ==
  ASSUME Logged, [Next]_vars
  PROVE  /\ Len(log) \in Nat /\ Len(log') \in Nat /\ Len(log) <= Len(log') /\ setup' = setup
         /\ \A n \in 1..Len(log) : n \in 1..Len(log') /\ log'[n] = log[n] /\ agent'[n] = agent[n]
<1>1. CASE UNCHANGED <<setup, log, agent>>
  BY <1>1, LogIs DEF Logged
<1>2. CASE Observe
  <2>1. PICK o \in Observation : /\ log' = Append(log, o) /\ agent' = Append(agent, After(o))
                                 /\ After(o) \in [Keys -> Asserted \cup {Clear}]
                                 /\ setup' = setup
    BY <1>2, ObserveIs
  <2>2. /\ log \in Seq(Observation) /\ agent \in Seq([Keys -> Asserted \cup {Clear}])
        /\ Len(agent) = Len(log) /\ Len(log) \in Nat
    BY LogIs DEF Logged, LogTypes
  <2>3. Len(log') = Len(log) + 1 /\ \A n \in 1..Len(log) : log'[n] = log[n]
    BY <2>1, <2>2, AppendProperties
  <2>4. \A n \in 1..Len(log) : agent'[n] = agent[n]
    BY <2>1, <2>2, AppendProperties
  <2> QED BY <2>1, <2>2, <2>3, <2>4
<1> QED BY <1>1, <1>2, LogMoves

LEMMA MadeStays ==
  ASSUME Logged, [Next]_vars, NEW q, Made(q)
  PROVE  MadeOf(q, log')
<1>1. \A n \in 1..Len(log) : n \in 1..Len(log') /\ log'[n] = log[n]
  BY LogGrows
<1> QED BY <1>1 DEF Made, MadeOf

LEMMA MadeNext ==
  /\ MadeOf(critical', log') => Made(critical)'
  /\ MadeOf(data', log') => Made(data)'
  /\ MadeOf((doc')["obs"], log') => Made(doc.obs)'
  /\ MadeOf((reply')["obs"], log') => Made(reply.obs)'
BY DEF Made, MadeOf

LEMMA DocTypesNext ==
  ASSUME Logged, DocTypes, SessionTypes, [Next]_vars
  PROVE  DocTypes'
<1>1. Len(log) \in Nat /\ Len(log') \in Nat /\ Len(log) <= Len(log')
  BY LogGrows
<1>2. attached \in BOOLEAN
  BY DEF SessionTypes
<1>3. /\ next \in 1..(Len(log) + 1) /\ floor \in [Items -> 0..Len(log)] /\ Made(doc.obs)
      /\ doc \in [kind : {"none", "part", "cycle", "snapshot"}, obs : Seq(Observation),
                  full : BOOLEAN]
      /\ doc.kind = "none" => doc.obs = <<>>
  BY DEF DocTypes, Items
<1>4. MadeOf(doc.obs, log') /\ next \in 1..(Len(log') + 1) /\ floor \in [Items -> 0..Len(log')]
  <2>1. 0..Len(log) \subseteq 0..Len(log') /\ 1..(Len(log) + 1) \subseteq 1..(Len(log') + 1)
    BY <1>1
  <2> QED BY <1>3, <2>1, MadeStays
<1>5. CASE UNCHANGED <<next, floor, doc>>
  BY <1>3, <1>4, <1>5, MadeNext DEF DocTypes, Items
<1> DEFINE Whole == /\ MadeOf(doc'.obs, log')
                    /\ doc' \in [kind : {"none", "part", "cycle", "snapshot"},
                                 obs : Seq(Observation), full : BOOLEAN]
                    /\ doc'.kind = "none" => doc'.obs = <<>>
<1>6. ASSUME Whole, next' \in 1..(Len(log') + 1), floor' \in [Items -> 0..Len(log')]
      PROVE  DocTypes'
  BY <1>6, MadeNext DEF DocTypes, Items
<1>7. ASSUME UNCHANGED <<next, floor, log>>, Whole PROVE DocTypes'
  BY <1>4, <1>6, <1>7
<1>8. CASE StreamPart
  <2>1. PICK n \in 1..Len(log) :
           /\ next' = n + 1 /\ Made(doc'.obs)
           /\ doc' \in [kind : {"none", "part", "cycle", "snapshot"}, obs : Seq(Observation),
                        full : BOOLEAN]
           /\ doc'.kind = "none" => doc'.obs = <<>>
           /\ floor' \in [Items -> 0..Len(log)]
    BY <1>2, <1>8, PartBrings
  <2>2. MadeOf(doc'.obs, log') /\ log' = log
    BY <1>8, <2>1, MadeStays DEF StreamPart
  <2>3. n + 1 \in 1..(Len(log) + 1)
    BY <1>1
  <2> QED BY <1>6, <2>1, <2>2, <2>3
<1>9. ASSUME NEW kind \in {"cycle", "snapshot"}, NEW floors \in [Items -> 0..Len(log)],
             Cycle(kind, floors)
      PROVE  DocTypes'
  <2>1. /\ next' = Len(log) + 1 /\ Made(doc'.obs)
        /\ doc' \in [kind : {"none", "part", "cycle", "snapshot"}, obs : Seq(Observation),
                     full : BOOLEAN]
        /\ doc'.kind = kind
        /\ floor' \in [Items -> 0..Len(log)]
    BY <1>2, <1>9, CycleBrings
  <2>2. MadeOf(doc'.obs, log') /\ log' = log
    BY <1>9, <2>1, MadeStays DEF Cycle
  <2>3. Len(log) + 1 \in 1..(Len(log) + 1) /\ kind # "none"
    BY <1>1
  <2> QED BY <1>6, <2>1, <2>2, <2>3
<1>10. CASE Poll \/ Reopen \/ Recover
  <2>1. NoFloors \in [Items -> 0..Len(log)]
    BY <1>1 DEF NoFloors, Items
  <2>2. \/ Cycle("cycle", floor) \/ Cycle("snapshot", NoFloors)
    BY <1>10 DEF Poll, Reopen, Recover
  <2> QED BY <1>3, <1>9, <2>1, <2>2
<1>11. CASE DispatchObs
  <2>1. doc.obs # <<>> /\ UNCHANGED <<next, floor, log>>
    BY <1>11 DEF DispatchObs
  <2>2. doc' = NoDoc \/ doc' = [doc EXCEPT !.obs = Tail(doc.obs)]
    BY <1>11 DEF DispatchObs
  <2>3. Made(Tail(doc.obs)) /\ Tail(doc.obs) \in Seq(Observation) /\ Made(<<>>) /\ doc.kind # "none"
    BY <1>3, <2>1, MadeTail, MadeIs, MadeNothing
  <2>4. MadeOf(Tail(doc.obs), log') /\ MadeOf(<<>>, log') /\ <<>> \in Seq(Observation)
    BY <2>3, MadeStays DEF MadeOf
  <2>5. Whole
    <3> DEFINE t == Tail(doc.obs)
    <3>1. MadeOf(t, log') /\ t \in Seq(Observation) /\ MadeOf(<<>>, log') /\ <<>> \in Seq(Observation)
      BY <2>3, <2>4
    <3>2. doc' = NoDoc \/ doc' = [doc EXCEPT !.obs = t]
      BY <2>2
    <3> HIDE DEF t
    <3>3. CASE doc' = NoDoc
      BY <3>1, <3>3 DEF NoDoc
    <3>4. CASE doc' = [doc EXCEPT !.obs = t]
      BY <1>3, <2>3, <3>1, <3>4
    <3> QED BY <3>2, <3>3, <3>4
  <2> QED BY <1>7, <2>1, <2>5
<1>12. CASE DispatchSnapshot
  <2>1. doc' = [doc EXCEPT !.obs = <<>>] /\ UNCHANGED <<next, floor, log>>
    BY <1>12 DEF DispatchSnapshot
  <2>2. MadeOf(<<>>, log') /\ <<>> \in Seq(Observation)
    BY MadeNothing, MadeStays DEF MadeOf
  <2>3. Whole
    BY <1>3, <2>1, <2>2
  <2> QED BY <1>7, <2>1, <2>3
<1>13. CASE CycleDone
  <2>1. doc' = NoDoc /\ UNCHANGED <<next, floor, log>>
    BY <1>13 DEF CycleDone
  <2>2. MadeOf(<<>>, log') /\ <<>> \in Seq(Observation)
    BY MadeNothing, MadeStays DEF MadeOf
  <2>3. Whole
    BY <2>1, <2>2 DEF NoDoc
  <2> QED BY <1>7, <2>1, <2>3
<1>14. CASE ServeAttach
  <2>1. UNCHANGED <<log, next, doc>> /\ floor' \in [Items -> 0..Len(log)]
    <3>1. Made(Current)
      BY CurrentIs
    <3>2. Raised(floor, Current) \in [Items -> 0..Len(log)]
      BY <1>3, <3>1, RaisedIs
    <3> QED BY <1>3, <1>14, <3>2 DEF ServeAttach
  <2> QED BY <1>3, <1>4, <1>6, <2>1
<1>15. CASE Attach
  <2>1. doc' = [doc EXCEPT !.full = FALSE] /\ UNCHANGED <<next, floor, log>>
    BY <1>15 DEF Attach
  <2>2. Whole
    BY <1>3, <1>4, <2>1
  <2> QED BY <1>7, <2>1, <2>2
<1>16. CASE Observe \/ ServeAttachUndelivered \/ ServeAttachFailed \/ Detach \/ Read \/ Ask \/ Served
            \/ UNCHANGED vars
  BY <1>5, <1>16 DEF Observe, ServeAttachUndelivered, ServeAttachFailed, Detach, Read, Ask, Served, vars
<1>17. CASE DropObs \/ DropSnapshot
  <2>1. UNCHANGED <<next, floor, log>>
    BY <1>17, DropIs
  <2>2. /\ doc.kind # "none" /\ doc.obs # <<>>
        /\ \/ doc' = NoDoc
           \/ \E q \in {Tail(doc.obs), <<>>} : doc' = [doc EXCEPT !.obs = q, !.full = FALSE]
    BY <1>3, <1>17, DropLeaves
  <2>3. /\ Made(Tail(doc.obs)) /\ Tail(doc.obs) \in Seq(Observation)
        /\ Made(<<>>) /\ <<>> \in Seq(Observation)
    BY <1>3, <2>2, MadeTail, MadeIs, MadeNothing
  <2>4. MadeOf(Tail(doc.obs), log') /\ MadeOf(<<>>, log')
    BY <2>3, MadeStays
  <2>5. CASE doc' = NoDoc
    BY <1>7, <2>1, <2>3, <2>4, <2>5 DEF NoDoc
  <2>6. ASSUME NEW q \in {Tail(doc.obs), <<>>}, doc' = [doc EXCEPT !.obs = q, !.full = FALSE]
        PROVE  DocTypes'
    <3>1. MadeOf(q, log') /\ q \in Seq(Observation)
      BY <2>3, <2>4, <2>6
    <3>2. Whole
      BY <1>3, <2>2, <2>6, <3>1
    <3> QED BY <1>7, <2>1, <3>2
  <2> QED BY <2>2, <2>5, <2>6
<1> QED BY <1>8, <1>10, <1>11, <1>12, <1>13, <1>14, <1>15, <1>16, <1>17 DEF Next

\* Draining moves an activation on to the latest observation of it in the lane.
LEMMA DrainedIs ==
  ASSUME Logged, Made(critical), drained \in [Keys -> 0..Len(log)], Read
  PROVE  /\ drained' \in [Keys -> 0..Len(log)]
         /\ \A k \in Keys : drained[k] <= drained'[k]
         /\ \A k \in Keys : \A i \in 1..Len(critical) :
              Concerns(critical[i], k) => critical[i].seq <= drained'[k]
         /\ \A k \in Keys : \/ drained'[k] = drained[k]
                            \/ \E i \in 1..Len(critical) : /\ Concerns(critical[i], k)
                                                           /\ drained'[k] = critical[i].seq
<1> DEFINE c == Conditions_(critical)
           from == From(critical, TRUE)
           R(k) == {drained[k]} \cup {o.seq : o \in {x \in ToSet(c) : Concerns(x, k)}}
<1>1. SplitOf(critical, TRUE, c, from)
  BY ConditionsIs
<1>2. drained' = [k \in Keys |-> Greatest(R(k))]
  BY DEF Read
<1>3. Len(log) \in Nat
  BY LogIs DEF Logged
<1> HIDE DEF c, from
<1>4. Made(c) /\ \A i \in 1..Len(c) : from[i] \in 1..Len(critical) /\ c[i] = critical[from[i]]
  BY <1>1 DEF SplitOf
<1>5. ToSet(c) = {c[i] : i \in 1..Len(c)}
  BY <1>4, MadeIs DEF ToSet
<1>6. \A i \in 1..Len(critical) : critical[i].seq \in 1..Len(log) /\ critical[i] \in Observation
  BY MadeIs
<1>7. \A x \in ToSet(c) : \E i \in 1..Len(critical) : x = critical[i]
  BY <1>4, <1>5
<1>8. \A i \in 1..Len(critical) : IsCondition(critical[i]) => critical[i] \in ToSet(c)
  <2> SUFFICES ASSUME NEW i \in 1..Len(critical), IsCondition(critical[i])
               PROVE  critical[i] \in ToSet(c)
    OBVIOUS
  <2>1. PICK j \in 1..Len(c) : from[j] = i
    BY <1>1 DEF SplitOf
  <2> QED BY <1>4, <1>5, <2>1
<1>9. \A k \in Keys : \A n \in R(k) : \/ n = drained[k]
                                      \/ \E i \in 1..Len(critical) : /\ Concerns(critical[i], k)
                                                                     /\ n = critical[i].seq
  BY <1>7
<1>10. \A k \in Keys : \A i \in 1..Len(critical) :
         Concerns(critical[i], k) => critical[i].seq \in R(k)
  BY <1>6, <1>8, ObservationIs
<1>11. \A k \in Keys : drained[k] \in R(k)
  OBVIOUS
<1> HIDE DEF R
<1>12. ASSUME NEW k \in Keys PROVE R(k) \in SUBSET (0..Len(log)) /\ R(k) # {}
  <2>1. \A n \in R(k) : n \in 0..Len(log)
    BY <1>3, <1>6, <1>9
  <2> QED BY <1>11, <2>1
<1>13. \A k \in Keys : Greatest(R(k)) \in R(k) /\ \A n \in R(k) : n <= Greatest(R(k))
  BY <1>3, <1>12, GreatestIs
<1> QED BY <1>2, <1>9, <1>10, <1>11, <1>12, <1>13

LEMMA ReadBatch ==
  ASSUME SessionTypes
  PROVE  /\ Made(critical \o data)
         /\ \A i \in 1..Len(critical) : (critical \o data)[i] = critical[i]
         /\ \A i \in 1..Len(critical \o data) :
              \/ i \in 1..Len(critical) /\ (critical \o data)[i] = critical[i]
              \/ \E j \in 1..Len(data) : /\ i = j + Len(critical) /\ ~IsCondition(data[j])
                                         /\ (critical \o data)[i] = data[j]
<1> DEFINE r == critical \o data
<1>1. Made(critical) /\ Made(data) /\ \A j \in 1..Len(data) : ~IsCondition(data[j])
  BY DEF SessionTypes
<1>2. /\ Made(r)
      /\ \A i \in 1..Len(critical) : r[i] = critical[i]
      /\ \A i \in 1..Len(r) : \/ i \in 1..Len(critical) /\ r[i] = critical[i]
                              \/ i - Len(critical) \in 1..Len(data) /\ r[i] = data[i - Len(critical)]
  BY <1>1, MadeJoins
<1>3. Len(critical) \in Nat /\ Len(r) \in Nat
  BY <1>1, <1>2, MadeIs
<1> HIDE DEF r
<1>4. \A i \in 1..Len(r) : i - Len(critical) \in 1..Len(data)
        => \E j \in 1..Len(data) : i = j + Len(critical) /\ j = i - Len(critical)
  <2> DEFINE c == Len(critical)
             d == Len(data)
             n == Len(r)
  <2>1. c \in Nat /\ n \in Nat
    BY <1>3
  <2> HIDE DEF c, d, n
  <2>2. \A i \in 1..n : i = (i - c) + c
    BY <2>1
  <2>3. \A i \in 1..n : i - c \in 1..d => \E j \in 1..d : i = j + c /\ j = i - c
    BY <2>2, Zenon
  <2> QED BY <2>3 DEF c, d, n
<1> QED BY <1>1, <1>2, <1>4 DEF r

LEMMA ShownTyped ==
  ASSUME Logged, SessionTypes, NEW q, Made(q), Publish(q)
  PROVE  shown' \in [seq : Nat, q : {"none", "GOOD", "UNCERTAIN", "BAD"}]
<1>1. CASE Values_(q) = <<>>
  BY <1>1 DEF Publish, SessionTypes
<1>2. CASE Values_(q) # <<>>
  <2>1. PICK p \in 1..Len(q) : Last(Values_(q)) = q[p]
    BY <1>2, ValuesIs
  <2>2. q[p].seq \in Nat
    BY LogIs, MadeIs DEF Logged
  <2> QED BY <1>2, <2>1, <2>2, DegradedTyped DEF Publish
<1> QED BY <1>1, <1>2

LEMMA SessionTypesNext ==
  ASSUME Logged, DocTypes, SessionTypes, [Next]_vars
  PROVE  SessionTypes'
<1>1. /\ owed \in BOOLEAN /\ attached \in BOOLEAN /\ whole \in BOOLEAN /\ exact \in BOOLEAN
      /\ Made(critical) /\ Made(data) /\ Made(reply.obs) /\ Made(doc.obs)
      /\ \A i \in 1..Len(data) : ~IsCondition(data[i])
      /\ ~attached => critical = <<>> /\ data = <<>>
      /\ ledger \in Ledger /\ drained \in [Keys -> 0..Len(log)]
      /\ shown \in [seq : Nat, q : {"none", "GOOD", "UNCERTAIN", "BAD"}]
      /\ reply \in [obs : Seq(Observation), publish : BOOLEAN]
      /\ spent \in [breaks : Nat, attaches : Nat, serves : Nat, drops : Nat]
      /\ doc.full \in BOOLEAN
  BY DEF SessionTypes, DocTypes
<1>2. MadeOf(critical, log') /\ MadeOf(data, log') /\ MadeOf(reply.obs, log')
  BY <1>1, MadeStays
<1>3. 0..Len(log) \subseteq 0..Len(log')
  BY LogGrows
<1> DEFINE Lanes == /\ MadeOf(critical', log') /\ MadeOf(data', log')
                    /\ \A i \in 1..Len(data') : ~IsCondition(data'[i])
                    /\ ~attached' => critical' = <<>> /\ data' = <<>>
           Flags == owed' \in BOOLEAN /\ attached' \in BOOLEAN /\ whole' \in BOOLEAN /\ exact' \in BOOLEAN
           Held == ledger' \in Ledger /\ drained' \in [Keys -> 0..Len(log)]
           Sent == /\ shown' \in [seq : Nat, q : {"none", "GOOD", "UNCERTAIN", "BAD"}]
                   /\ reply' \in [obs : Seq(Observation), publish : BOOLEAN]
                   /\ MadeOf((reply')["obs"], log')
           Spent == spent' \in [breaks : Nat, attaches : Nat, serves : Nat, drops : Nat]
<1>4. ASSUME Lanes, Flags, Held, Sent, Spent PROVE SessionTypes'
  <2>1. drained' \in [Keys -> 0..Len(log')]
    BY <1>3, <1>4
  <2>2. Made(critical)' /\ Made(data)' /\ Made(reply.obs)'
    BY <1>4, MadeNext
  <2> QED BY <1>4, <2>1, <2>2 DEF SessionTypes
<1>5. UNCHANGED <<critical, data, attached>> => Lanes
  BY <1>1, <1>2
<1>6. UNCHANGED <<ledger, drained>> => Held
  BY <1>1
<1>7. UNCHANGED <<shown, reply>> => Sent
  BY <1>1, <1>2
<1>8. UNCHANGED spent => Spent
  BY <1>1
<1>9. UNCHANGED <<owed, attached, whole, exact>> => Flags
  BY <1>1
<1>10. /\ MadeOf(<<>>, log') /\ Len(<<>>) = 0
       /\ \A i \in 1..Len(<<>>) : ~IsCondition((<<>>)[i])
  BY MadeNothing, MadeStays
<1>11. ASSUME NEW q, Made(q), ToCritical(q), UNCHANGED <<data, attached>> PROVE Lanes
  <2>1. CASE attached
    <3> DEFINE r == critical \o q
    <3>1. MadeOf(r, log')
      BY <1>1, <1>11, MadeJoins, MadeStays
    <3>2. critical' = r /\ data' = data /\ attached'
      BY <1>11, <2>1 DEF ToCritical
    <3> HIDE DEF r
    <3> QED BY <1>1, <1>2, <3>1, <3>2
  <2>2. CASE ~attached
    BY <1>5, <1>11, <2>2 DEF ToCritical
  <2> QED BY <2>1, <2>2
<1>12. CASE StreamPart
  BY <1>5, <1>6, <1>7, <1>8, <1>9, <1>4, <1>12 DEF StreamPart
<1>13. CASE Poll \/ Reopen \/ Recover
  <2>1. UNCHANGED <<owed, attached, critical, data, ledger, shown, reply, drained, whole>> /\ exact' = FALSE
    BY <1>13 DEF Poll, Reopen, Recover, Cycle
  <2>2. Spent
    BY <1>1, <1>13 DEF Poll, Reopen, Recover, Broken
  <2>3. Flags
    BY <1>1, <2>1
  <2> QED BY <1>4, <1>5, <1>6, <1>7, <2>1, <2>2, <2>3
<1>14. CASE DispatchObs
  <2> DEFINE o == Head(doc.obs)
  <2>1. Made(<<o>>) /\ o \in Observation
    BY <1>1, <1>14, MadeTail, MadeIs DEF DispatchObs
  <2>2. UNCHANGED <<owed, attached, ledger, shown, reply, drained, whole, exact, spent>>
    BY <1>14 DEF DispatchObs
  <2>3. IF IsCondition(o) THEN ToCritical(<<o>>) /\ UNCHANGED data ELSE ToData(<<o>>) /\ UNCHANGED critical
    BY <1>14 DEF DispatchObs
  <2> HIDE DEF o
  <2>4. Lanes
    <3>1. CASE IsCondition(o)
      BY <1>11, <2>1, <2>2, <2>3, <3>1
    <3>2. CASE ~IsCondition(o) /\ ~attached
      BY <1>5, <2>2, <2>3, <3>2 DEF ToData
    <3>3. CASE ~IsCondition(o) /\ attached
      <4> DEFINE r == data \o <<o>>
      <4>1. Len(<<o>>) = 1 /\ <<o>>[1] = o /\ 1..1 = {1}
        OBVIOUS
      <4>2. /\ Made(r)
            /\ \A i \in 1..Len(r) : \/ i \in 1..Len(data) /\ r[i] = data[i]
                                    \/ i - Len(data) \in 1..Len(<<o>>) /\ r[i] = <<o>>[i - Len(data)]
        BY <1>1, <2>1, MadeJoins
      <4>3. data' = r /\ critical' = critical /\ attached'
        BY <2>2, <2>3, <3>3 DEF ToData
      <4> HIDE DEF r
      <4>4. \A i \in 1..Len(r) : ~IsCondition(r[i])
        BY <1>1, <3>3, <4>1, <4>2
      <4>5. MadeOf(r, log')
        BY <4>2, MadeStays
      <4> QED BY <1>2, <4>3, <4>4, <4>5
    <3> QED BY <3>1, <3>2, <3>3
  <2> QED BY <1>4, <1>6, <1>7, <1>8, <1>9, <2>2, <2>4
<1>15. CASE DispatchSnapshot
  <2>1. Lanes
    BY <1>1, <1>11, <1>15 DEF DispatchSnapshot
  <2> QED BY <1>4, <1>6, <1>7, <1>8, <1>9, <1>15, <2>1 DEF DispatchSnapshot
<1>16. CASE CycleDone
  <2>1. Flags
    BY <1>1, <1>16 DEF CycleDone
  <2> QED BY <1>4, <1>5, <1>6, <1>7, <1>8, <1>16, <2>1 DEF CycleDone
<1>17. CASE ServeAttach
  <2>1. UNCHANGED <<data, attached, ledger, shown, reply, drained, spent>>
    BY <1>17 DEF ServeAttach
  <2>2. Flags
    BY <1>1, <1>17 DEF ServeAttach
  <2>3. Lanes
    <3>1. CASE attached
      BY <1>11, <1>17, <3>1, CurrentIs DEF ServeAttach
    <3>2. CASE ~attached
      BY <1>5, <1>17, <3>2 DEF ServeAttach
    <3> QED BY <3>1, <3>2
  <2> QED BY <1>4, <1>6, <1>7, <1>8, <2>1, <2>2, <2>3
<1>18. CASE ServeAttachFailed
  <2>1. UNCHANGED <<attached, critical, data, ledger, shown, reply, drained, whole, exact>>
    BY <1>18 DEF ServeAttachFailed
  <2>2. Flags
    BY <1>1, <1>18 DEF ServeAttachFailed
  <2>3. Spent
    BY <1>1, <1>18 DEF ServeAttachFailed, Broken
  <2> QED BY <1>4, <1>5, <1>6, <1>7, <2>1, <2>2, <2>3
<1>19. CASE Attach
  <2>1. /\ attached' = TRUE /\ owed' = TRUE /\ whole' = FALSE /\ exact' = FALSE
        /\ ledger' = Unknown /\ drained' = [k \in Keys |-> 0]
        /\ UNCHANGED <<critical, data, shown, reply>>
    BY <1>19 DEF Attach
  <2>2. Held
    <3>1. Unknown \in Ledger
      BY DEF Unknown, Ledger
    <3>2. 0 \in 0..Len(log)
      BY LogGrows
    <3> QED BY <2>1, <3>1, <3>2
  <2>3. Spent
    <3>1. spent' = [spent EXCEPT !.attaches = spent.attaches + 1]
      BY <1>19 DEF Attach
    <3>2. spent \in [breaks : Nat, attaches : Nat, serves : Nat, drops : Nat]
      BY <1>1
    <3> QED BY <3>1, <3>2
  <2>4. Lanes /\ Flags
    BY <1>1, <1>2, <2>1
  <2> QED BY <1>4, <1>7, <2>1, <2>2, <2>3, <2>4
<1>20. CASE Detach
  <2>1. Lanes /\ Flags
    BY <1>1, <1>10, <1>20 DEF Detach
  <2> QED BY <1>4, <1>6, <1>7, <1>8, <1>20, <2>1 DEF Detach
<1>21. CASE Read
  <2>1. /\ attached /\ critical' = <<>> /\ data' = <<>> /\ FoldIn(critical \o data)
        /\ Publish(critical \o data) /\ UNCHANGED <<owed, attached, reply, whole, exact, spent>>
    BY <1>21 DEF Read
  <2>2. Lanes
    BY <1>10, <2>1
  <2>3. Made(critical \o data)
    BY ReadBatch
  <2>4. Held
    <3>1. ledger' \in Ledger
      BY <1>1, <2>1, <2>3, FoldTyped DEF FoldIn, FoldOf
    <3> QED BY <1>1, <1>21, <3>1, DrainedIs
  <2>5. Sent
    BY <1>1, <1>2, <2>1, <2>3, ShownTyped
  <2> QED BY <1>4, <1>8, <1>9, <2>1, <2>2, <2>4, <2>5
<1>22. CASE Ask
  <2>1. /\ UNCHANGED <<log, owed, attached, critical, data, ledger, shown, drained, whole, exact>>
        /\ \/ reply' = [obs |-> Conditions_(Current), publish |-> FALSE]
           \/ reply' = [obs |-> Current, publish |-> TRUE]
    BY <1>22 DEF Ask
  <2>2. Made(Current) /\ Made(Conditions_(Current))
    BY CurrentIs, ConditionsIs DEF SplitOf
  <2>3. \E c : reply'.obs = c /\ Made(c) /\ reply' = [obs |-> c, publish |-> reply'.publish]
               /\ reply'.publish \in BOOLEAN
    <3>1. CASE reply' = [obs |-> Conditions_(Current), publish |-> FALSE]
      <4> DEFINE c == Conditions_(Current)
      <4>1. Made(c) /\ reply' = [obs |-> c, publish |-> FALSE]
        BY <2>2, <3>1
      <4> HIDE DEF c
      <4> QED BY <4>1
    <3>2. CASE reply' = [obs |-> Current, publish |-> TRUE]
      <4> DEFINE c == Current
      <4>1. Made(c) /\ reply' = [obs |-> c, publish |-> TRUE]
        BY <2>2, <3>2
      <4> HIDE DEF c
      <4> QED BY <4>1
    <3> QED BY <2>1, <3>1, <3>2
  <2>4. Sent
    <3>1. PICK c : reply'.obs = c /\ Made(c) /\ reply' = [obs |-> c, publish |-> reply'.publish]
                   /\ reply'.publish \in BOOLEAN
      BY <2>3
    <3>2. c \in Seq(Observation) /\ MadeOf(c, log')
      BY <3>1, MadeIs, MadeStays
    <3> QED BY <1>1, <2>1, <3>1, <3>2
  <2>5. Spent
    BY <1>1, <1>22 DEF Ask
  <2> QED BY <1>4, <1>5, <1>6, <1>9, <2>1, <2>4, <2>5
<1>23. CASE Served
  <2>1. /\ FoldIn(reply.obs) /\ reply' = NoReply
        /\ UNCHANGED <<owed, attached, critical, data, drained, whole, exact, spent>>
        /\ Publish(reply.obs) \/ UNCHANGED shown
    BY <1>23 DEF Served
  <2>2. Held
    BY <1>1, <2>1, FoldTyped DEF FoldIn, FoldOf
  <2>3. Sent
    <3>1. shown' \in [seq : Nat, q : {"none", "GOOD", "UNCERTAIN", "BAD"}]
      BY <1>1, <2>1, ShownTyped
    <3>2. <<>> \in Seq(Observation)
      BY MadeNothing DEF Made
    <3> QED BY <1>10, <2>1, <3>1, <3>2 DEF NoReply
  <2> QED BY <1>4, <1>5, <1>8, <1>9, <2>1, <2>2, <2>3
<1>24. CASE Observe \/ UNCHANGED vars
  BY <1>4, <1>5, <1>6, <1>7, <1>8, <1>9, <1>24 DEF Observe, vars
<1>25. CASE DropObs \/ DropSnapshot
  <2>1. /\ exact' = FALSE /\ whole' = FALSE
        /\ UNCHANGED <<owed, attached, critical, data, ledger, shown, reply, drained>>
    BY <1>25, DropIs
  <2>2. Flags
    BY <1>1, <2>1
  <2>3. Spent
    <3>1. spent' = [spent EXCEPT !.drops = spent.drops + 1]
      BY <1>25 DEF DropObs, DropSnapshot, BudgetEnds
    <3>2. spent \in [breaks : Nat, attaches : Nat, serves : Nat, drops : Nat]
      BY <1>1
    <3> QED BY <3>1, <3>2
  <2> QED BY <1>4, <1>5, <1>6, <1>7, <2>1, <2>2, <2>3
<1>26. CASE ServeAttachUndelivered
  <2>1. UNCHANGED <<attached, critical, data, ledger, shown, reply, drained, whole, exact>>
    BY <1>26 DEF ServeAttachUndelivered
  <2>2. Flags
    BY <1>1, <1>26 DEF ServeAttachUndelivered
  <2>3. Spent
    BY <1>1, <1>26 DEF ServeAttachUndelivered, BudgetEnds
  <2> QED BY <1>4, <1>5, <1>6, <1>7, <2>1, <2>2, <2>3
<1> QED BY <1>12, <1>13, <1>14, <1>15, <1>16, <1>17, <1>18, <1>19, <1>20, <1>21, <1>22, <1>23, <1>24,
           <1>25, <1>26 DEF Next

LEMMA TypesInit == Init => DocTypes /\ SessionTypes
<1> SUFFICES ASSUME Init PROVE DocTypes /\ SessionTypes
  OBVIOUS
<1>1. Len(log) \in Nat
  BY LoggedInit, LogIs DEF Logged
<1>2. Made(<<>>) /\ <<>> \in Seq(Observation) /\ Len(<<>>) = 0
  BY MadeNothing DEF Made
<1>3. 0 \in 0..Len(log) /\ 1 \in 1..(Len(log) + 1)
  BY <1>1
<1>4. DocTypes
  <2>1. next = 1 /\ floor = NoFloors /\ doc = NoDoc
    BY DEF Init
  <2>2. NoFloors \in [{"value", "condition"} -> 0..Len(log)]
    BY <1>3 DEF NoFloors
  <2> QED BY <1>2, <1>3, <2>1, <2>2 DEF DocTypes, NoDoc
<1>5. Unknown \in Ledger
  BY DEF Unknown, Ledger
<1>6. SessionTypes
  <2>1. /\ owed = FALSE /\ attached = FALSE /\ critical = <<>> /\ data = <<>>
        /\ ledger = Unknown /\ whole = FALSE /\ exact = FALSE
        /\ shown = [seq |-> 0, q |-> "none"] /\ reply = [obs |-> <<>>, publish |-> FALSE]
        /\ drained = [k \in Keys |-> 0]
        /\ spent = [breaks |-> 0, attaches |-> 0, serves |-> 0, drops |-> 0]
    BY DEF Init, NothingYet, NoReply
  <2>2. drained \in [Keys -> 0..Len(log)]
    BY <1>3, <2>1
  <2>3. Made(reply.obs) /\ reply \in [obs : Seq(Observation), publish : BOOLEAN]
    BY <1>2, <2>1
  <2>4. shown \in [seq : Nat, q : {"none", "GOOD", "UNCERTAIN", "BAD"}]
    BY <2>1
  <2>5. spent \in [breaks : Nat, attaches : Nat, serves : Nat, drops : Nat]
    BY <2>1
  <2>6. Made(critical) /\ Made(data) /\ (\A i \in 1..Len(data) : ~IsCondition(data[i]))
    BY <1>2, <2>1
  <2>7. ledger \in Ledger /\ owed \in BOOLEAN /\ attached \in BOOLEAN /\ whole \in BOOLEAN /\ exact \in BOOLEAN
    BY <1>5, <2>1
  <2>8. ~attached => critical = <<>> /\ data = <<>>
    BY <2>1
  <2> QED BY <2>2, <2>3, <2>4, <2>5, <2>6, <2>7, <2>8 DEF SessionTypes
<1> QED BY <1>4, <1>6

Typed == Logged /\ DocTypes /\ SessionTypes

LEMMA TypedHolds == Spec => []Typed
<1>1. Init => Typed
  BY LoggedInit, TypesInit DEF Typed
<1>2. Typed /\ [Next]_vars => Typed'
  BY LoggedStep, DocTypesNext, SessionTypesNext DEF Typed
<1> QED BY <1>1, <1>2, PTL DEF Spec

\* The types: what the lanes, the document and a served read hold, the agent has said, at the
\* place its number names.
THEOREM TypeCorrect == Spec => []TypeOK
<1>1. Typed => TypeOK
  BY DEF Typed, Logged, TypeOK
<1> QED BY <1>1, TypedHolds, PTL

----------------------------------------------------------------------------
(* The flow of one activation, in order.                                   *)

\* What a batch brings of an activation comes after what another has brought.
Before(p, q) == \A i \in 1..Len(p), j \in 1..Len(q) :
                  \A k \in Keys : Concerns(p[i], k) /\ Concerns(q[j], k) => p[i].seq <= q[j].seq

\* No batch is behind what the session has already been shown.
Follows(q, d) == \A i \in 1..Len(q) : \A k \in Keys : Concerns(q[i], k) => d[k] <= q[i].seq
NotBehind(q)  == Follows(q, drained)

\* The stream, or the floor, is past the observation.
Reached(i) == i < next \/ i <= floor["condition"]

\* Each batch in order, the lane before the document; the documents are past neither
\* the cursor nor, once in the lane, the floor.
InFlow ==
  /\ Ordered(critical) /\ Ordered(doc.obs) /\ Ordered(reply.obs)
  /\ Before(critical, doc.obs)
  /\ \A i \in 1..Len(doc.obs) : doc.obs[i].seq < next
  /\ \A i \in 1..Len(critical) : IsCondition(critical[i]) => Reached(critical[i].seq)

\* The session shows of k what the agent said when last the flow brought it, or since.
Shows(k) ==
  /\ drained[k] # 0 => /\ drained[k] \in 1..Len(log) /\ Concerns(log[drained[k]], k)
                       /\ Reached(drained[k])
  /\ drained[k] # 0 => \E p \in 1..Len(log) : /\ drained[k] <= p
                                              /\ ledger.active[k] = agent[p][k]

Flows ==
  /\ InFlow
  /\ NotBehind(critical) /\ NotBehind(doc.obs) /\ NotBehind(reply.obs)
  /\ \A k \in Keys : Shows(k)
  /\ reply # NoReply => attached

LEMMA ReachedStays ==
  ASSUME Typed, [Next]_vars, NEW i \in 1..Len(log), Reached(i)
  PROVE  Reached(i)'
<1>1. /\ Len(log) \in Nat /\ next \in 1..(Len(log) + 1) /\ floor \in [Items -> 0..Len(log)]
      /\ attached \in BOOLEAN /\ Logged /\ DocTypes /\ "condition" \in Items
  BY LogIs DEF Typed, Logged, DocTypes, SessionTypes, Items
<1>2. CASE UNCHANGED <<next, floor>>
  BY <1>2 DEF Reached
<1>3. CASE StreamPart
  <2>1. PICK n \in 1..Len(log) :
           /\ next <= n /\ next' = n + 1 /\ floor' \in [Items -> 0..Len(log)]
           /\ \A item \in Items : floor[item] <= floor'[item]
    BY <1>1, <1>3, PartBrings
  <2>2. floor["condition"] <= floor'["condition"] /\ floor["condition"] \in Nat
        /\ floor'["condition"] \in Nat
    BY <1>1, <2>1
  <2>3. i < n + 1 \/ i <= floor'["condition"]
    BY <1>1, <2>1, <2>2 DEF Reached
  <2> QED BY <2>1, <2>3 DEF Reached
<1>4. CASE Poll \/ Reopen \/ Recover
  <2>1. next' = Len(log) + 1
    BY <1>4 DEF Poll, Reopen, Recover, Cycle
  <2> QED BY <1>1, <2>1 DEF Reached
<1>5. CASE ServeAttach
  <2>1. Made(Current)
    BY <1>1, CurrentIs
  <2>2. next' = next /\ (floor' = floor \/ floor' = Raised(floor, Current))
    BY <1>5 DEF ServeAttach
  <2>3. /\ Raised(floor, Current) \in [Items -> 0..Len(log)]
        /\ \A item \in Items : floor[item] <= Raised(floor, Current)[item]
    BY <1>1, <2>1, RaisedIs
  <2>4. floor'["condition"] \in Nat /\ floor["condition"] \in Nat
        /\ floor["condition"] <= floor'["condition"]
    BY <1>1, <2>2, <2>3
  <2>5. i < next \/ i <= floor'["condition"]
    BY <1>1, <2>4 DEF Reached
  <2> QED BY <2>2, <2>5 DEF Reached
<1>6. CASE Observe \/ DispatchObs \/ DispatchSnapshot \/ CycleDone \/ ServeAttachUndelivered
           \/ ServeAttachFailed \/ Attach \/ Detach \/ Read \/ Ask \/ Served \/ UNCHANGED vars
  BY <1>2, <1>6 DEF Observe, DispatchObs, DispatchSnapshot, CycleDone, ServeAttachUndelivered,
                    ServeAttachFailed, Attach, Detach, Read, Ask, Served, vars
<1>7. CASE DropObs \/ DropSnapshot
  BY <1>2, <1>7, DropIs
<1> QED BY <1>3, <1>4, <1>5, <1>6, <1>7 DEF Next

LEMMA ShowsStays ==
  ASSUME Typed, [Next]_vars, UNCHANGED <<drained, ledger>>, NEW k \in Keys, Shows(k)
  PROVE  Shows(k)'
<1>1. /\ \A n \in 1..Len(log) : n \in 1..Len(log') /\ log'[n] = log[n] /\ agent'[n] = agent[n]
      /\ \A n \in 1..Len(log) : Reached(n) => Reached(n)'
  BY LogGrows, ReachedStays DEF Typed
<1>2. SUFFICES ASSUME drained[k] # 0 PROVE Shows(k)'
  BY DEF Shows
<1>3. PICK p \in 1..Len(log) : drained[k] <= p /\ ledger.active[k] = agent[p][k]
  BY <1>2 DEF Shows
<1>4. drained[k] \in 1..Len(log) /\ Concerns(log[drained[k]], k) /\ Reached(drained[k])
  BY <1>2 DEF Shows
<1>5. /\ drained'[k] \in 1..Len(log') /\ Concerns(log'[drained'[k]], k)
      /\ p \in 1..Len(log') /\ drained'[k] <= p /\ ledger'.active[k] = agent'[p][k]
  BY <1>1, <1>3, <1>4
<1>6. Reached(drained[k])'
  <2>1. PICK d \in 1..Len(log) : d = drained[k]
    BY <1>4
  <2>2. Reached(d)'
    BY <1>1, <1>4, <2>1
  <2>3. drained'[k] = d
    BY <2>1
  <2> QED BY <2>2, <2>3 DEF Reached
<1> QED BY <1>5, <1>6 DEF Shows

\* What /current lists of an activation is the latest the agent said of it.
LEMMA CurrentLatest ==
  ASSUME Logged, NEW q, Made(q), \A i \in 1..Len(q) : \E p \in 1..Len(Current) : q[i] = Current[p]
  PROVE  \A i \in 1..Len(q) : \A k \in Keys : Concerns(q[i], k) => Latest(k, q[i].seq)
<1> SUFFICES ASSUME NEW i \in 1..Len(q), NEW k \in Keys, Concerns(q[i], k)
             PROVE  Latest(k, q[i].seq)
  OBVIOUS
<1>1. PICK p \in 1..Len(Current) : q[i] = Current[p]
  OBVIOUS
<1>2. IsCondition(q[i])
  BY MadeIs, ObservationIs
<1>3. p # 1
  BY <1>1, <1>2, CurrentIs
<1>4. q[i].seq \in Reported
  BY <1>1, <1>3, CurrentIs
<1>5. q[i] = log[q[i].seq]
  BY MadeIs
<1> QED BY <1>4, <1>5, ReportedIs

LEMMA NoneIsLater ==
  ASSUME NEW q, Made(q), NEW k, NEW s, Latest(k, s), NEW i \in 1..Len(q), Concerns(q[i], k)
  PROVE  q[i].seq <= s
BY MadeIs DEF Latest

\* Whatever came before it, a batch of latest observations comes after.
LEMMA LatestFollows ==
  ASSUME Logged, NEW q, Made(q), \A k \in Keys : Shows(k), drained \in [Keys -> 0..Len(log)],
         \A i \in 1..Len(q) : \A k \in Keys : Concerns(q[i], k) => Latest(k, q[i].seq)
  PROVE  Ordered(q) /\ NotBehind(q) /\ \A p : Made(p) => Before(p, q)
<1>1. Ordered(q)
  BY NoneIsLater DEF Ordered
<1>2. ASSUME NEW p, Made(p) PROVE Before(p, q)
  BY <1>2, NoneIsLater DEF Before
<1>3. ASSUME NEW i \in 1..Len(q), NEW k \in Keys, Concerns(q[i], k)
      PROVE  drained[k] <= q[i].seq
  <2>1. q[i].seq \in 1..Len(log) /\ Len(log) \in Nat
    BY MadeIs, LogIs DEF Logged
  <2>2. CASE drained[k] = 0
    BY <2>1, <2>2
  <2>3. CASE drained[k] # 0
    BY <1>3, <2>3 DEF Shows, Latest
  <2> QED BY <2>2, <2>3
<1> QED BY <1>1, <1>2, <1>3 DEF NotBehind, Follows

LEMMA OrderedJoins ==
  ASSUME NEW p, NEW q, Made(p), Made(q), Ordered(p), Ordered(q), Before(p, q)
  PROVE  Ordered(p \o q)
<1> DEFINE r == p \o q
<1>1. \A i \in 1..Len(r) : \/ i \in 1..Len(p) /\ r[i] = p[i]
                           \/ i - Len(p) \in 1..Len(q) /\ r[i] = q[i - Len(p)]
  BY MadeJoins
<1>2. Len(p) \in Nat /\ Len(q) \in Nat /\ Len(r) \in Nat
  BY MadeJoins, MadeIs
<1> HIDE DEF r
<1>3. ASSUME NEW i \in 1..Len(r), NEW j \in 1..Len(r), i < j, NEW k \in Keys,
             Concerns(r[i], k), Concerns(r[j], k)
      PROVE  r[i].seq <= r[j].seq
  <2>1. CASE i \in 1..Len(p) /\ r[i] = p[i] /\ j \in 1..Len(p) /\ r[j] = p[j]
    BY <1>3, <2>1 DEF Ordered
  <2>2. CASE /\ i \in 1..Len(p) /\ r[i] = p[i]
             /\ j - Len(p) \in 1..Len(q) /\ r[j] = q[j - Len(p)]
    BY <1>3, <2>2 DEF Before
  <2>3. CASE /\ i - Len(p) \in 1..Len(q) /\ r[i] = q[i - Len(p)]
             /\ j - Len(p) \in 1..Len(q) /\ r[j] = q[j - Len(p)]
    <3>1. i - Len(p) < j - Len(p)
      BY <1>2, <1>3
    <3> QED BY <1>3, <2>3, <3>1 DEF Ordered
  <2>4. CASE i - Len(p) \in 1..Len(q) /\ j \in 1..Len(p)
    BY <1>2, <1>3, <2>4
  <2> QED BY <1>1, <2>1, <2>2, <2>3, <2>4
<1> QED BY <1>3 DEF Ordered, r

\* A new part of the stream brings what neither cursor nor floor has reached.
LEMMA PartFollows ==
  ASSUME Typed, Flows, StreamPart
  PROVE  /\ Ordered(doc'.obs) /\ NotBehind(doc'.obs) /\ Before(critical, doc'.obs)
         /\ \A i \in 1..Len(doc'.obs) : doc'.obs[i].seq < next'
<1> DEFINE new == doc'.obs
<1>1. attached \in BOOLEAN /\ Logged /\ DocTypes /\ Made(critical)
      /\ drained \in [Keys -> 0..Len(log)]
  BY DEF Typed, SessionTypes
<1>2. PICK n \in 1..Len(log) :
           /\ next' = n + 1 /\ Made(new)
           /\ \A i \in 1..Len(new) : /\ next <= new[i].seq /\ new[i].seq <= n
                                     /\ floor[Item(new[i])] < new[i].seq
           /\ \A i, j \in 1..Len(new) : i < j /\ Item(new[i]) = Item(new[j]) => new[i].seq < new[j].seq
  BY <1>1, PartBrings
<1> HIDE DEF new
<1>3. Len(log) \in Nat /\ n \in Nat /\ next \in Nat
  BY <1>1, LogIs DEF Logged, DocTypes
<1>4. \A i \in 1..Len(new) : new[i].seq \in Nat /\ new[i].seq < n + 1
  BY <1>2, <1>3, MadeIs
<1>5. \A i \in 1..Len(new) : \A k \in Keys : Concerns(new[i], k) => Item(new[i]) = "condition"
  BY <1>2, MadeIs, ObservationIs DEF IsCondition
<1>6. Ordered(new)
  <2> SUFFICES ASSUME NEW i \in 1..Len(new), NEW j \in 1..Len(new), i < j, NEW k \in Keys,
                      Concerns(new[i], k), Concerns(new[j], k)
               PROVE  new[i].seq <= new[j].seq
    BY DEF Ordered
  <2>1. new[i].seq < new[j].seq
    BY <1>2, <1>5
  <2> QED BY <1>4, <2>1
<1>7. floor["condition"] \in Nat
  BY <1>1, <1>3 DEF DocTypes
<1>8. ASSUME NEW i \in Nat, Reached(i), NEW j \in 1..Len(new), NEW k \in Keys, Concerns(new[j], k)
      PROVE  i <= new[j].seq
  <2>1. floor["condition"] < new[j].seq /\ next <= new[j].seq
    BY <1>2, <1>5, <1>8
  <2> QED BY <1>3, <1>4, <1>7, <1>8, <2>1 DEF Reached
<1>9. Before(critical, new)
  <2>1. \A i \in 1..Len(critical) : \A k \in Keys : Concerns(critical[i], k) =>
          critical[i].seq \in Nat /\ Reached(critical[i].seq)
    BY <1>1, <1>3, MadeIs, ObservationIs DEF Flows, InFlow
  <2> QED BY <1>8, <2>1 DEF Before
<1>10. NotBehind(new)
  <2> SUFFICES ASSUME NEW i \in 1..Len(new), NEW k \in Keys, Concerns(new[i], k)
               PROVE  drained[k] <= new[i].seq
    BY DEF NotBehind, Follows
  <2>1. drained[k] \in Nat
    BY <1>1, <1>3
  <2>2. CASE drained[k] = 0
    BY <1>4, <2>2
  <2>3. CASE drained[k] # 0
    <3>1. Reached(drained[k])
      BY <2>3 DEF Flows, Shows
    <3> QED BY <1>8, <2>1, <3>1
  <2> QED BY <2>2, <2>3
<1> QED BY <1>2, <1>4, <1>6, <1>9, <1>10 DEF new

LEMMA FlowsFrom ==
  ASSUME Ordered(critical'), Ordered(doc'.obs), Ordered(reply'.obs), Before(critical', doc'.obs),
         \A i \in 1..Len(doc'.obs) : doc'.obs[i].seq < next',
         \A i \in 1..Len(critical') : IsCondition(critical'[i]) =>
            critical'[i].seq < next' \/ critical'[i].seq <= floor'["condition"],
         Follows(critical', drained'), Follows(doc'.obs, drained'), Follows(reply'.obs, drained'),
         \A k \in Keys : Shows(k)', reply' # NoReply => attached'
  PROVE  Flows'
<1>1. Ordered(critical)' /\ Ordered(doc.obs)' /\ Ordered(reply.obs)' /\ Before(critical, doc.obs)'
  BY DEF Ordered, Before
<1>2. NotBehind(critical)' /\ NotBehind(doc.obs)' /\ NotBehind(reply.obs)'
  BY DEF NotBehind, Follows
<1>3. (\A i \in 1..Len(critical) : IsCondition(critical[i]) => Reached(critical[i].seq))'
  BY DEF Reached
<1>4. InFlow'
  BY <1>1, <1>3 DEF InFlow
<1>5. NoReply' = NoReply
  BY DEF NoReply
<1> QED BY <1>2, <1>4, <1>5 DEF Flows

LEMMA NothingFlows ==
  /\ Ordered(<<>>)
  /\ \A p : Before(p, <<>>) /\ Before(<<>>, p)
  /\ \A d : Follows(<<>>, d)
  /\ \A i \in 1..Len(<<>>) : FALSE
<1>1. Len(<<>>) = 0
  BY MadeNothing
<1>2. 1..Len(<<>>) = {}
  BY <1>1
<1> QED BY <1>2 DEF Ordered, Before, Follows

\* What of the session's side no step of acquisition touches.
LEMMA FlowsFrame ==
  ASSUME Typed, Flows, [Next]_vars
  PROVE  /\ Ordered(critical) /\ Ordered(doc.obs) /\ Ordered(reply.obs) /\ Before(critical, doc.obs)
         /\ \A i \in 1..Len(doc.obs) : doc.obs[i].seq < next
         /\ \A i \in 1..Len(critical) : IsCondition(critical[i]) =>
              critical[i].seq < next' \/ critical[i].seq <= floor'["condition"]
         /\ Follows(critical, drained) /\ Follows(doc.obs, drained) /\ Follows(reply.obs, drained)
         /\ UNCHANGED <<drained, ledger>> => \A k \in Keys : Shows(k)'
         /\ reply # NoReply => attached
<1>1. ASSUME NEW i \in 1..Len(critical), IsCondition(critical[i])
      PROVE  critical[i].seq < next' \/ critical[i].seq <= floor'["condition"]
  <2>1. PICK n \in 1..Len(log) : n = critical[i].seq
    BY MadeIs DEF Typed, SessionTypes
  <2>2. Reached(n)
    BY <1>1, <2>1 DEF Flows, InFlow
  <2>3. Reached(n)'
    BY <2>2, ReachedStays
  <2> QED BY <2>1, <2>3 DEF Reached
<1>2. UNCHANGED <<drained, ledger>> => \A k \in Keys : Shows(k)'
  BY ShowsStays DEF Flows
<1> QED BY <1>1, <1>2 DEF Flows, InFlow, NotBehind

LEMMA FlowsAcquire ==
  ASSUME Typed, Flows, StreamPart \/ Poll \/ Reopen \/ Recover
  PROVE  Flows'
<1>0. [Next]_vars
  BY DEF Next
<1>1. /\ attached \in BOOLEAN /\ Logged /\ DocTypes /\ Made(critical) /\ Len(log) \in Nat
      /\ drained \in [Keys -> 0..Len(log)] /\ floor \in [Items -> 0..Len(log)]
      /\ NoFloors \in [Items -> 0..Len(log)]
  BY LogIs DEF Typed, SessionTypes, DocTypes, Logged, NoFloors, Items
<1>2. UNCHANGED <<critical, reply, drained, ledger, attached>>
  BY DEF StreamPart, Poll, Reopen, Recover, Cycle
<1>3. /\ Ordered(doc'.obs) /\ NotBehind(doc'.obs) /\ Before(critical, doc'.obs)
      /\ \A i \in 1..Len(doc'.obs) : doc'.obs[i].seq < next'
  <2>1. CASE StreamPart
    BY <2>1, PartFollows
  <2>2. ASSUME NEW kind \in {"cycle", "snapshot"}, NEW floors \in [Items -> 0..Len(log)],
               Cycle(kind, floors)
        PROVE  /\ Ordered(doc'.obs) /\ NotBehind(doc'.obs) /\ Before(critical, doc'.obs)
               /\ \A i \in 1..Len(doc'.obs) : doc'.obs[i].seq < next'
    <3> DEFINE new == doc'.obs
    <3>1. /\ next' = Len(log) + 1 /\ Made(new)
          /\ \A i \in 1..Len(new) : \E p \in 1..Len(Current) : new[i] = Current[p]
      BY <1>1, <2>2, CycleBrings
    <3> HIDE DEF new
    <3>2. \A i \in 1..Len(new) : \A k \in Keys : Concerns(new[i], k) => Latest(k, new[i].seq)
      BY <1>1, <3>1, CurrentLatest
    <3>3. Ordered(new) /\ NotBehind(new) /\ Before(critical, new)
      BY <1>1, <3>1, <3>2, LatestFollows DEF Flows
    <3>4. \A i \in 1..Len(new) : new[i].seq < next'
      BY <1>1, <3>1, MadeIs
    <3> QED BY <3>3, <3>4 DEF new
  <2>3. CASE Poll \/ Reopen \/ Recover
    <3>1. Cycle("cycle", floor) \/ Cycle("snapshot", NoFloors)
      BY <2>3 DEF Poll, Reopen, Recover
    <3> QED BY <1>1, <2>2, <3>1
  <2> QED BY <2>1, <2>3
<1>4. Follows(doc'.obs, drained')
  BY <1>2, <1>3 DEF NotBehind
<1> QED BY <1>0, <1>2, <1>3, <1>4, FlowsFrame, FlowsFrom

LEMMA FlowsServeAttach ==
  ASSUME Typed, Flows, ServeAttach
  PROVE  Flows'
<1>0. [Next]_vars
  BY DEF Next
<1>1. /\ attached \in BOOLEAN /\ Logged /\ DocTypes /\ Made(critical) /\ Len(log) \in Nat
      /\ drained \in [Keys -> 0..Len(log)] /\ floor \in [Items -> 0..Len(log)]
  BY LogIs DEF Typed, SessionTypes, DocTypes, Logged, Items
<1>2. UNCHANGED <<doc, reply, drained, ledger, attached, next>> /\ doc.obs = <<>>
  BY <1>1 DEF ServeAttach, Idle, DocTypes
<1>3. CASE ~attached
  <2>1. critical' = critical
    BY <1>3 DEF ServeAttach
  <2> QED BY <1>0, <1>2, <2>1, FlowsFrame, FlowsFrom
<1>4. CASE attached
  <2> DEFINE C == Current
             r == critical \o C
  <2>1. critical' = r /\ floor' = Raised(floor, C)
    BY <1>4 DEF ServeAttach, ToCritical
  <2>2. Made(C) /\ \A i \in 1..Len(C) : \E p \in 1..Len(Current) : C[i] = Current[p]
    BY <1>1, CurrentIs
  <2>3. \A i \in 1..Len(C) : \A k \in Keys : Concerns(C[i], k) => Latest(k, C[i].seq)
    BY <1>1, <2>2, CurrentLatest
  <2> HIDE DEF C
  <2>4. Ordered(C) /\ NotBehind(C) /\ Before(critical, C)
    BY <1>1, <2>2, <2>3, LatestFollows DEF Flows
  <2>5. Ordered(r)
    BY <1>1, <2>2, <2>4, OrderedJoins DEF Flows, InFlow
  <2>6. \A i \in 1..Len(r) : \/ i \in 1..Len(critical) /\ r[i] = critical[i]
                             \/ i - Len(critical) \in 1..Len(C) /\ r[i] = C[i - Len(critical)]
    BY <1>1, <2>2, MadeJoins
  <2> HIDE DEF r
  <2>7. Follows(r, drained)
    <3>1. Follows(critical, drained) /\ Follows(C, drained)
      BY <2>4 DEF Flows, NotBehind
    <3> QED BY <2>6, <3>1 DEF Follows
  <2>8. \A i \in 1..Len(C) : IsCondition(C[i]) => C[i].seq <= floor'["condition"]
    <3>1. \A i \in 1..Len(C) : C[i].seq <= floor'[Item(C[i])]
      BY <1>1, <2>1, <2>2, RaisedIs
    <3> QED BY <3>1 DEF IsCondition
  <2>9. \A i \in 1..Len(critical') : IsCondition(critical'[i]) =>
            critical'[i].seq < next' \/ critical'[i].seq <= floor'["condition"]
    <3>1. \A i \in 1..Len(critical) : IsCondition(critical[i]) =>
              critical[i].seq < next' \/ critical[i].seq <= floor'["condition"]
      BY <1>0, FlowsFrame
    <3> QED BY <2>1, <2>6, <2>8, <3>1
  <2>10. Before(critical', doc'.obs)
    BY <1>2, NothingFlows
  <2>11. Ordered(critical') /\ Follows(critical', drained')
    BY <1>2, <2>1, <2>5, <2>7
  <2> QED BY <1>0, <1>2, <2>9, <2>10, <2>11, FlowsFrame, FlowsFrom
<1> QED BY <1>1, <1>3, <1>4

\* The rest of a document is as orderly as the document.
LEMMA TailFollows ==
  ASSUME NEW q, Made(q), q # <<>>, Ordered(q), NEW d, Follows(q, d)
  PROVE  /\ Ordered(Tail(q)) /\ Follows(Tail(q), d) /\ Follows(<<Head(q)>>, d)
         /\ Ordered(<<Head(q)>>) /\ Before(<<Head(q)>>, Tail(q))
         /\ \A p : Before(p, q) => Before(p, Tail(q)) /\ Before(p, <<Head(q)>>)
<1> DEFINE t == Tail(q)
           h == <<Head(q)>>
<1>1. /\ 1 \in 1..Len(q) /\ Made(t) /\ Made(h)
      /\ \A i \in 1..Len(t) : i + 1 \in 1..Len(q) /\ t[i] = q[i + 1]
      /\ Head(q) = q[1]
  BY MadeTail
<1>2. Len(h) = 1 /\ h[1] = q[1] /\ 1..1 = {1}
  BY <1>1
<1>3. Len(t) \in Nat /\ \A i \in 1..Len(q) : q[i].seq \in 1..Len(log)
  BY <1>1, MadeIs
<1> HIDE DEF t, h
<1>4. \A i \in 1..Len(h) : i = 1 /\ h[i] = q[1]
  BY <1>2
<1>5. Ordered(t)
  <2> SUFFICES ASSUME NEW i \in 1..Len(t), NEW j \in 1..Len(t), i < j, NEW k \in Keys,
                      Concerns(t[i], k), Concerns(t[j], k)
               PROVE  t[i].seq <= t[j].seq
    BY DEF Ordered
  <2>1. i + 1 < j + 1
    BY <1>3
  <2> QED BY <1>1, <2>1 DEF Ordered
<1>6. Ordered(h)
  <2>1. \A i, j \in 1..Len(h) : ~(i < j)
    BY <1>4
  <2> QED BY <2>1 DEF Ordered
<1>7. Before(h, t)
  <2> SUFFICES ASSUME NEW i \in 1..Len(h), NEW j \in 1..Len(t), NEW k \in Keys,
                      Concerns(h[i], k), Concerns(t[j], k)
               PROVE  h[i].seq <= t[j].seq
    BY DEF Before
  <2>1. 1 < j + 1
    BY <1>3
  <2> QED BY <1>1, <1>4, <2>1 DEF Ordered
<1>8. Follows(t, d) /\ Follows(h, d)
  BY <1>1, <1>4 DEF Follows
<1>9. \A p : Before(p, q) => Before(p, t) /\ Before(p, h)
  BY <1>1, <1>4 DEF Before
<1> QED BY <1>5, <1>6, <1>7, <1>8, <1>9 DEF t, h

\* Batches delivered to the lane, out of a document whose rest is t.
LEMMA FlowsDeliver ==
  ASSUME Typed, Flows, [Next]_vars, NEW q, Made(q), NEW t,
         critical' = critical \/ critical' = critical \o q,
         doc'.obs = t, Ordered(t), Follows(t, drained), Before(critical, t), Before(q, t),
         \A i \in 1..Len(t) : t[i].seq < next,
         Ordered(q), Follows(q, drained), Before(critical, q),
         \A i \in 1..Len(q) : q[i].seq < next,
         UNCHANGED <<next, floor, attached, ledger, reply, drained>>
  PROVE  Flows'
<1>1. Made(critical)
  BY DEF Typed, SessionTypes
<1>2. CASE critical' = critical
  BY <1>2, FlowsFrame, FlowsFrom
<1>3. CASE critical' = critical \o q
  <2> DEFINE r == critical \o q
  <2>1. Ordered(r)
    BY <1>1, OrderedJoins DEF Flows, InFlow
  <2>2. \A i \in 1..Len(r) : \/ i \in 1..Len(critical) /\ r[i] = critical[i]
                             \/ i - Len(critical) \in 1..Len(q) /\ r[i] = q[i - Len(critical)]
    BY <1>1, MadeJoins
  <2> HIDE DEF r
  <2>3. critical' = r
    BY <1>3 DEF r
  <2>4. Follows(r, drained)
    <3>1. Follows(critical, drained)
      BY DEF Flows, NotBehind
    <3> QED BY <2>2, <3>1 DEF Follows
  <2>5. Before(r, t)
    BY <2>2 DEF Before
  <2>6. \A i \in 1..Len(critical') : IsCondition(critical'[i]) =>
            critical'[i].seq < next' \/ critical'[i].seq <= floor'["condition"]
    <3>1. \A i \in 1..Len(critical) : IsCondition(critical[i]) =>
              critical[i].seq < next' \/ critical[i].seq <= floor'["condition"]
      BY FlowsFrame
    <3> QED BY <2>2, <2>3, <3>1
  <2>7. Ordered(critical') /\ Follows(critical', drained') /\ Before(critical', doc'.obs)
    BY <2>1, <2>3, <2>4, <2>5
  <2> QED BY <2>6, <2>7, FlowsFrame, FlowsFrom
<1> QED BY <1>2, <1>3

LEMMA FlowsDispatch ==
  ASSUME Typed, Flows, DispatchObs \/ DispatchSnapshot \/ CycleDone
  PROVE  Flows'
<1>0. [Next]_vars
  BY DEF Next
<1>1. /\ Made(doc.obs) /\ Ordered(doc.obs) /\ Follows(doc.obs, drained) /\ Before(critical, doc.obs)
      /\ \A i \in 1..Len(doc.obs) : doc.obs[i].seq < next
      /\ Made(<<>>)
  BY MadeNothing DEF Typed, DocTypes, Flows, InFlow, NotBehind
<1>2. UNCHANGED <<next, floor, attached, ledger, reply, drained>>
  BY DEF DispatchObs, DispatchSnapshot, CycleDone
<1>3. CASE DispatchObs
  <2> DEFINE h == <<Head(doc.obs)>>
             t == Tail(doc.obs)
  <2>1. doc.obs # <<>>
    BY <1>3 DEF DispatchObs
  <2>2. /\ Ordered(t) /\ Follows(t, drained) /\ Follows(h, drained) /\ Ordered(h) /\ Before(h, t)
        /\ Before(critical, t) /\ Before(critical, h)
    BY <1>1, <2>1, TailFollows
  <2>3. /\ Made(h) /\ Made(t) /\ 1 \in 1..Len(doc.obs) /\ Head(doc.obs) = doc.obs[1]
        /\ \A i \in 1..Len(t) : i + 1 \in 1..Len(doc.obs) /\ t[i] = doc.obs[i + 1]
        /\ Len(t) = Len(doc.obs) - 1
    BY <1>1, <2>1, MadeTail
  <2>4. Len(h) = 1 /\ h[1] = doc.obs[1] /\ 1..1 = {1}
    BY <2>3
  <2>5. critical' = critical \/ critical' = critical \o h
    BY <1>3 DEF DispatchObs, ToCritical
  <2>6. doc'.obs = t \/ doc'.obs = <<>>
    <3>1. doc' = NoDoc \/ doc' = [doc EXCEPT !.obs = t]
      BY <1>3 DEF DispatchObs
    <3>2. "obs" \in DOMAIN doc
      BY DEF Typed, DocTypes
    <3> HIDE DEF t
    <3> QED BY <3>1, <3>2 DEF NoDoc
  <2> HIDE DEF h, t
  <2>7. \A i \in 1..Len(h) : h[i].seq < next
    BY <1>1, <2>3, <2>4
  <2>8. \A i \in 1..Len(t) : t[i].seq < next
    BY <1>1, <2>3
  <2>9. CASE doc'.obs = t
    BY <1>0, <1>2, <2>2, <2>3, <2>5, <2>7, <2>8, <2>9, FlowsDeliver
  <2>10. CASE doc'.obs = <<>>
    BY <1>0, <1>2, <2>2, <2>3, <2>5, <2>7, <2>10, NothingFlows, FlowsDeliver
  <2> QED BY <2>6, <2>9, <2>10
<1>4. CASE DispatchSnapshot
  <2> DEFINE q == doc.obs
  <2>1. /\ Made(q) /\ Ordered(q) /\ Follows(q, drained) /\ Before(critical, q)
        /\ \A i \in 1..Len(q) : q[i].seq < next
    BY <1>1
  <2>2. critical' = critical \/ critical' = critical \o q
    BY <1>4 DEF DispatchSnapshot, ToCritical
  <2>3. doc'.obs = <<>>
    <3>1. "obs" \in DOMAIN doc
      BY DEF Typed, DocTypes
    <3> QED BY <1>4, <3>1 DEF DispatchSnapshot
  <2> HIDE DEF q
  <2> QED BY <1>0, <1>2, <2>1, <2>2, <2>3, NothingFlows, FlowsDeliver
<1>5. CASE CycleDone
  <2>1. doc'.obs = <<>> /\ critical' = critical
    BY <1>5 DEF CycleDone, NoDoc
  <2> QED BY <1>0, <1>1, <1>2, <2>1, NothingFlows, FlowsDeliver
<1> QED BY <1>3, <1>4, <1>5

LEMMA FlowsDrop ==
  ASSUME Typed, Flows, DropObs \/ DropSnapshot
  PROVE  Flows'
<1>0. [Next]_vars
  BY DEF Next
<1>1. /\ Made(doc.obs) /\ Ordered(doc.obs) /\ Follows(doc.obs, drained) /\ Before(critical, doc.obs)
      /\ \A i \in 1..Len(doc.obs) : doc.obs[i].seq < next
      /\ Made(<<>>) /\ "obs" \in DOMAIN doc /\ "full" \in DOMAIN doc
  BY MadeNothing DEF Typed, DocTypes, Flows, InFlow, NotBehind
<1>2. UNCHANGED <<next, floor, attached, ledger, reply, drained, critical>>
  BY DropIs
<1> DEFINE t == Tail(doc.obs)
<1>3. doc.obs # <<>> /\ (doc'.obs = t \/ doc'.obs = <<>>)
  <2>1. /\ doc.obs # <<>>
        /\ \/ doc' = NoDoc
           \/ \E q \in {t, <<>>} : doc' = [doc EXCEPT !.obs = q, !.full = FALSE]
    BY <1>1, DropLeaves
  <2> HIDE DEF t
  <2>2. CASE doc' = NoDoc
    BY <2>1, <2>2 DEF NoDoc
  <2>3. ASSUME NEW q \in {t, <<>>}, doc' = [doc EXCEPT !.obs = q, !.full = FALSE]
        PROVE  doc'.obs = q
    BY <1>1, <2>3
  <2>4. \A q \in {t, <<>>} : doc' = [doc EXCEPT !.obs = q, !.full = FALSE]
                             => doc'.obs = t \/ doc'.obs = <<>>
    BY <2>3
  <2> QED BY <2>1, <2>2, <2>4
<1>4. Ordered(t) /\ Follows(t, drained) /\ Before(critical, t)
  BY <1>1, <1>3, TailFollows
<1>5. /\ Made(t) /\ Len(t) = Len(doc.obs) - 1
      /\ \A i \in 1..Len(t) : i + 1 \in 1..Len(doc.obs) /\ t[i] = doc.obs[i + 1]
  BY <1>1, <1>3, MadeTail
<1> HIDE DEF t
<1>6. \A i \in 1..Len(t) : t[i].seq < next
  BY <1>1, <1>5
<1>7. CASE doc'.obs = t
  BY <1>0, <1>1, <1>2, <1>4, <1>6, <1>7, NothingFlows, FlowsDeliver
<1>8. CASE doc'.obs = <<>>
  BY <1>0, <1>1, <1>2, <1>8, NothingFlows, FlowsDeliver
<1> QED BY <1>3, <1>7, <1>8

LEMMA FlowsAttach ==
  ASSUME Typed, Flows,
         \/ Attach \/ Detach \/ ServeAttachUndelivered \/ ServeAttachFailed \/ Observe
         \/ UNCHANGED vars
  PROVE  Flows'
<1>0. [Next]_vars
  BY DEF Next
<1>1. CASE Attach
  <2>1. /\ attached' /\ drained' = [k \in Keys |-> 0] /\ doc' = [doc EXCEPT !.full = FALSE]
        /\ UNCHANGED <<log, next, floor, critical, reply>>
    BY <1>1 DEF Attach
  <2>2. doc'.obs = doc.obs
    BY <2>1 DEF Typed, DocTypes
  <2>3. ASSUME NEW q, Made(q) PROVE Follows(q, drained')
    <3>1. \A i \in 1..Len(q) : 0 <= q[i].seq
      BY <2>3, MadeIs, LogIs DEF Typed, Logged
    <3> QED BY <2>1, <3>1 DEF Follows
  <2>4. \A k \in Keys : Shows(k)'
    BY <2>1 DEF Shows
  <2>5. Made(critical) /\ Made(doc.obs) /\ Made(reply.obs)
    BY DEF Typed, DocTypes, SessionTypes
  <2>6. Follows(critical', drained') /\ Follows(doc'.obs, drained') /\ Follows(reply'.obs, drained')
    BY <2>1, <2>2, <2>3, <2>5
  <2> QED BY <1>0, <2>1, <2>2, <2>4, <2>6, FlowsFrame, FlowsFrom
<1>2. CASE Detach
  <2>1. /\ critical' = <<>> /\ reply = NoReply
        /\ UNCHANGED <<log, next, floor, doc, reply, drained, ledger>>
    BY <1>2 DEF Detach
  <2>2. NoReply' = NoReply
    BY DEF NoReply
  <2> QED BY <1>0, <2>1, <2>2, NothingFlows, FlowsFrame, FlowsFrom
<1>3. CASE ServeAttachUndelivered \/ ServeAttachFailed \/ Observe \/ UNCHANGED vars
  <2>1. UNCHANGED <<next, floor, doc, critical, reply, drained, ledger, attached>>
    BY <1>3 DEF ServeAttachUndelivered, ServeAttachFailed, Observe, vars
  <2> QED BY <1>0, <2>1, FlowsFrame, FlowsFrom
<1> QED BY <1>1, <1>2, <1>3

\* A drained batch leaves each activation alone or brings it to what it last said of it.
LEMMA ReadShows ==
  ASSUME Typed, Flows, Read, NEW k \in Keys
  PROVE  \/ /\ drained'[k] = drained[k] /\ ledger'.active[k] = ledger.active[k]
            /\ \A i \in 1..Len(critical) : ~Concerns(critical[i], k)
         \/ \E i \in 1..Len(critical) :
              /\ Concerns(critical[i], k)
              /\ \A j \in 1..Len(critical) : Concerns(critical[j], k) => critical[j].seq <= critical[i].seq
              /\ drained'[k] = critical[i].seq /\ drained[k] <= drained'[k]
              /\ ledger'.active[k] = agent[critical[i].seq][k]
<1> DEFINE r == critical \o data
<1>1. /\ Made(critical) /\ Made(data) /\ Ordered(critical) /\ ledger \in Ledger /\ Logged
      /\ drained \in [Keys -> 0..Len(log)] /\ SessionTypes /\ Len(log) \in Nat
      /\ Follows(critical, drained)
  BY LogIs DEF Typed, SessionTypes, Flows, InFlow, NotBehind, Logged
<1>2. /\ Made(r)
      /\ \A i \in 1..Len(critical) : r[i] = critical[i]
      /\ \A i \in 1..Len(r) : \/ i \in 1..Len(critical) /\ r[i] = critical[i]
                              \/ \E j \in 1..Len(data) : ~IsCondition(data[j]) /\ r[i] = data[j]
  BY <1>1, ReadBatch
<1>3. Ordered(r)
  <2>1. \A j \in 1..Len(data) : \A x \in Keys : ~Concerns(data[j], x)
    BY <1>1, MadeIs, ObservationIs DEF SessionTypes
  <2>2. Ordered(data) /\ Before(critical, data)
    BY <2>1 DEF Ordered, Before
  <2> QED BY <1>1, <2>2, OrderedJoins
<1>4. ledger' = FoldOf(ledger, r)
  BY DEF Read, FoldIn, FoldOf
<1>0. \A i \in 1..Len(critical) : i \in 1..Len(r)
  BY <1>1, MadeJoins
<1> HIDE DEF r
<1>5. \A i \in 1..Len(r) : Concerns(r[i], k) => i \in 1..Len(critical) /\ r[i] = critical[i]
  BY <1>1, <1>2, MadeIs, ObservationIs
<1>6. CASE \A i \in 1..Len(critical) : ~Concerns(critical[i], k)
  <2>1. \A i \in 1..Len(r) : ~Concerns(r[i], k)
    BY <1>5, <1>6
  <2>2. ledger'.active[k] = ledger.active[k]
    BY <1>1, <1>2, <1>4, <2>1, FoldTyped
  <2>3. drained'[k] = drained[k]
    BY <1>1, <1>6, DrainedIs
  <2> QED BY <1>6, <2>2, <2>3
<1>7. CASE \E i \in 1..Len(critical) : Concerns(critical[i], k)
  <2>1. \E i \in 1..Len(r) : Concerns(r[i], k)
    BY <1>0, <1>2, <1>7
  <2>2. PICK i \in 1..Len(r) : /\ Concerns(r[i], k)
                               /\ \A j \in 1..Len(r) : Concerns(r[j], k) => r[j].seq <= r[i].seq
                               /\ FoldOf(ledger, r).active[k] = agent[r[i].seq][k]
    BY <1>1, <1>2, <1>3, <2>1, FoldIs
  <2>3. i \in 1..Len(critical) /\ r[i] = critical[i]
    BY <1>5, <2>2
  <2>4. \A j \in 1..Len(critical) : Concerns(critical[j], k) => critical[j].seq <= critical[i].seq
    BY <1>0, <1>2, <2>2, <2>3
  <2>5. /\ critical[i].seq <= drained'[k] /\ drained[k] <= drained'[k]
        /\ drained' \in [Keys -> 0..Len(log)]
        /\ \/ drained'[k] = drained[k]
           \/ \E j \in 1..Len(critical) : /\ Concerns(critical[j], k)
                                          /\ drained'[k] = critical[j].seq
    BY <1>1, <2>2, <2>3, DrainedIs
  <2>6. drained[k] <= critical[i].seq
    BY <1>1, <2>2, <2>3 DEF Follows
  <2>7. drained'[k] <= critical[i].seq
    BY <2>4, <2>5, <2>6
  <2>8. critical[i].seq \in Nat /\ drained'[k] \in Nat
    BY <1>1, <2>3, <2>5, MadeIs
  <2>9. drained'[k] = critical[i].seq
    BY <2>5, <2>7, <2>8
  <2> QED BY <1>4, <2>2, <2>3, <2>4, <2>5, <2>9
<1> QED BY <1>6, <1>7

\* So does a served snapshot, with something no older than the flow has brought.
LEMMA ServedShows ==
  ASSUME Typed, Flows, Served, NEW k \in Keys
  PROVE  \/ /\ ledger'.active[k] = ledger.active[k]
            /\ \A i \in 1..Len(reply.obs) : ~Concerns(reply.obs[i], k)
         \/ \E i \in 1..Len(reply.obs) :
              /\ Concerns(reply.obs[i], k)
              /\ \A j \in 1..Len(reply.obs) :
                   Concerns(reply.obs[j], k) => reply.obs[j].seq <= reply.obs[i].seq
              /\ reply.obs[i].seq \in 1..Len(log) /\ drained[k] <= reply.obs[i].seq
              /\ ledger'.active[k] = agent[reply.obs[i].seq][k]
<1> DEFINE r == reply.obs
<1>1. Made(r) /\ Ordered(r) /\ ledger \in Ledger /\ Logged /\ Follows(r, drained)
  BY DEF Typed, SessionTypes, Flows, InFlow, NotBehind
<1>2. ledger' = FoldOf(ledger, r)
  BY DEF Served, FoldIn, FoldOf
<1> HIDE DEF r
<1>3. CASE \A i \in 1..Len(r) : ~Concerns(r[i], k)
  <2>1. ledger'.active[k] = ledger.active[k]
    BY <1>1, <1>2, <1>3, FoldTyped
  <2> QED BY <1>3, <2>1 DEF r
<1>4. CASE \E i \in 1..Len(r) : Concerns(r[i], k)
  <2>1. PICK i \in 1..Len(r) : /\ Concerns(r[i], k)
                               /\ \A j \in 1..Len(r) : Concerns(r[j], k) => r[j].seq <= r[i].seq
                               /\ FoldOf(ledger, r).active[k] = agent[r[i].seq][k]
    BY <1>1, <1>4, FoldIs
  <2>2. r[i].seq \in 1..Len(log) /\ drained[k] <= r[i].seq
    BY <1>1, <2>1, MadeIs DEF Follows
  <2> QED BY <1>2, <2>1, <2>2 DEF r
<1> QED BY <1>3, <1>4

\* What is asked for is the latest of each activation.
LEMMA AskBrings ==
  ASSUME Typed, Flows, Ask
  PROVE  /\ \A i \in 1..Len(reply'.obs) : \E p \in 1..Len(Current) : reply'.obs[i] = Current[p]
         /\ Made(reply'.obs)
         /\ \A i \in 1..Len(reply'.obs) : \A k \in Keys :
              Concerns(reply'.obs[i], k) => Latest(k, reply'.obs[i].seq)
         /\ Ordered(reply'.obs) /\ NotBehind(reply'.obs)
         /\ \A p \in 1..Len(Current) : IsCondition(Current[p]) =>
              \E i \in 1..Len(reply'.obs) : reply'.obs[i] = Current[p]
<1>1. Logged /\ drained \in [Keys -> 0..Len(log)] /\ \A k \in Keys : Shows(k)
  BY DEF Typed, SessionTypes, Flows
<1> DEFINE r == reply'.obs
<1>2. /\ Made(r)
      /\ \A i \in 1..Len(r) : \E p \in 1..Len(Current) : r[i] = Current[p]
      /\ \A p \in 1..Len(Current) : IsCondition(Current[p]) => \E i \in 1..Len(r) : r[i] = Current[p]
  <2> DEFINE C == Current
             c == Conditions_(C)
  <2>1. r = c \/ r = C
    BY DEF Ask
  <2>2. Made(C)
    BY <1>1, CurrentIs
  <2> HIDE DEF C
  <2>3. SplitOf(C, TRUE, c, From(C, TRUE))
    BY <2>2, ConditionsIs
  <2> HIDE DEF c, r
  <2>4. CASE r = C
    BY <2>2, <2>4 DEF C
  <2>5. CASE r = c
    <3>1. Made(c) /\ \A i \in 1..Len(c) : \E p \in 1..Len(C) : c[i] = C[p]
      BY <2>3 DEF SplitOf
    <3>2. \A p \in 1..Len(C) : IsCondition(C[p]) => \E i \in 1..Len(c) : c[i] = C[p]
      BY <2>3 DEF SplitOf
    <3> QED BY <2>5, <3>1, <3>2 DEF C
  <2> QED BY <2>1, <2>4, <2>5
<1> HIDE DEF r
<1>3. \A i \in 1..Len(r) : \A k \in Keys : Concerns(r[i], k) => Latest(k, r[i].seq)
  BY <1>1, <1>2, CurrentLatest
<1>4. Ordered(r) /\ NotBehind(r)
  BY <1>1, <1>2, <1>3, LatestFollows
<1> QED BY <1>2, <1>3, <1>4 DEF r

LEMMA FlowsSession ==
  ASSUME Typed, Flows, Read \/ Ask \/ Served
  PROVE  Flows'
<1>0. [Next]_vars /\ Len(log) \in Nat
  BY LogIs DEF Next, Typed, Logged
<1>1. CASE Read
  <2>1. /\ critical' = <<>> /\ reply = NoReply
        /\ UNCHANGED <<log, agent, next, floor, doc, attached, reply>>
    BY <1>1 DEF Read
  <2>2. Follows(doc'.obs, drained')
    <3> DEFINE d == doc.obs
    <3>1. Before(critical, d) /\ Follows(d, drained)
      BY DEF Flows, InFlow, NotBehind
    <3> HIDE DEF d
    <3>2. Follows(d, drained')
      <4> SUFFICES ASSUME NEW i \in 1..Len(d), NEW k \in Keys, Concerns(d[i], k)
                   PROVE  drained'[k] <= d[i].seq
        BY DEF Follows
      <4>1. \/ drained'[k] = drained[k]
            \/ \E j \in 1..Len(critical) : Concerns(critical[j], k) /\ drained'[k] = critical[j].seq
        BY <1>1, ReadShows
      <4> QED BY <3>1, <4>1 DEF Before, Follows
    <3> QED BY <2>1, <3>2 DEF d
  <2>3. ASSUME NEW k \in Keys PROVE Shows(k)'
    <3>1. CASE drained'[k] = drained[k] /\ ledger'.active[k] = ledger.active[k]
      <4>1. Shows(k)
        BY DEF Flows
      <4> QED BY <2>1, <3>1, <4>1 DEF Shows, Reached
    <3>2. ASSUME NEW i \in 1..Len(critical), Concerns(critical[i], k),
                 drained'[k] = critical[i].seq, ledger'.active[k] = agent[critical[i].seq][k]
          PROVE  Shows(k)'
      <4>1. /\ critical[i].seq \in 1..Len(log) /\ critical[i] = log[critical[i].seq]
            /\ IsCondition(critical[i])
        BY <3>2, MadeIs, ObservationIs DEF Typed, SessionTypes
      <4>2. critical[i].seq < next \/ critical[i].seq <= floor["condition"]
        BY <4>1 DEF Flows, InFlow, Reached
      <4>3. PICK s \in 1..Len(log) : s = critical[i].seq
        BY <4>1
      <4>4. /\ drained'[k] = s /\ Concerns(log'[s], k) /\ s \in 1..Len(log')
            /\ s < next' \/ s <= floor'["condition"]
            /\ ledger'.active[k] = agent'[s][k] /\ s <= s
        BY <1>0, <2>1, <3>2, <4>1, <4>2, <4>3
      <4> QED BY <4>4 DEF Shows, Reached
    <3> QED BY <1>1, <3>1, <3>2, ReadShows
  <2>4. reply'.obs = <<>> /\ reply' = NoReply
    BY <2>1 DEF NoReply
  <2>5. Follows(critical', drained') /\ Follows(reply'.obs, drained') /\ Before(critical', doc'.obs)
        /\ Ordered(critical') /\ Ordered(reply'.obs)
        /\ \A i \in 1..Len(critical') : FALSE
    BY <2>1, <2>4, NothingFlows
  <2>6. Ordered(doc'.obs) /\ \A i \in 1..Len(doc'.obs) : doc'.obs[i].seq < next'
    BY <2>1 DEF Flows, InFlow
  <2> QED BY <2>2, <2>3, <2>4, <2>5, <2>6, FlowsFrom
<1>2. CASE Ask
  <2>1. /\ attached /\ UNCHANGED <<next, floor, doc, attached, critical, drained, ledger>>
    BY <1>2 DEF Ask
  <2>2. Ordered(reply'.obs) /\ Follows(reply'.obs, drained')
    BY <1>2, <2>1, AskBrings DEF NotBehind
  <2> QED BY <1>0, <2>1, <2>2, FlowsFrame, FlowsFrom
<1>3. CASE Served
  <2>1. /\ reply' = NoReply /\ reply'.obs = <<>>
        /\ UNCHANGED <<log, agent, next, floor, doc, attached, critical, drained>>
    BY <1>3 DEF Served, NoReply
  <2>2. ASSUME NEW k \in Keys PROVE Shows(k)'
    <3>1. Shows(k)
      BY DEF Flows
    <3>2. CASE ledger'.active[k] = ledger.active[k]
      BY <2>1, <3>1, <3>2 DEF Shows, Reached
    <3>3. ASSUME NEW i \in 1..Len(reply.obs), reply.obs[i].seq \in 1..Len(log),
                 drained[k] <= reply.obs[i].seq, ledger'.active[k] = agent[reply.obs[i].seq][k]
          PROVE  Shows(k)'
      <4>1. PICK s \in 1..Len(log) : s = reply.obs[i].seq
        BY <3>3
      <4>2. drained'[k] <= s /\ ledger'.active[k] = agent'[s][k] /\ s \in 1..Len(log')
        BY <2>1, <3>3, <4>1
      <4> QED BY <2>1, <3>1, <4>2 DEF Shows, Reached
    <3> QED BY <1>3, <3>2, <3>3, ServedShows
  <2> QED BY <1>0, <2>1, <2>2, NothingFlows, FlowsFrame, FlowsFrom
<1> QED BY <1>1, <1>2, <1>3

LEMMA FlowsHolds == Spec => [](Typed /\ Flows)
<1>1. Init => Flows
  <2> SUFFICES ASSUME Init PROVE Flows
    OBVIOUS
  <2>1. /\ critical = <<>> /\ doc.obs = <<>> /\ reply.obs = <<>> /\ reply = NoReply
        /\ \A k \in Keys : drained[k] = 0
    BY DEF Init, NoDoc, NoReply
  <2>2. \A k \in Keys : Shows(k)
    BY <2>1 DEF Shows
  <2> QED BY <2>1, <2>2, NothingFlows DEF Flows, InFlow, NotBehind
<1>2. Typed /\ Flows /\ [Next]_vars => Flows'
  BY FlowsAcquire, FlowsServeAttach, FlowsDispatch, FlowsDrop, FlowsAttach, FlowsSession DEF Next
<1> QED BY <1>1, <1>2, TypedHolds, PTL DEF Spec

----------------------------------------------------------------------------
(* The session implements the view of a condition.                         *)

LEMMA ViewInit == Init => View!Init
<1> SUFFICES ASSUME Init PROVE View!Init
  OBVIOUS
<1>1. LogTypes /\ ledger \in Ledger
  BY LoggedInit, TypesInit DEF Logged, SessionTypes
<1>2. agent \in Seq([Keys -> Asserted \cup {Clear}]) /\ agent # <<>>
  BY <1>1 DEF LogTypes, Init
<1>3. ledger.active \in [Keys -> Asserted \cup {Clear}]
  BY <1>1 DEF Ledger
<1>4. attached = FALSE /\ drained = [k \in Keys |-> 0]
  BY DEF Init
<1> QED BY <1>2, <1>3, <1>4 DEF View!Init

\* Every step says something, starts or stops the session, brings the flow forward, serves
\* a read, or is none of the view's concern.
LEMMA ViewStep ==
  ASSUME Typed, Typed', Flows, [Next]_vars
  PROVE  [View!Next]_<<agent, attached, drained, ledger.active>>
<1>0. /\ ledger \in Ledger /\ ledger' \in Ledger /\ Len(agent) = Len(log) /\ Len(log) \in Nat
      /\ drained \in [Keys -> 0..Len(log)] /\ attached \in BOOLEAN /\ Logged
  BY LogIs DEF Typed, SessionTypes, Logged, LogTypes
<1>1. CASE UNCHANGED <<agent, attached, drained, ledger>>
  BY <1>1
<1>2. CASE Observe
  <2>1. PICK what \in [Keys -> Asserted \cup {Clear}] : agent' = Append(agent, what)
    BY <1>0, <1>2, ObserveIs
  <2>2. UNCHANGED <<attached, drained, ledger>>
    BY <1>2 DEF Observe
  <2>3. View!Say
    BY <2>1, <2>2 DEF View!Say
  <2> QED BY <2>3 DEF View!Next
<1>3. CASE Attach
  <2>1. /\ ~attached /\ attached' = TRUE /\ ledger' = Unknown /\ drained' = [k \in Keys |-> 0]
        /\ agent' = agent
    BY <1>3 DEF Attach
  <2>2. Unknown.active \in [Keys -> Asserted \cup {Clear}]
    BY DEF Unknown
  <2>3. View!Start
    BY <2>1, <2>2 DEF View!Start
  <2> QED BY <2>3 DEF View!Next
<1>4. CASE Detach
  <2>1. View!Stop
    BY <1>4 DEF Detach, View!Stop
  <2> QED BY <2>1 DEF View!Next
<1>5. CASE Read
  <2>1. attached /\ UNCHANGED <<agent, attached, log>>
    BY <1>5 DEF Read
  <2>2. drained' \in [Keys -> 0..Len(agent)] /\ DOMAIN (ledger'.active) = Keys
    <3>1. drained' \in [Keys -> 0..Len(log)]
      BY <2>1 DEF Typed, SessionTypes
    <3>2. ledger'.active \in [Keys -> Asserted \cup {Clear}]
      BY <1>0 DEF Ledger
    <3> QED BY <1>0, <3>1, <3>2
  <2>3. ASSUME NEW k \in Keys
        PROVE  \/ drained'[k] = drained[k] /\ ledger'.active[k] = ledger.active[k]
               \/ drained'[k] >= drained[k] /\ drained'[k] > 0
                  /\ ledger'.active[k] = agent[drained'[k]][k]
    <3>1. ASSUME NEW i \in 1..Len(critical),
                 drained'[k] = critical[i].seq, drained[k] <= drained'[k],
                 ledger'.active[k] = agent[critical[i].seq][k]
          PROVE  drained'[k] >= drained[k] /\ drained'[k] > 0
                 /\ ledger'.active[k] = agent[drained'[k]][k]
      <4>1. critical[i].seq \in 1..Len(log)
        BY MadeIs DEF Typed, SessionTypes
      <4>2. drained'[k] \in 1..Len(log) /\ drained[k] \in Nat
        BY <1>0, <3>1, <4>1
      <4> QED BY <1>0, <3>1, <4>2
    <3> QED BY <1>5, <3>1, ReadShows
  <2>4. View!Flow
    BY <2>1, <2>2, <2>3 DEF View!Flow
  <2> QED BY <2>4 DEF View!Next
<1>6. CASE Served
  <2>1. attached /\ UNCHANGED <<agent, attached, drained, log>>
    BY <1>6 DEF Served, Flows
  <2>2. DOMAIN (ledger'.active) = Keys
    BY <1>0 DEF Ledger
  <2>3. ASSUME NEW k \in Keys
        PROVE  \/ ledger'.active[k] = ledger.active[k]
               \/ \E n \in 1..Len(agent) : n >= drained[k] /\ ledger'.active[k] = agent[n][k]
    <3>1. ASSUME NEW i \in 1..Len(reply.obs), reply.obs[i].seq \in 1..Len(log),
                 drained[k] <= reply.obs[i].seq, ledger'.active[k] = agent[reply.obs[i].seq][k]
          PROVE  \E n \in 1..Len(agent) : n >= drained[k] /\ ledger'.active[k] = agent[n][k]
      <4>1. reply.obs[i].seq >= drained[k]
        BY <1>0, <3>1
      <4> QED BY <1>0, <3>1, <4>1
    <3> QED BY <1>6, <3>1, ServedShows
  <2>4. View!Serve
    BY <2>1, <2>2, <2>3 DEF View!Serve
  <2> QED BY <2>4 DEF View!Next
<1>7. CASE StreamPart \/ Poll \/ Reopen \/ Recover \/ DispatchObs \/ DispatchSnapshot \/ CycleDone
           \/ DropObs \/ DropSnapshot \/ ServeAttach \/ ServeAttachUndelivered \/ ServeAttachFailed
           \/ Ask \/ UNCHANGED vars
  <2>1. UNCHANGED <<agent, attached, drained, ledger>>
    BY <1>7, DropIs DEF StreamPart, Poll, Reopen, Recover, Cycle, DispatchObs, DispatchSnapshot,
                CycleDone, ServeAttach, ServeAttachUndelivered, ServeAttachFailed, Ask, vars
  <2> QED BY <1>1, <2>1
<1> QED BY <1>2, <1>3, <1>4, <1>5, <1>6, <1>7 DEF Next

\* Whatever the documents, the lanes and the served reads do, what a session shows of an
\* activation the agent did say, and its flow takes no activation back: the session
\* implements ConditionView.
THEOREM SessionImplementsView == Spec => ShowsWhatWasSaid
<1>1. Spec => [](Typed /\ Flows)
  BY FlowsHolds
<1>2. Typed /\ Flows /\ (Typed /\ Flows)' /\ [Next]_vars => [View!Next]_View!vars
  BY ViewStep DEF View!vars
<1> QED BY <1>1, <1>2, ViewInit, PTL DEF Spec, ShowsWhatWasSaid, View!Spec

----------------------------------------------------------------------------
(* No alarm is missed.                                                     *)

Holds(q, i) == \E p \in 1..Len(q) : q[p].seq = i
Pending(i)  == Holds(critical, i) \/ Holds(doc.obs, i)

\* The latest observation of an activation was so before, unless it is a new one.
LEMMA LatestWas ==
  ASSUME Typed, [Next]_vars, NEW k \in Keys, NEW i \in 1..Len(log), Latest(k, i)'
  PROVE  Latest(k, i) /\ Now'[k] = Now[k] /\ log'[i] = log[i] /\ IsCondition(log[i])
<1>1. Logged /\ Len(log) \in Nat
  BY LogIs DEF Typed, Logged
<1>2. ASSUME Latest(k, i) PROVE IsCondition(log[i])
  <2>1. Concerns(log[i], k) /\ log[i] \in Observation
    BY <1>1, <1>2, LogIs DEF Latest, Logged
  <2> QED BY <2>1, ObservationIs
<1>3. CASE UNCHANGED <<setup, log, agent>>
  <2>1. Latest(k, i) /\ Now' = Now
    BY <1>3 DEF Latest, Now
  <2> QED BY <1>2, <1>3, <2>1
<1>4. CASE Observe
  <2>1. PICK o \in Observation :
           /\ log' = Append(log, o) /\ agent' = Append(agent, After(o))
           /\ After(o) \in [Keys -> Asserted \cup {Clear}]
           /\ \A x \in Keys : After(o)[x] = IF Concerns(o, x) THEN Says(o) ELSE Now[x]
    BY <1>1, <1>4, ObserveIs
  <2>2. /\ log \in Seq(Observation) /\ agent \in Seq([Keys -> Asserted \cup {Clear}])
        /\ Len(agent) = Len(log)
    BY <1>1 DEF Logged, LogTypes
  <2>3. /\ Len(log') = Len(log) + 1 /\ log'[Len(log) + 1] = o
        /\ \A n \in 1..Len(log) : n \in 1..Len(log') /\ log'[n] = log[n]
    BY <1>1, <2>1, <2>2, AppendProperties
  <2>4. Now' = After(o)
    <3>1. Len(agent') = Len(agent) + 1 /\ agent'[Len(agent) + 1] = After(o)
      BY <2>1, <2>2, AppendProperties
    <3> QED BY <3>1 DEF Now
  <2>5. /\ Concerns(log'[i], k)
        /\ \A j \in 1..(Len(log) + 1) : Concerns(log'[j], k) => j <= i
    BY <2>3 DEF Latest
  <2>6. Latest(k, i)
    <3>1. \A j \in 1..Len(log) : j \in 1..(Len(log) + 1) /\ log'[j] = log[j]
      BY <1>1, <2>3
    <3> QED BY <2>5, <3>1 DEF Latest
  <2>7. ~Concerns(o, k)
    <3>1. Len(log) + 1 \in 1..(Len(log) + 1) /\ ~(Len(log) + 1 <= i)
      BY <1>1
    <3> QED BY <2>3, <2>5, <3>1
  <2>8. Now'[k] = Now[k]
    BY <2>1, <2>4, <2>7
  <2> QED BY <1>2, <2>3, <2>6, <2>8
<1> QED BY <1>3, <1>4, LogMoves

\* An observation that was reached and is the latest of its activation was so before.
LEMMA LatestKept ==
  ASSUME Typed, [Next]_vars, NEW k \in Keys, NEW i, Latest(k, i)', Reached(i)'
  PROVE  /\ Latest(k, i) /\ Now'[k] = Now[k]
         /\ i \in 1..Len(log) /\ log'[i] = log[i] /\ IsCondition(log[i])
<1>1. /\ Logged /\ Len(log) \in Nat /\ next \in 1..(Len(log) + 1)
      /\ floor \in [Items -> 0..Len(log)] /\ "condition" \in Items
  BY LogIs DEF Typed, Logged, DocTypes, Items
<1>2. i \in 1..Len(log')
  BY DEF Latest
<1>3. i \in 1..Len(log)
  <2>1. CASE UNCHANGED log
    BY <1>2, <2>1
  <2>2. CASE Observe
    <3>1. UNCHANGED <<next, floor>> /\ Len(log') \in Nat
      BY <2>2, LogGrows DEF Observe, Typed
    <3>2. i < next \/ i <= floor["condition"]
      BY <3>1 DEF Reached
    <3>3. floor["condition"] \in 0..Len(log)
      BY <1>1
    <3> QED BY <1>1, <1>2, <3>1, <3>2, <3>3
  <2> QED BY <2>1, <2>2, LogMoves
<1> QED BY <1>3, LatestWas

\* While it is attached dispatch loses no condition: it brings it from the document to the
\* lane, and brings nothing else.
LEMMA DispatchKeeps ==
  ASSUME Typed, attached, DispatchObs \/ DispatchSnapshot \/ CycleDone
  PROVE  /\ \A i \in 1..Len(log) : IsCondition(log[i]) /\ Pending(i)
              => Holds(critical', i) \/ Holds(doc'.obs, i)
         /\ \A i : Holds(critical', i) \/ Holds(doc'.obs, i) => Pending(i)
         /\ \A i : Holds(doc'.obs, i) => Holds(doc.obs, i)
         /\ \A i : Holds(critical, i) => Holds(critical', i)
<1>1. Made(doc.obs) /\ Made(critical) /\ "obs" \in DOMAIN doc
  BY DEF Typed, DocTypes, SessionTypes
<1>2. \A i : ~Holds(<<>>, i)
  BY NothingFlows DEF Holds
<1>3. ASSUME NEW q, Made(q) PROVE \A i : Holds(critical \o q, i) <=> Holds(critical, i) \/ Holds(q, i)
  <2> DEFINE r == critical \o q
  <2>1. /\ \A x \in 1..Len(critical) : x \in 1..Len(r) /\ r[x] = critical[x]
        /\ \A x \in 1..Len(q) : x + Len(critical) \in 1..Len(r) /\ r[x + Len(critical)] = q[x]
        /\ \A x \in 1..Len(r) : \/ x \in 1..Len(critical) /\ r[x] = critical[x]
                                \/ x - Len(critical) \in 1..Len(q) /\ r[x] = q[x - Len(critical)]
    BY <1>1, <1>3, MadeJoins
  <2> HIDE DEF r
  <2>2. \A i : Holds(r, i) <=> Holds(critical, i) \/ Holds(q, i)
    BY <2>1 DEF Holds
  <2> QED BY <2>2 DEF r
<1>4. CASE DispatchObs
  <2> DEFINE h == <<Head(doc.obs)>>
             t == Tail(doc.obs)
  <2>1. doc.obs # <<>>
    BY <1>4 DEF DispatchObs
  <2>2. /\ Made(h) /\ Made(t) /\ 1 \in 1..Len(doc.obs) /\ Head(doc.obs) = doc.obs[1]
        /\ \A i \in 1..Len(t) : i + 1 \in 1..Len(doc.obs) /\ t[i] = doc.obs[i + 1]
        /\ \A i \in 1..Len(doc.obs) : i = 1 \/ (i - 1 \in 1..Len(t) /\ t[i - 1] = doc.obs[i])
        /\ Len(t) = Len(doc.obs) - 1
    BY <1>1, <2>1, MadeTail
  <2>3. Len(h) = 1 /\ h[1] = doc.obs[1] /\ 1..1 = {1}
    BY <2>2
  <2>4. IF IsCondition(doc.obs[1]) THEN critical' = critical \o h ELSE critical' = critical
    BY <1>4, <2>2 DEF DispatchObs, ToCritical
  <2>5. doc'.obs = t
    <3>1. CASE Len(doc.obs) = 1 /\ doc.kind = "part"
      <4>1. doc'.obs = <<>>
        BY <1>4, <3>1 DEF DispatchObs, NoDoc
      <4>2. t \in Seq(Observation) /\ Len(t) = 0
        <5>1. Made(t) /\ Len(t) = Len(doc.obs) - 1
          BY <2>2
        <5>2. Len(t) = 0
          BY <3>1, <5>1
        <5> QED BY <5>1, <5>2, MadeIs
      <4>3. t = <<>>
        BY <4>2, EmptySeq
      <4> QED BY <4>1, <4>3
    <3>2. CASE ~(Len(doc.obs) = 1 /\ doc.kind = "part")
      <4>1. doc' = [doc EXCEPT !.obs = t]
        BY <1>4, <3>2 DEF DispatchObs
      <4> HIDE DEF t
      <4> QED BY <1>1, <4>1
    <3> QED BY <3>1, <3>2
  <2> HIDE DEF h, t
  <2>6. \A i : Holds(doc.obs, i) <=> Holds(h, i) \/ Holds(t, i)
    BY <2>2, <2>3 DEF Holds
  <2>0. \A i : Holds(critical \o h, i) <=> Holds(critical, i) \/ Holds(h, i)
    BY <1>3, <2>2
  <2>7. \A i : Holds(critical', i) => Holds(critical, i) \/ Holds(h, i)
    BY <2>0, <2>4
  <2>8. \A i : Holds(critical, i) => Holds(critical', i)
    BY <2>0, <2>4
  <2>9. ASSUME NEW i \in 1..Len(log), IsCondition(log[i]), Holds(h, i) PROVE Holds(critical', i)
    <3>1. doc.obs[1].seq = i /\ doc.obs[1] = log[i]
      BY <1>1, <2>2, <2>3, <2>9, MadeIs DEF Holds
    <3>2. critical' = critical \o h
      BY <2>4, <2>9, <3>1
    <3> QED BY <2>0, <2>9, <3>2
  <2> QED BY <2>5, <2>6, <2>7, <2>8, <2>9 DEF Pending
<1>5. CASE DispatchSnapshot
  <2>1. critical' = critical \o doc.obs /\ doc'.obs = <<>>
    BY <1>1, <1>5 DEF DispatchSnapshot, ToCritical
  <2> QED BY <1>1, <1>2, <1>3, <2>1 DEF Pending
<1>6. CASE CycleDone
  <2>1. critical' = critical /\ doc'.obs = <<>> /\ doc.obs = <<>>
    BY <1>6 DEF CycleDone, NoDoc
  <2> QED BY <2>1 DEF Pending
<1> QED BY <1>4, <1>5, <1>6

\* The session has been given all that stood at some moment, or is being given it.
Alarmed == attached /\ setup.ascending
           /\ (whole \/ (doc.full /\ doc.kind \in {"cycle", "snapshot"}))

\* Every alarm that the stream or the floor is past is on its way, or has arrived.
NoneLost ==
  Alarmed => \A k \in Keys : \A i \in 1..Len(log) :
               Now[k] # Clear /\ Latest(k, i) /\ Reached(i) => Pending(i) \/ i <= drained[k]

LEMMA NoneLostFrom ==
  ASSUME Typed, [Next]_vars,
         Alarmed' => \A k \in Keys : \A i \in 1..Len(log) :
           /\ Now[k] # Clear /\ Latest(k, i) /\ Reached(i)'
           => Holds(critical', i) \/ Holds(doc'.obs, i) \/ i <= drained'[k]
  PROVE  NoneLost'
<1> SUFFICES ASSUME Alarmed', NEW k \in Keys, NEW i \in 1..Len(log'),
                    Now'[k] # Clear, Latest(k, i)', Reached(i)'
             PROVE  Pending(i)' \/ i <= drained'[k]
  BY DEF NoneLost
<1>1. Latest(k, i) /\ Now[k] # Clear /\ i \in 1..Len(log)
  BY LatestKept
<1>2. Holds(critical', i) \/ Holds(doc'.obs, i) \/ i <= drained'[k]
  BY <1>1
<1> QED BY <1>2 DEF Pending, Holds

LEMMA ReportedHasLatest ==
  ASSUME Logged, NEW k \in Keys, Now[k] # Clear, NEW i, Latest(k, i)
  PROVE  i \in Reported /\ \E p \in 1..Len(Current) : Current[p].seq = i /\ IsCondition(Current[p])
<1>1. PICK s \in Reported : Latest(k, s)
  BY ReportedIs
<1>2. i = s
  <2>1. i <= s /\ s <= i /\ i \in Nat /\ s \in Nat
    BY <1>1, LogIs DEF Latest, Logged
  <2> QED BY <2>1
<1>3. PICK p \in 1..Len(Current) : p # 1 /\ Current[p].seq = s
  BY CurrentIs
<1> QED BY <1>1, <1>2, <1>3, CurrentIs

LEMMA NoneLostCycle ==
  ASSUME Typed, Flows, NoneLost, Poll \/ Reopen \/ Recover
  PROVE  NoneLost'
<1>1. /\ attached \in BOOLEAN /\ Logged /\ DocTypes /\ Len(log) \in Nat
      /\ floor \in [Items -> 0..Len(log)] /\ NoFloors \in [Items -> 0..Len(log)]
      /\ "condition" \in Items /\ NoFloors["condition"] = 0 /\ [Next]_vars
  BY LogIs DEF Typed, SessionTypes, DocTypes, Logged, NoFloors, Items, Next
<1>2. UNCHANGED <<setup, log, critical, attached, drained, whole>>
  BY DEF Poll, Reopen, Recover, Cycle
<1>3. PICK kind \in {"cycle", "snapshot"}, floors \in [Items -> 0..Len(log)] :
        Cycle(kind, floors) /\ floors["condition"] \in {0, floor["condition"]}
  <2>1. Cycle("cycle", floor) \/ Cycle("snapshot", NoFloors)
    BY DEF Poll, Reopen, Recover
  <2> QED BY <1>1, <2>1
<1> DEFINE new == doc'.obs
<1>4. /\ Made(new)
      /\ attached /\ setup.ascending => \A s \in Reported :
           floors["condition"] < s => \E i \in 1..Len(new) : new[i].seq = s
      /\ doc'.full => new = Current
  BY <1>1, <1>3, CycleBrings
<1> HIDE DEF new
<1>5. Idle
  BY <1>3 DEF Cycle
<1>6. ASSUME Alarmed', NEW k \in Keys, NEW i \in 1..Len(log), Now[k] # Clear, Latest(k, i)
      PROVE  Holds(critical', i) \/ Holds(new, i) \/ i <= drained'[k]
  <2>1. attached /\ setup.ascending /\ (whole \/ doc'.full)
    BY <1>2, <1>6 DEF Alarmed
  <2>2. i \in Reported /\ \E p \in 1..Len(Current) : Current[p].seq = i
    BY <1>1, <1>6, ReportedHasLatest
  <2>3. CASE doc'.full
    BY <1>4, <2>2, <2>3 DEF Holds
  <2>4. CASE floors["condition"] < i
    BY <1>4, <2>1, <2>2, <2>4 DEF Holds
  <2>5. CASE whole /\ ~(floors["condition"] < i)
    <3>1. i <= floor["condition"]
      <4>1. floors["condition"] \in 0..Len(log) /\ floor["condition"] \in 0..Len(log)
        BY <1>1
      <4> QED BY <1>1, <1>3, <2>5, <4>1
    <3>2. Pending(i) \/ i <= drained[k]
      BY <1>6, <2>1, <2>5, <3>1 DEF NoneLost, Alarmed, Reached
    <3>3. ~Holds(doc.obs, i)
      BY <1>1, <1>5, NothingFlows DEF Idle, DocTypes, Holds
    <3> QED BY <1>2, <3>2, <3>3 DEF Pending
  <2> QED BY <2>1, <2>3, <2>4, <2>5
<1> QED BY <1>1, <1>6, NoneLostFrom DEF new

LEMMA NoneLostPart ==
  ASSUME Typed, Flows, NoneLost, StreamPart
  PROVE  NoneLost'
<1>1. /\ attached \in BOOLEAN /\ Logged /\ DocTypes /\ Len(log) \in Nat
      /\ floor \in [Items -> 0..Len(log)] /\ "condition" \in Items /\ [Next]_vars
      /\ next \in Nat
  BY LogIs DEF Typed, SessionTypes, DocTypes, Logged, Items, Next
<1>2. UNCHANGED <<setup, log, critical, attached, drained, whole>> /\ Idle
  BY DEF StreamPart
<1> DEFINE new == doc'.obs
<1>3. PICK n \in 1..Len(log) :
           /\ next' = n + 1 /\ floor' \in [Items -> 0..Len(log)]
           /\ doc'.kind \in {"none", "part"}
           /\ \A item \in Items : floor'[item] = floor[item] \/ floor'[item] <= n
           /\ attached => \A x \in 1..Len(log) :
                next <= x /\ x <= n /\ floor[Item(log[x])] < x
                  => \E i \in 1..Len(new) : new[i].seq = x
  BY <1>1, PartBrings
<1> HIDE DEF new
<1>4. ASSUME Alarmed', NEW k \in Keys, NEW i \in 1..Len(log), Now[k] # Clear, Latest(k, i), Reached(i)'
      PROVE  Holds(critical', i) \/ Holds(new, i) \/ i <= drained'[k]
  <2>1. attached /\ setup.ascending /\ whole
    BY <1>2, <1>3, <1>4 DEF Alarmed
  <2>2. Item(log[i]) = "condition"
    BY <1>1, <1>4, LogIs, ObservationIs DEF Logged, Latest, IsCondition
  <2>3. CASE Reached(i)
    <3>1. Pending(i) \/ i <= drained[k]
      BY <1>4, <2>1, <2>3 DEF NoneLost, Alarmed
    <3>2. ~Holds(doc.obs, i)
      BY <1>1, <1>2, NothingFlows DEF Idle, DocTypes, Holds
    <3> QED BY <1>2, <3>1, <3>2 DEF Pending
  <2>4. CASE ~Reached(i)
    <3>1. floor["condition"] \in Nat /\ floor'["condition"] \in Nat
      BY <1>1, <1>3
    <3>2. next <= i /\ floor["condition"] < i
      BY <1>1, <2>4, <3>1 DEF Reached
    <3>3. i < n + 1 \/ i <= floor'["condition"]
      BY <1>3, <1>4 DEF Reached
    <3>4. i <= n
      BY <1>1, <1>3, <3>1, <3>2, <3>3
    <3> QED BY <1>3, <2>1, <2>2, <3>2, <3>4 DEF Holds
  <2> QED BY <2>3, <2>4
<1> QED BY <1>1, <1>4, NoneLostFrom DEF new

LEMMA NoneLostNext ==
  ASSUME Typed, Flows, NoneLost, [Next]_vars
  PROVE  NoneLost'
<1>1. /\ Logged /\ Len(log) \in Nat /\ setup' = setup /\ Made(critical) /\ Made(doc.obs)
      /\ drained \in [Keys -> 0..Len(log)] /\ "obs" \in DOMAIN doc
  BY LogGrows DEF Typed, SessionTypes, DocTypes
<1>2. CASE StreamPart
  BY <1>2, NoneLostPart
<1>3. CASE Poll \/ Reopen \/ Recover
  BY <1>3, NoneLostCycle
<1>4. CASE DispatchObs \/ DispatchSnapshot \/ CycleDone
  <2>1. UNCHANGED <<next, floor, attached, drained>>
    BY <1>4 DEF DispatchObs, DispatchSnapshot, CycleDone
  <2>2. ASSUME Alarmed' PROVE Alarmed
    <3>1. CASE DispatchObs \/ DispatchSnapshot
      <4>1. whole' = whole /\ (doc' = NoDoc \/ \E q : doc' = [doc EXCEPT !.obs = q])
        BY <3>1 DEF DispatchObs, DispatchSnapshot
      <4>2. doc' = NoDoc \/ (doc'.full = doc.full /\ doc'.kind = doc.kind)
        BY <4>1 DEF Typed, DocTypes
      <4> QED BY <1>1, <2>1, <2>2, <4>1, <4>2 DEF Alarmed, NoDoc
    <3>2. CASE CycleDone
      <4>1. doc.kind \in {"cycle", "snapshot"} /\ whole' = (whole \/ doc.full) /\ doc'.full = FALSE
        BY <3>2 DEF CycleDone, NoDoc
      <4>2. attached /\ setup.ascending /\ whole'
        BY <1>1, <2>1, <2>2, <4>1 DEF Alarmed
      <4>3. whole \/ doc.full
        BY <4>1, <4>2
      <4> QED BY <4>1, <4>2, <4>3 DEF Alarmed
    <3> QED BY <1>4, <3>1, <3>2
  <2>3. ASSUME Alarmed', NEW k \in Keys, NEW i \in 1..Len(log), Now[k] # Clear, Latest(k, i),
               Reached(i)'
        PROVE  Holds(critical', i) \/ Holds(doc'.obs, i) \/ i <= drained'[k]
    <3>1. Reached(i)
      BY <2>1, <2>3 DEF Reached
    <3>2. Pending(i) \/ i <= drained[k]
      BY <2>2, <2>3, <3>1 DEF NoneLost
    <3>3. IsCondition(log[i]) /\ attached
      BY <1>1, <2>2, <2>3, LogIs, ObservationIs DEF Logged, Latest, Alarmed
    <3> QED BY <1>4, <2>1, <3>2, <3>3, DispatchKeeps
  <2> QED BY <2>3, NoneLostFrom
<1>5. CASE ServeAttach
  <2>1. ASSUME attached, NEW k \in Keys, NEW i \in 1..Len(log), Now[k] # Clear, Latest(k, i)
        PROVE  Holds(critical', i)
    <3>1. Made(Current) /\ critical' = critical \o Current
      BY <1>1, <1>5, <2>1, CurrentIs DEF ServeAttach, ToCritical
    <3>2. PICK p \in 1..Len(Current) : Current[p].seq = i
      BY <1>1, <2>1, ReportedHasLatest
    <3>3. p + Len(critical) \in 1..Len(critical') /\ critical'[p + Len(critical)] = Current[p]
      BY <1>1, <3>1, MadeJoins
    <3> QED BY <3>2, <3>3 DEF Holds
  <2>2. attached' = attached
    BY <1>5 DEF ServeAttach
  <2> QED BY <2>1, <2>2, NoneLostFrom DEF Alarmed
<1>6. CASE Attach \/ Detach
  <2>1. ~Alarmed'
    <3>1. CASE Attach
      <4>1. doc'.full = FALSE /\ whole' = FALSE
        BY <3>1 DEF Attach, Typed, DocTypes
      <4> QED BY <4>1 DEF Alarmed
    <3>2. CASE Detach
      BY <3>2 DEF Detach, Alarmed
    <3> QED BY <1>6, <3>1, <3>2
  <2> QED BY <2>1 DEF NoneLost
<1>7. CASE Read
  <2>1. UNCHANGED <<next, floor, doc, attached, whole>>
    BY <1>7 DEF Read
  <2>2. ASSUME Alarmed', NEW k \in Keys, NEW i \in 1..Len(log), Now[k] # Clear, Latest(k, i), Reached(i)'
        PROVE  Holds(critical', i) \/ Holds(doc'.obs, i) \/ i <= drained'[k]
    <3>1. Pending(i) \/ i <= drained[k]
      BY <1>1, <2>1, <2>2 DEF NoneLost, Alarmed, Reached
    <3>2. CASE Holds(doc.obs, i)
      BY <2>1, <3>2
    <3>3. CASE i <= drained[k]
      <4>1. drained[k] <= drained'[k] /\ drained[k] \in Nat /\ drained'[k] \in Nat
        <5>1. drained' \in [Keys -> 0..Len(log)] /\ drained[k] <= drained'[k]
          BY <1>1, <1>7, DrainedIs
        <5> QED BY <1>1, <5>1
      <4> QED BY <1>1, <3>3, <4>1
    <3>4. CASE Holds(critical, i)
      <4>1. PICK p \in 1..Len(critical) : critical[p].seq = i
        BY <3>4 DEF Holds
      <4>2. Concerns(critical[p], k)
        BY <1>1, <2>2, <4>1, MadeIs DEF Latest
      <4> QED BY <1>1, <1>7, <4>1, <4>2, DrainedIs
    <3> QED BY <3>1, <3>2, <3>3, <3>4 DEF Pending
  <2> QED BY <2>2, NoneLostFrom
<1>8. CASE Observe \/ ServeAttachUndelivered \/ ServeAttachFailed \/ Ask \/ Served \/ UNCHANGED vars
  <2>1. UNCHANGED <<next, floor, doc, attached, whole, critical, drained>>
    BY <1>8 DEF Observe, ServeAttachUndelivered, ServeAttachFailed, Ask, Served, vars
  <2>2. ASSUME Alarmed', NEW k \in Keys, NEW i \in 1..Len(log), Now[k] # Clear, Latest(k, i), Reached(i)'
        PROVE  Holds(critical', i) \/ Holds(doc'.obs, i) \/ i <= drained'[k]
    <3>1. Pending(i) \/ i <= drained[k]
      BY <1>1, <2>1, <2>2 DEF NoneLost, Alarmed, Reached
    <3> QED BY <2>1, <3>1 DEF Pending
  <2> QED BY <2>2, NoneLostFrom
<1>9. CASE DropObs \/ DropSnapshot
  <2>1. doc' = NoDoc \/ \E q : doc' = [doc EXCEPT !.obs = q, !.full = FALSE]
    BY <1>9, DropLeaves DEF Typed, DocTypes
  <2>2. doc'.full = FALSE
    <3>1. "full" \in DOMAIN doc
      BY DEF Typed, DocTypes
    <3>2. ASSUME NEW q, doc' = [doc EXCEPT !.obs = q, !.full = FALSE] PROVE doc'.full = FALSE
      BY <3>1, <3>2
    <3>3. CASE doc' = NoDoc
      BY <3>3 DEF NoDoc
    <3> QED BY <2>1, <3>2, <3>3
  <2>3. ~Alarmed'
    BY <1>9, <2>2, DropIs DEF Alarmed
  <2> QED BY <2>3 DEF NoneLost
<1> QED BY <1>2, <1>3, <1>4, <1>5, <1>6, <1>7, <1>8, <1>9 DEF Next

LEMMA NoneLostMeans ==
  ASSUME Typed, Flows, NoneLost, setup.ascending
  PROVE  NoAlarmMissed
<1> SUFFICES ASSUME whole, Quiesced, NEW k \in Keys, Now[k] # Clear
             PROVE  ledger.active[k] = Now[k]
  BY DEF NoAlarmMissed
<1>1. /\ Logged /\ Len(log) \in Nat /\ next \in Nat /\ attached /\ next > Len(log)
      /\ Made(critical) /\ Made(data) /\ doc.obs = <<>> /\ critical \o data = <<>>
      /\ drained \in [Keys -> 0..Len(log)]
  BY LogIs DEF Typed, Logged, DocTypes, SessionTypes, Quiesced, Idle
<1>2. PICK i \in 1..Len(log) : Latest(k, i)
  BY <1>1, StandingIs
<1>3. Reached(i)
  BY <1>1 DEF Reached
<1>4. ~Pending(i)
  <2>1. ~Holds(doc.obs, i)
    BY <1>1, NothingFlows DEF Holds
  <2>2. ~Holds(critical, i)
    <3>1. SUFFICES ASSUME NEW p \in 1..Len(critical) PROVE FALSE
      BY DEF Holds
    <3>2. p \in 1..Len(critical \o data)
      BY <1>1, MadeJoins
    <3> QED BY <1>1, <3>2, NothingFlows
  <2> QED BY <2>1, <2>2 DEF Pending
<1>5. i <= drained[k]
  BY <1>1, <1>2, <1>3, <1>4 DEF NoneLost, Alarmed
<1>6. drained[k] # 0
  BY <1>1, <1>5
<1>7. PICK p \in 1..Len(log) : drained[k] <= p /\ ledger.active[k] = agent[p][k]
  BY <1>6 DEF Flows, Shows
<1>8. p \in i..Len(log)
  BY <1>1, <1>5, <1>7
<1> QED BY <1>1, <1>2, <1>7, <1>8, LatestSays

\* From an agent that lists its activations in sequence, a session that was given a whole
\* /current, and of what was sent to it since nothing was dropped, misses no alarm, through
\* breaks, recoveries and polls; a whole /current makes up for what was dropped before it.
THEOREM NoAlarmIsMissed == Spec => [](setup.ascending => NoAlarmMissed)
<1>1. Init => NoneLost
  BY DEF Init, NoneLost, Alarmed
<1>2. Typed /\ Flows /\ NoneLost /\ [Next]_vars => NoneLost'
  BY NoneLostNext
<1>3. Typed /\ Flows /\ NoneLost => (setup.ascending => NoAlarmMissed)
  BY NoneLostMeans
<1> QED BY <1>1, <1>2, <1>3, FlowsHolds, PTL DEF Spec

----------------------------------------------------------------------------
(* A session fed by one unbroken stream is exact.                          *)

Untouched(q, k) == \A p \in 1..Len(q) : ~Concerns(q[p], k)

\* The last report of k, once reached, is on its way, or what is shown of k is no older.
Certain(k, i) ==
  \/ Pending(i)
  \/ /\ Untouched(critical, k) /\ Untouched(doc.obs, k)
     /\ \A p \in 1..Len(reply.obs) : Concerns(reply.obs[p], k) => i <= reply.obs[p].seq
     /\ \E p \in i..Len(log) : ledger.active[k] = agent[p][k]

KeysExact ==
  exact /\ attached =>
    \A k \in Keys : \A i \in 1..Len(log) : Latest(k, i) /\ Reached(i) => Certain(k, i)

LEMMA KeysExactFrom ==
  ASSUME Typed, [Next]_vars,
         exact' /\ attached' => \A k \in Keys : \A i \in 1..Len(log) : Latest(k, i) /\ Reached(i)' =>
           \/ Holds(critical', i) \/ Holds(doc'.obs, i)
           \/ /\ Untouched(critical', k) /\ Untouched(doc'.obs, k)
              /\ \A p \in 1..Len(reply'.obs) : Concerns(reply'.obs[p], k) => i <= reply'.obs[p].seq
              /\ \E p \in i..Len(log) : ledger'.active[k] = agent[p][k]
  PROVE  KeysExact'
<1> SUFFICES ASSUME exact', attached', NEW k \in Keys, NEW i \in 1..Len(log'),
                    Latest(k, i)', Reached(i)'
             PROVE  Certain(k, i)'
  BY DEF KeysExact
<1>1. Latest(k, i) /\ i \in 1..Len(log)
  BY LatestKept
<1>2. CASE Holds(critical', i) \/ Holds(doc'.obs, i)
  BY <1>2 DEF Certain, Pending, Holds
<1>3. CASE /\ Untouched(critical', k) /\ Untouched(doc'.obs, k)
           /\ \A p \in 1..Len(reply'.obs) : Concerns(reply'.obs[p], k) => i <= reply'.obs[p].seq
           /\ \E p \in i..Len(log) : ledger'.active[k] = agent[p][k]
  <2>1. PICK p \in i..Len(log) : ledger'.active[k] = agent[p][k]
    BY <1>3
  <2>2. p \in i..Len(log') /\ agent'[p] = agent[p]
    <3>1. /\ Len(log) \in Nat /\ Len(log') \in Nat /\ Len(log) <= Len(log')
          /\ \A n \in 1..Len(log) : agent'[n] = agent[n]
      BY LogGrows DEF Typed
    <3>2. p \in 1..Len(log) /\ i <= p
      BY <1>1, <3>1
    <3> QED BY <1>1, <3>1, <3>2
  <2> QED BY <1>3, <2>1, <2>2 DEF Certain, Untouched
<1> QED BY <1>1, <1>2, <1>3

LEMMA NothingTouches == \A k : Untouched(<<>>, k)
BY NothingFlows DEF Untouched

LEMMA KeysExactPart ==
  ASSUME Typed, Flows, KeysExact, StreamPart
  PROVE  KeysExact'
<1>1. /\ attached \in BOOLEAN /\ Logged /\ DocTypes /\ Len(log) \in Nat
      /\ floor \in [Items -> 0..Len(log)] /\ "condition" \in Items /\ [Next]_vars
      /\ next \in Nat /\ doc.obs = <<>>
  BY LogIs DEF Typed, SessionTypes, DocTypes, Logged, Items, Next, StreamPart, Idle
<1>2. UNCHANGED <<log, agent, critical, attached, exact, reply, ledger>>
  BY DEF StreamPart
<1> DEFINE new == doc'.obs
<1>3. PICK n \in 1..Len(log) :
           /\ next' = n + 1 /\ floor' \in [Items -> 0..Len(log)] /\ Made(new)
           /\ \A item \in Items : floor'[item] = floor[item] \/ floor'[item] <= n
           /\ \A i \in 1..Len(new) :
                /\ next <= new[i].seq /\ new[i].seq <= n /\ floor[Item(new[i])] < new[i].seq
           /\ attached => \A x \in 1..Len(log) :
                next <= x /\ x <= n /\ floor[Item(log[x])] < x
                  => \E i \in 1..Len(new) : new[i].seq = x
  BY <1>1, PartBrings
<1> HIDE DEF new
<1>4. ASSUME exact, attached, NEW k \in Keys, NEW i \in 1..Len(log), Latest(k, i), Reached(i)'
      PROVE  \/ Holds(critical, i) \/ Holds(new, i)
             \/ /\ Untouched(critical, k) /\ Untouched(new, k)
                /\ \A p \in 1..Len(reply.obs) : Concerns(reply.obs[p], k) => i <= reply.obs[p].seq
                /\ \E p \in i..Len(log) : ledger.active[k] = agent[p][k]
  <2>1. Item(log[i]) = "condition"
    BY <1>1, <1>4, LogIs, ObservationIs DEF Logged, Latest, IsCondition
  <2>2. floor["condition"] \in Nat /\ floor'["condition"] \in Nat
    BY <1>1, <1>3
  <2>3. CASE Reached(i)
    <3>1. Certain(k, i)
      BY <1>4, <2>3 DEF KeysExact
    <3>2. Untouched(new, k)
      <4> SUFFICES ASSUME NEW p \in 1..Len(new), Concerns(new[p], k) PROVE FALSE
        BY DEF Untouched
      <4>1. new[p].seq <= i /\ new[p].seq \in Nat
        BY <1>1, <1>3, <1>4, NoneIsLater, MadeIs
      <4>2. Item(new[p]) = "condition"
        BY <1>3, MadeIs, ObservationIs DEF IsCondition
      <4>3. next <= new[p].seq /\ floor["condition"] < new[p].seq
        BY <1>3, <4>2
      <4> QED BY <1>1, <2>2, <2>3, <4>1, <4>3 DEF Reached
    <3>3. ~Holds(doc.obs, i)
      BY <1>1, NothingFlows DEF Holds
    <3> QED BY <3>1, <3>2, <3>3 DEF Certain, Pending
  <2>4. CASE ~Reached(i)
    <3>2. next <= i /\ floor["condition"] < i
      BY <1>1, <2>2, <2>4 DEF Reached
    <3>3. i < n + 1 \/ i <= floor'["condition"]
      BY <1>3, <1>4 DEF Reached
    <3>4. i <= n
      BY <1>1, <1>3, <2>2, <3>2, <3>3
    <3> QED BY <1>3, <1>4, <2>1, <3>2, <3>4 DEF Holds
  <2> QED BY <2>3, <2>4
<1> QED BY <1>1, <1>2, <1>4, KeysExactFrom DEF new

\* A lane and a document of which dispatch only moves conditions on: what they concern.
LEMMA TouchedIs ==
  ASSUME NEW q, Made(q), NEW k \in Keys
  PROVE  Untouched(q, k) <=> \A s \in 1..Len(log) : Concerns(log[s], k) => ~Holds(q, s)
<1>1. \A p \in 1..Len(q) : q[p].seq \in 1..Len(log) /\ q[p] = log[q[p].seq]
  BY MadeIs
<1> QED BY <1>1 DEF Untouched, Holds

LEMMA KeysExactDispatch ==
  ASSUME Typed, Typed', Flows, KeysExact, DispatchObs \/ DispatchSnapshot \/ CycleDone
  PROVE  KeysExact'
<1>1. /\ Made(critical) /\ Made(doc.obs) /\ Logged /\ [Next]_vars
  BY DEF Typed, DocTypes, SessionTypes, Next
<1>2. UNCHANGED <<log, agent, next, floor, attached, exact, ledger, reply>>
  BY DEF DispatchObs, DispatchSnapshot, CycleDone
<1>3. Made(critical') /\ Made(doc'.obs)
  <2>1. Made(critical)' /\ Made(doc.obs)'
    BY DEF Typed, DocTypes, SessionTypes
  <2> QED BY <1>2, <2>1 DEF Made
<1>4. ASSUME exact, attached, NEW k \in Keys, NEW i \in 1..Len(log), Latest(k, i), Reached(i)
      PROVE  \/ Holds(critical', i) \/ Holds(doc'.obs, i)
             \/ /\ Untouched(critical', k) /\ Untouched(doc'.obs, k)
                /\ \A p \in 1..Len(reply.obs) : Concerns(reply.obs[p], k) => i <= reply.obs[p].seq
                /\ \E p \in i..Len(log) : ledger.active[k] = agent[p][k]
  <2>1. Certain(k, i)
    BY <1>4 DEF KeysExact
  <2>2. CASE Pending(i)
    <3>1. IsCondition(log[i])
      BY <1>1, <1>4, LogIs, ObservationIs DEF Logged, Latest
    <3> QED BY <1>4, <2>2, <3>1, DispatchKeeps
  <2>3. CASE Untouched(critical, k) /\ Untouched(doc.obs, k)
    <3>1. \A s \in 1..Len(log) : Concerns(log[s], k) => ~Pending(s)
      BY <1>1, <2>3, TouchedIs DEF Pending
    <3>2. \A s \in 1..Len(log) : Concerns(log[s], k) => ~Holds(critical', s) /\ ~Holds(doc'.obs, s)
      BY <1>4, <3>1, DispatchKeeps
    <3>3. Untouched(critical', k) /\ Untouched(doc'.obs, k)
      BY <1>3, <3>2, TouchedIs
    <3>4. CASE Pending(i)
      BY <1>4, <3>1, <3>4 DEF Latest
    <3> QED BY <2>1, <3>3, <3>4 DEF Certain
  <2> QED BY <2>1, <2>2, <2>3 DEF Certain
<1>5. \A i : Reached(i)' <=> Reached(i)
  BY <1>2 DEF Reached
<1> QED BY <1>1, <1>2, <1>4, <1>5, KeysExactFrom

LEMMA OneLatest ==
  ASSUME Logged, NEW k, NEW i, NEW j, Latest(k, i), Latest(k, j)
  PROVE  i = j
<1>1. i <= j /\ j <= i /\ i \in Nat /\ j \in Nat
  BY LogIs DEF Latest, Logged
<1> QED BY <1>1

\* The attach snapshot brings what stands, to a session that knows of nothing.
LEMMA KeysExactServe ==
  ASSUME Typed, Flows, KeysExact, ServeAttach
  PROVE  KeysExact'
<1>1. /\ Logged /\ Len(log) \in Nat /\ Len(log) \in 1..Len(log) /\ Made(critical) /\ [Next]_vars
      /\ doc.obs = <<>>
  BY LogIs DEF Typed, DocTypes, SessionTypes, Next, Logged, ServeAttach, Idle
<1>2. UNCHANGED <<log, agent, next, doc, attached, ledger, reply>>
  BY DEF ServeAttach
<1>3. ASSUME exact', attached, NEW k \in Keys, NEW i \in 1..Len(log), Latest(k, i)
      PROVE  \/ Holds(critical', i) \/ Holds(doc.obs, i)
             \/ /\ Untouched(critical', k) /\ Untouched(doc.obs, k)
                /\ \A p \in 1..Len(reply.obs) : Concerns(reply.obs[p], k) => i <= reply.obs[p].seq
                /\ \E p \in i..Len(log) : ledger.active[k] = agent[p][k]
  <2>1. /\ ledger = Unknown /\ critical = <<>> /\ reply = NoReply
        /\ critical' = critical \o Current
    BY <1>3 DEF ServeAttach, ToCritical
  <2> DEFINE C == Current
  <2>2. /\ Made(C) /\ \A j \in 1..Len(C) : Concerns(C[j], k) => Latest(k, C[j].seq)
    BY <1>1, CurrentIs, CurrentLatest
  <2>3. Now[k] # Clear => \E p \in 1..Len(C) : C[p].seq = i
    BY <1>1, <1>3, ReportedHasLatest
  <2> HIDE DEF C
  <2>4. critical' = C
    <3>1. C \in Seq(Observation)
      BY <2>2, MadeIs
    <3> QED BY <2>1, <3>1 DEF C
  <2>5. CASE \E j \in 1..Len(C) : Concerns(C[j], k)
    <3>1. PICK j \in 1..Len(C) : Concerns(C[j], k)
      BY <2>5
    <3>2. C[j].seq = i
      BY <1>1, <1>3, <2>2, <3>1, OneLatest
    <3> QED BY <2>4, <3>2 DEF Holds
  <2>6. CASE Untouched(C, k)
    <3>1. Now[k] = Clear
      <4>1. SUFFICES ASSUME NEW p \in 1..Len(C), C[p].seq = i PROVE FALSE
        BY <2>3
      <4>2. C[p] = log[i]
        BY <2>2, <4>1, MadeIs
      <4> QED BY <1>3, <2>6, <4>2 DEF Latest, Untouched
    <3>2. ledger.active[k] = Clear
      BY <2>1 DEF Unknown
    <3>3. agent[Len(log)][k] = Clear /\ Len(log) \in i..Len(log)
      <4>1. Len(log) \in i..Len(log)
        BY <1>1
      <4>2. Len(agent) = Len(log)
        BY <1>1 DEF Logged, LogTypes
      <4> QED BY <3>1, <4>1, <4>2 DEF Now
    <3>4. \A p \in 1..Len(reply.obs) : FALSE
      BY <2>1, NothingFlows DEF NoReply
    <3> QED BY <1>1, <2>4, <2>6, <3>2, <3>3, <3>4, NothingTouches
  <2> QED BY <2>5, <2>6 DEF Untouched
<1> QED BY <1>1, <1>2, <1>3, KeysExactFrom

\* Draining brings the lane's last word of each activation, and leaves the document's.
LEMMA KeysExactRead ==
  ASSUME Typed, Flows, KeysExact, Read
  PROVE  KeysExact'
<1>1. /\ Logged /\ Len(log) \in Nat /\ Made(critical) /\ Made(doc.obs) /\ [Next]_vars
      /\ Before(critical, doc.obs)
  BY LogIs DEF Typed, DocTypes, SessionTypes, Next, Logged, Flows, InFlow
<1>2. /\ UNCHANGED <<log, agent, next, floor, doc, attached, exact, reply>>
      /\ critical' = <<>> /\ reply = NoReply
  BY DEF Read
<1>3. ASSUME exact, attached, NEW k \in Keys, NEW i \in 1..Len(log), Latest(k, i), Reached(i)
      PROVE  \/ Holds(critical', i) \/ Holds(doc.obs, i)
             \/ /\ Untouched(critical', k) /\ Untouched(doc.obs, k)
                /\ \A p \in 1..Len(reply.obs) : Concerns(reply.obs[p], k) => i <= reply.obs[p].seq
                /\ \E p \in i..Len(log) : ledger'.active[k] = agent[p][k]
  <2>1. Certain(k, i) /\ Concerns(log[i], k)
    BY <1>3 DEF KeysExact, Latest
  <2>2. Untouched(critical', k)
    BY <1>2, NothingTouches
  <2>3. \A p \in 1..Len(reply.obs) : FALSE
    BY <1>2, NothingFlows DEF NoReply
  <2>4. CASE Holds(critical, i)
    <3>1. PICK p \in 1..Len(critical) : critical[p].seq = i
      BY <2>4 DEF Holds
    <3>2. Concerns(critical[p], k)
      BY <1>1, <2>1, <3>1, MadeIs
    <3>3. PICK x \in 1..Len(critical) :
             /\ Concerns(critical[x], k)
             /\ \A j \in 1..Len(critical) : Concerns(critical[j], k) => critical[j].seq <= critical[x].seq
             /\ ledger'.active[k] = agent[critical[x].seq][k]
      BY <3>2, ReadShows
    <3>4. critical[x].seq = i
      <4>1. i <= critical[x].seq
        BY <3>1, <3>2, <3>3
      <4>2. critical[x].seq <= i /\ critical[x].seq \in Nat /\ i \in Nat
        BY <1>1, <1>3, <3>3, MadeIs, NoneIsLater
      <4> QED BY <4>1, <4>2
    <3>5. i \in i..Len(log) /\ ledger'.active[k] = agent[i][k]
      BY <1>1, <3>3, <3>4
    <3>6. CASE Untouched(doc.obs, k)
      BY <2>2, <2>3, <3>5, <3>6
    <3>7. ASSUME NEW y \in 1..Len(doc.obs), Concerns(doc.obs[y], k)
          PROVE  Holds(doc.obs, i)
      <4>1. i <= doc.obs[y].seq
        BY <1>1, <3>1, <3>2, <3>7 DEF Before
      <4>2. doc.obs[y].seq <= i /\ doc.obs[y].seq \in Nat
        BY <1>1, <1>3, <3>7, MadeIs, NoneIsLater
      <4> QED BY <4>1, <4>2 DEF Holds
    <3> QED BY <3>6, <3>7 DEF Untouched
  <2>5. CASE Untouched(critical, k) /\ Untouched(doc.obs, k) /\ \E p \in i..Len(log) : ledger.active[k] = agent[p][k]
    <3>1. ledger'.active[k] = ledger.active[k]
      BY <2>5, ReadShows DEF Untouched
    <3> QED BY <2>2, <2>3, <2>5, <3>1
  <2> QED BY <2>1, <2>4, <2>5 DEF Certain, Pending
<1>4. \A i : Reached(i)' <=> Reached(i)
  BY <1>2 DEF Reached
<1> QED BY <1>1, <1>2, <1>3, <1>4, KeysExactFrom

\* A served read is asked for what is latest, and folds in nothing older than what is shown.
LEMMA KeysExactServed ==
  ASSUME Typed, Flows, KeysExact, Ask \/ Served
  PROVE  KeysExact'
<1>1. Logged /\ Len(log) \in Nat /\ [Next]_vars /\ Made(reply.obs)
  BY LogIs DEF Typed, SessionTypes, Next, Logged
<1>2. UNCHANGED <<log, agent, next, floor, doc, critical, attached, exact>>
  BY DEF Ask, Served
<1>3. ASSUME exact, attached, NEW k \in Keys, NEW i \in 1..Len(log), Latest(k, i), Reached(i)
      PROVE  \/ Holds(critical, i) \/ Holds(doc.obs, i)
             \/ /\ Untouched(critical, k) /\ Untouched(doc.obs, k)
                /\ \A p \in 1..Len(reply'.obs) : Concerns(reply'.obs[p], k) => i <= reply'.obs[p].seq
                /\ \E p \in i..Len(log) : ledger'.active[k] = agent[p][k]
  <2>1. Certain(k, i)
    BY <1>3 DEF KeysExact
  <2>2. CASE Pending(i)
    BY <2>2 DEF Pending
  <2>3. CASE /\ Untouched(critical, k) /\ Untouched(doc.obs, k)
             /\ \A p \in 1..Len(reply.obs) : Concerns(reply.obs[p], k) => i <= reply.obs[p].seq
             /\ \E p \in i..Len(log) : ledger.active[k] = agent[p][k]
    <3>1. CASE Ask
      <4>1. ledger' = ledger
        BY <3>1 DEF Ask
      <4>2. \A p \in 1..Len(reply'.obs) : Concerns(reply'.obs[p], k) => Latest(k, reply'.obs[p].seq)
        BY <3>1, AskBrings
      <4>3. \A p \in 1..Len(reply'.obs) : Concerns(reply'.obs[p], k) => i <= reply'.obs[p].seq
        BY <1>1, <1>3, <4>2, OneLatest
      <4> QED BY <2>3, <4>1, <4>3
    <3>2. CASE Served
      <4>1. \A p \in 1..Len(reply'.obs) : FALSE
        <5>1. reply'.obs = <<>>
          BY <3>2 DEF Served, NoReply
        <5> QED BY <5>1, NothingFlows
      <4>2. \E p \in i..Len(log) : ledger'.active[k] = agent[p][k]
        <5>1. CASE ledger'.active[k] = ledger.active[k]
          BY <2>3, <5>1
        <5>2. ASSUME NEW x \in 1..Len(reply.obs), Concerns(reply.obs[x], k),
                     reply.obs[x].seq \in 1..Len(log), ledger'.active[k] = agent[reply.obs[x].seq][k]
              PROVE  \E p \in i..Len(log) : ledger'.active[k] = agent[p][k]
          <6>1. i <= reply.obs[x].seq
            BY <2>3, <5>2
          <6>2. reply.obs[x].seq \in i..Len(log)
            BY <1>1, <5>2, <6>1
          <6> QED BY <5>2, <6>2
        <5> QED BY <3>2, <5>1, <5>2, ServedShows
      <4> QED BY <2>3, <4>1, <4>2
    <3> QED BY <3>1, <3>2
  <2> QED BY <2>1, <2>2, <2>3 DEF Certain
<1>4. \A i : Reached(i)' <=> Reached(i)
  BY <1>2 DEF Reached
<1> QED BY <1>1, <1>2, <1>3, <1>4, KeysExactFrom

LEMMA KeysExactNext ==
  ASSUME Typed, Typed', Flows, KeysExact, [Next]_vars
  PROVE  KeysExact'
<1>1. CASE Poll \/ Reopen \/ Recover \/ DropObs \/ DropSnapshot \/ Attach \/ Detach
  <2>1. ~(exact' /\ attached')
    BY <1>1, DropIs DEF Poll, Reopen, Recover, Cycle, Attach, Detach
  <2> QED BY <2>1 DEF KeysExact
<1>2. CASE ServeAttachUndelivered \/ ServeAttachFailed \/ Observe \/ UNCHANGED vars
  <2>1. UNCHANGED <<next, floor, doc, critical, attached, exact, ledger, reply>>
    BY <1>2 DEF ServeAttachUndelivered, ServeAttachFailed, Observe, vars
  <2>2. ASSUME exact, attached, NEW k \in Keys, NEW i \in 1..Len(log), Latest(k, i), Reached(i)'
        PROVE  Certain(k, i)
    BY <2>1, <2>2 DEF KeysExact, Reached
  <2> QED BY <2>1, <2>2, KeysExactFrom DEF Certain, Pending
<1> QED BY <1>1, <1>2, KeysExactPart, KeysExactServe, KeysExactDispatch, KeysExactRead, KeysExactServed
        DEF Next

\* The last report of the condition, whatever it concerns.
LastReport(m) == /\ m \in 1..Len(log) /\ IsCondition(log[m])
                 /\ \A n \in 1..Len(log) : IsCondition(log[n]) => n <= m

NoCondition(q) == \A i \in 1..Len(q) : ~IsCondition(q[i])

\* The last condition of a batch, if it has one, is an UNAVAILABLE, or is not.
Ends(q, u) == \A i \in 1..Len(q) :
                IsCondition(q[i]) /\ (\A j \in 1..Len(q) : i < j => ~IsCondition(q[j]))
                  => (q[i].state = "UNAVAILABLE") = u

\* What is furthest behind tells: the document, else the lane, else a served read, else
\* the ledger's own flag.
Flagged(d, c, r, f, u) ==
  /\ Ends(d, u)
  /\ NoCondition(d) => Ends(c, u)
  /\ NoCondition(d) /\ NoCondition(c) => Ends(r, u)
  /\ NoCondition(d) /\ NoCondition(c) /\ NoCondition(r) => f = u

FlagExact ==
  exact /\ attached =>
    \A m \in 1..Len(log) : LastReport(m) /\ Reached(m) =>
      Flagged(doc.obs, critical, reply.obs, ledger.unavailable, log[m].state = "UNAVAILABLE")

LEMMA LastReportKept ==
  ASSUME Typed, [Next]_vars, NEW m \in 1..Len(log'), LastReport(m)', Reached(m)'
  PROVE  LastReport(m) /\ m \in 1..Len(log) /\ log'[m] = log[m]
<1>1. /\ Logged /\ Len(log) \in Nat /\ next \in 1..(Len(log) + 1)
      /\ floor \in [Items -> 0..Len(log)] /\ "condition" \in Items
  BY LogIs DEF Typed, Logged, DocTypes, Items
<1>2. CASE UNCHANGED log
  BY <1>2 DEF LastReport
<1>3. CASE Observe
  <2>1. UNCHANGED <<next, floor>>
    BY <1>3 DEF Observe
  <2>2. m <= Len(log)
    <3>1. m < next \/ m <= floor["condition"]
      BY <2>1 DEF Reached
    <3>2. floor["condition"] \in 0..Len(log)
      BY <1>1
    <3> QED BY <1>1, <3>1, <3>2
  <2>3. m \in 1..Len(log)
    BY <1>1, <2>2
  <2>4. \A n \in 1..Len(log) : n \in 1..Len(log') /\ log'[n] = log[n]
    BY LogGrows DEF Typed
  <2>5. log'[m] = log[m] /\ IsCondition(log'[m])
    BY <2>3, <2>4 DEF LastReport, IsCondition, Item
  <2>6. \A n \in 1..Len(log') : IsCondition(log'[n]) => n <= m
    BY DEF LastReport, IsCondition, Item
  <2>7. \A n \in 1..Len(log) : IsCondition(log[n]) => n <= m
    BY <2>4, <2>6
  <2> QED BY <2>3, <2>5, <2>7 DEF LastReport
<1> QED BY <1>2, <1>3, LogMoves

LEMMA FlagExactFrom ==
  ASSUME Typed, [Next]_vars,
         exact' /\ attached' => \A m \in 1..Len(log) : LastReport(m) /\ Reached(m)' =>
           Flagged(doc'.obs, critical', reply'.obs, ledger'.unavailable,
                   log[m].state = "UNAVAILABLE")
  PROVE  FlagExact'
<1> SUFFICES ASSUME exact', attached', NEW m \in 1..Len(log'), LastReport(m)', Reached(m)'
             PROVE  Flagged(doc.obs, critical, reply.obs, ledger.unavailable,
                            log[m].state = "UNAVAILABLE")'
  BY DEF FlagExact
<1>1. LastReport(m) /\ m \in 1..Len(log) /\ log'[m] = log[m]
  BY LastReportKept
<1>2. Flagged(doc'.obs, critical', reply'.obs, ledger'.unavailable,
              log'[m].state = "UNAVAILABLE")
  BY <1>1
<1> QED BY <1>2 DEF Flagged, Ends, NoCondition, IsCondition, Item

LEMMA NothingEnds == NoCondition(<<>>) /\ \A u : Ends(<<>>, u)
BY NothingFlows DEF NoCondition, Ends

LEMMA EndsJoin ==
  ASSUME NEW p, NEW q, Made(p), Made(q), NEW u
  PROVE  /\ NoCondition(p \o q) <=> NoCondition(p) /\ NoCondition(q)
         /\ Ends(q, u) /\ (NoCondition(q) => Ends(p, u)) => Ends(p \o q, u)
<1> DEFINE r == p \o q
<1>1. /\ Len(p) \in Nat /\ Len(q) \in Nat
      /\ \A i \in 1..Len(p) : i \in 1..Len(r) /\ r[i] = p[i]
      /\ \A i \in 1..Len(q) : i + Len(p) \in 1..Len(r) /\ r[i + Len(p)] = q[i]
      /\ \A i \in 1..Len(r) : \/ i \in 1..Len(p) /\ r[i] = p[i]
                              \/ i - Len(p) \in 1..Len(q) /\ r[i] = q[i - Len(p)]
  BY MadeJoins, MadeIs
<1> HIDE DEF r
<1>2. NoCondition(r) <=> NoCondition(p) /\ NoCondition(q)
  BY <1>1 DEF NoCondition
<1>3. ASSUME Ends(q, u), NoCondition(q) => Ends(p, u), NEW i \in 1..Len(r), IsCondition(r[i]),
             \A j \in 1..Len(r) : i < j => ~IsCondition(r[j])
      PROVE  (r[i].state = "UNAVAILABLE") = u
  <2>1. CASE i - Len(p) \in 1..Len(q) /\ r[i] = q[i - Len(p)]
    <3>1. ASSUME NEW j \in 1..Len(q), i - Len(p) < j PROVE ~IsCondition(q[j])
      <4>1. i < j + Len(p)
        BY <1>1, <3>1
      <4> QED BY <1>1, <1>3, <4>1
    <3> QED BY <1>3, <2>1, <3>1 DEF Ends
  <2>2. CASE i \in 1..Len(p) /\ r[i] = p[i]
    <3>1. NoCondition(q)
      <4> SUFFICES ASSUME NEW j \in 1..Len(q) PROVE ~IsCondition(q[j])
        BY DEF NoCondition
      <4>1. i < j + Len(p)
        BY <1>1, <2>2
      <4> QED BY <1>1, <1>3, <4>1
    <3>2. \A j \in 1..Len(p) : i < j => ~IsCondition(p[j])
      BY <1>1, <1>3
    <3> QED BY <1>3, <2>2, <3>1, <3>2 DEF Ends
  <2> QED BY <1>1, <2>1, <2>2
<1>4. Ends(q, u) /\ (NoCondition(q) => Ends(p, u)) => Ends(r, u)
  BY <1>3 DEF Ends
<1> QED BY <1>2, <1>4 DEF r

\* A batch that has conditions has a last one.
LEMMA LastConditionExists ==
  ASSUME NEW q, Made(q), ~NoCondition(q)
  PROVE  \E i \in 1..Len(q) : IsCondition(q[i]) /\ \A j \in 1..Len(q) : i < j => ~IsCondition(q[j])
<1> DEFINE S == {i \in 1..Len(q) : IsCondition(q[i])}
<1>1. Len(q) \in Nat /\ S \in SUBSET (1..Len(q)) /\ S # {}
  BY MadeIs DEF NoCondition
<1>2. Max(S) \in S /\ \A n \in S : n <= Max(S)
  BY <1>1, MaxIs
<1> DEFINE i == Max(S)
<1>3. i \in 1..Len(q) /\ IsCondition(q[i]) /\ \A n \in S : n <= i
  BY <1>2
<1> HIDE DEF i
<1>4. ASSUME NEW j \in 1..Len(q), i < j PROVE ~IsCondition(q[j])
  <2>1. ~(j <= i)
    BY <1>1, <1>3, <1>4
  <2> QED BY <1>3, <2>1
<1> QED BY <1>3, <1>4

\* Folding a batch in leaves the flag as its last condition has it.
LEMMA FlagFolded ==
  ASSUME NEW q, Made(q), NEW l \in Ledger, NEW u \in BOOLEAN, Ends(q, u),
         NoCondition(q) => l.unavailable = u
  PROVE  FoldOf(l, q).unavailable = u
<1>1. CASE NoCondition(q)
  BY <1>1, FoldTyped DEF NoCondition
<1>2. CASE ~NoCondition(q)
  <2>1. PICK i \in 1..Len(q) : IsCondition(q[i]) /\ \A j \in 1..Len(q) : i < j => ~IsCondition(q[j])
    BY <1>2, LastConditionExists
  <2>2. FoldOf(l, q).unavailable = (q[i].state = "UNAVAILABLE")
    BY <2>1, FoldTyped
  <2> QED BY <2>1, <2>2 DEF Ends
<1> QED BY <1>1, <1>2

LEMMA LastReportExists == ASSUME Logged PROVE \E m \in 1..Len(log) : LastReport(m)
<1> DEFINE S == {n \in 1..Len(log) : IsCondition(log[n])}
<1>1. Len(log) \in Nat /\ S \in SUBSET (1..Len(log)) /\ S # {}
  <2>1. 2 \in S
    BY LogIs DEF Logged, LogTypes
  <2> QED BY <2>1, LogIs DEF Logged
<1>2. Max(S) \in S /\ \A n \in S : n <= Max(S)
  BY <1>1, MaxIs
<1>3. S = {n \in 1..Len(log) : IsCondition(log[n])}
  OBVIOUS
<1> HIDE DEF S
<1>4. LastReport(Max(S))
  BY <1>2, <1>3 DEF LastReport
<1> QED BY <1>4 DEF LastReport

\* An UNAVAILABLE sweeps: what /current lists of the condition says so all of it, or none.
LEMMA CurrentFlag ==
  ASSUME Logged, NEW m, LastReport(m), NEW s \in Reported
  PROVE  (log[s].state = "UNAVAILABLE") = (log[m].state = "UNAVAILABLE")
<1>1. Len(log) \in Nat /\ m \in 1..Len(log)
  BY LogIs DEF Logged, LastReport
<1>2. CASE \E k \in Keys : Now[k] # Clear
  <2>1. PICK k \in Keys : Now[k] # Clear
    BY <1>2
  <2>2. log[s].state \in Asserted
    BY <1>2, ReportedIs
  <2>3. log[m].state # "UNAVAILABLE"
    <3>1. SUFFICES ASSUME log[m].state = "UNAVAILABLE" PROVE FALSE
      OBVIOUS
    <3>2. Concerns(log[m], k)
      BY <3>1 DEF Concerns
    <3>3. ASSUME NEW j \in 1..Len(log), Concerns(log[j], k) PROVE j <= m
      <4>1. IsCondition(log[j])
        BY <3>3, LogIs, ObservationIs DEF Logged
      <4> QED BY <4>1 DEF LastReport
    <3>4. Latest(k, m)
      BY <1>1, <3>2, <3>3 DEF Latest
    <3>5. Now[k] = Says(log[m])
      BY <3>4, LatestSays
    <3> QED BY <2>1, <3>1, <3>5 DEF Says, Asserted
  <2> QED BY <2>2, <2>3 DEF Asserted
<1>3. CASE \A k \in Keys : Now[k] = Clear
  <2>1. PICK x \in Reported : Reported = {x} /\ \A n \in 1..Len(log) : IsCondition(log[n]) => n <= x
    BY <1>3, ReportedIs
  <2>2. s = x /\ x \in 1..Len(log) /\ IsCondition(log[x])
    BY <2>1, ReportedIs
  <2>3. m <= x /\ x <= m
    BY <1>1, <2>1, <2>2 DEF LastReport
  <2>4. s = m
    BY <1>1, <2>2, <2>3
  <2> QED BY <2>4
<1> QED BY <1>2, <1>3

LEMMA FlagExactPart ==
  ASSUME Typed, Flows, FlagExact, StreamPart
  PROVE  FlagExact'
<1>1. /\ attached \in BOOLEAN /\ Logged /\ DocTypes /\ Len(log) \in Nat
      /\ floor \in [Items -> 0..Len(log)] /\ "condition" \in Items /\ [Next]_vars
      /\ next \in Nat /\ doc.obs = <<>>
  BY LogIs DEF Typed, SessionTypes, DocTypes, Logged, Items, Next, StreamPart, Idle
<1>2. UNCHANGED <<log, agent, critical, attached, exact, reply, ledger>>
  BY DEF StreamPart
<1> DEFINE new == doc'.obs
<1>3. PICK n \in 1..Len(log) :
           /\ next' = n + 1 /\ floor' \in [Items -> 0..Len(log)] /\ Made(new)
           /\ \A item \in Items : floor'[item] = floor[item] \/ floor'[item] <= n
           /\ \A i \in 1..Len(new) :
                /\ next <= new[i].seq /\ new[i].seq <= n /\ floor[Item(new[i])] < new[i].seq
           /\ \A i, j \in 1..Len(new) : i < j /\ Item(new[i]) = Item(new[j]) => new[i].seq < new[j].seq
           /\ attached => \A x \in 1..Len(log) :
                next <= x /\ x <= n /\ floor[Item(log[x])] < x
                  => \E i \in 1..Len(new) : new[i].seq = x
  BY <1>1, PartBrings
<1> HIDE DEF new
<1>4. ASSUME exact, attached, NEW m \in 1..Len(log), LastReport(m), Reached(m)'
      PROVE  Flagged(new, critical, reply.obs, ledger.unavailable, log[m].state = "UNAVAILABLE")
  <2> DEFINE u == log[m].state = "UNAVAILABLE"
  <2>1. Item(log[m]) = "condition"
    BY <1>4 DEF LastReport, IsCondition
  <2>2. floor["condition"] \in Nat /\ floor'["condition"] \in Nat
    BY <1>1, <1>3
  <2>3. \A i \in 1..Len(new) : IsCondition(new[i]) =>
          /\ new[i].seq \in Nat /\ new[i].seq <= m /\ next <= new[i].seq
          /\ floor["condition"] < new[i].seq
    <3> SUFFICES ASSUME NEW i \in 1..Len(new), IsCondition(new[i])
                 PROVE  /\ new[i].seq \in Nat /\ new[i].seq <= m /\ next <= new[i].seq
                        /\ floor["condition"] < new[i].seq
      OBVIOUS
    <3>1. PICK x \in 1..Len(log) : x = new[i].seq /\ new[i] = log[x]
      BY <1>3, MadeIs
    <3>2. next <= x /\ floor[Item(new[i])] < x /\ Item(new[i]) = "condition"
      BY <1>3, <3>1 DEF IsCondition
    <3>3. x <= m /\ x \in Nat
      BY <1>4, <3>1 DEF LastReport
    <3> QED BY <3>1, <3>2, <3>3
  <2>4. CASE Reached(m)
    <3>1. NoCondition(new)
      BY <1>1, <2>2, <2>3, <2>4 DEF NoCondition, Reached
    <3>2. Ends(new, u)
      BY <3>1 DEF NoCondition, Ends
    <3>3. Flagged(<<>>, critical, reply.obs, ledger.unavailable, u)
      BY <1>1, <1>4, <2>4 DEF FlagExact
    <3> HIDE DEF u
    <3>4. Flagged(new, critical, reply.obs, ledger.unavailable, u)
      BY <3>1, <3>2, <3>3, NothingEnds DEF Flagged
    <3> QED BY <3>4 DEF u
  <2>5. CASE ~Reached(m)
    <3>2. next <= m /\ floor["condition"] < m
      BY <1>1, <2>2, <2>5 DEF Reached
    <3>3. m < n + 1 \/ m <= floor'["condition"]
      BY <1>3, <1>4 DEF Reached
    <3>4. m <= n
      BY <1>1, <1>3, <2>2, <3>2, <3>3
    <3>5. PICK x \in 1..Len(new) : new[x].seq = m
      BY <1>3, <1>4, <2>1, <3>2, <3>4
    <3>6. new[x] = log[m] /\ IsCondition(new[x])
      BY <1>3, <1>4, <3>5, MadeIs DEF LastReport
    <3>7. Ends(new, u)
      <4> SUFFICES ASSUME NEW i \in 1..Len(new), IsCondition(new[i]),
                          \A j \in 1..Len(new) : i < j => ~IsCondition(new[j])
                   PROVE  (new[i].state = "UNAVAILABLE") = u
        BY DEF Ends
      <4>1. ~(i < x)
        BY <3>6
      <4>2. ~(x < i)
        <5>1. SUFFICES ASSUME x < i PROVE FALSE
          OBVIOUS
        <5>2. Item(new[x]) = Item(new[i])
          BY <3>6 DEF IsCondition
        <5>3. new[x].seq < new[i].seq
          BY <1>3, <5>1, <5>2
        <5> QED BY <1>1, <2>3, <3>5, <5>3
      <4>3. i = x
        <5>1. Len(new) \in Nat
          BY <1>3, MadeIs
        <5> QED BY <4>1, <4>2, <5>1
      <4> QED BY <3>6, <4>3
    <3>8. ~NoCondition(new)
      BY <3>6 DEF NoCondition
    <3> HIDE DEF u
    <3>9. Flagged(new, critical, reply.obs, ledger.unavailable, u)
      BY <3>7, <3>8 DEF Flagged
    <3> QED BY <3>9 DEF u
  <2> QED BY <2>4, <2>5
<1> QED BY <1>1, <1>2, <1>4, FlagExactFrom DEF new

LEMMA FlagExactServe ==
  ASSUME Typed, Flows, FlagExact, ServeAttach
  PROVE  FlagExact'
<1>1. /\ Logged /\ Made(critical) /\ [Next]_vars /\ doc.obs = <<>>
  BY DEF Typed, DocTypes, SessionTypes, Next, ServeAttach, Idle
<1>2. UNCHANGED <<log, doc, attached, ledger, reply>>
  BY DEF ServeAttach
<1>3. ASSUME exact', attached, NEW m \in 1..Len(log), LastReport(m)
      PROVE  Flagged(doc.obs, critical', reply.obs, ledger.unavailable,
                     log[m].state = "UNAVAILABLE")
  <2> DEFINE C == Current
             u == log[m].state = "UNAVAILABLE"
  <2>1. critical = <<>> /\ critical' = critical \o C
    BY <1>3 DEF ServeAttach, ToCritical
  <2>2. /\ Made(C) /\ Len(C) \in Nat /\ 2 <= Len(C)
        /\ \A i \in 1..Len(C) : i # 1 => IsCondition(C[i]) /\ C[i].seq \in Reported
        /\ ~IsCondition(C[1])
    BY <1>1, CurrentIs
  <2> HIDE DEF C
  <2>3. critical' = C
    <3>1. C \in Seq(Observation)
      BY <2>2, MadeIs
    <3> QED BY <2>1, <3>1
  <2>4. Ends(C, u)
    <3> SUFFICES ASSUME NEW i \in 1..Len(C), IsCondition(C[i])
                 PROVE  (C[i].state = "UNAVAILABLE") = u
      BY DEF Ends
    <3>1. C[i].seq \in Reported /\ C[i] = log[C[i].seq]
      BY <2>2, MadeIs
    <3> QED BY <1>1, <1>3, <3>1, CurrentFlag
  <2>5. ~NoCondition(C)
    <3>1. 2 \in 1..Len(C) /\ IsCondition(C[2])
      BY <2>2
    <3> QED BY <3>1 DEF NoCondition
  <2> HIDE DEF u
  <2>6. Flagged(doc.obs, critical', reply.obs, ledger.unavailable, u)
    BY <1>1, <2>3, <2>4, <2>5, NothingEnds DEF Flagged
  <2> QED BY <2>6 DEF u
<1> QED BY <1>1, <1>2, <1>3, FlagExactFrom

LEMMA FlagExactDispatch ==
  ASSUME Typed, Flows, FlagExact, DispatchObs \/ DispatchSnapshot \/ CycleDone
  PROVE  FlagExact'
<1>0. DispatchObs \/ DispatchSnapshot \/ CycleDone
  OBVIOUS
<1>1. /\ Made(critical) /\ Made(doc.obs) /\ Logged /\ [Next]_vars /\ "obs" \in DOMAIN doc
  BY DEF Typed, DocTypes, SessionTypes, Next
<1>2. UNCHANGED <<log, agent, next, floor, attached, exact, ledger, reply>>
  BY DEF DispatchObs, DispatchSnapshot, CycleDone
<1>3. ASSUME exact, attached, NEW m \in 1..Len(log), LastReport(m), Reached(m)
      PROVE  Flagged(doc'.obs, critical', reply.obs, ledger.unavailable,
                     log[m].state = "UNAVAILABLE")
  <2> DEFINE u == log[m].state = "UNAVAILABLE"
  <2>1. Flagged(doc.obs, critical, reply.obs, ledger.unavailable, u)
    BY <1>3 DEF FlagExact
  <2> HIDE DEF u
  <2>2. ASSUME DispatchObs PROVE Flagged(doc'.obs, critical', reply.obs, ledger.unavailable, u)
    <3> DEFINE h == <<Head(doc.obs)>>
               t == Tail(doc.obs)
    <3>1. doc.obs # <<>>
      BY <2>2 DEF DispatchObs
    <3>2. /\ Made(h) /\ Made(t) /\ 1 \in 1..Len(doc.obs) /\ Head(doc.obs) = doc.obs[1]
          /\ \A i \in 1..Len(t) : i + 1 \in 1..Len(doc.obs) /\ t[i] = doc.obs[i + 1]
          /\ \A i \in 1..Len(doc.obs) : i = 1 \/ (i - 1 \in 1..Len(t) /\ t[i - 1] = doc.obs[i])
          /\ Len(t) = Len(doc.obs) - 1 /\ Len(doc.obs) \in Nat
      BY <1>1, <3>1, MadeTail, MadeIs
    <3>3. Len(h) = 1 /\ h[1] = doc.obs[1] /\ 1..1 = {1}
      BY <3>2
    <3>4. IF IsCondition(doc.obs[1]) THEN critical' = critical \o h ELSE critical' = critical
      BY <1>3, <2>2, <3>2 DEF DispatchObs, ToCritical
    <3>5. doc'.obs = t
      <4>1. CASE Len(doc.obs) = 1 /\ doc.kind = "part"
        <5>1. doc'.obs = <<>>
          BY <2>2, <4>1 DEF DispatchObs, NoDoc
        <5>2. t \in Seq(Observation)
          BY <3>2, MadeIs
        <5>3. Len(t) = 0
          BY <3>2, <4>1
        <5>4. t = <<>>
          BY <5>2, <5>3, EmptySeq
        <5> QED BY <5>1, <5>4
      <4>2. CASE ~(Len(doc.obs) = 1 /\ doc.kind = "part")
        <5>1. doc' = [doc EXCEPT !.obs = t]
          BY <2>2, <4>2 DEF DispatchObs
        <5> HIDE DEF t
        <5> QED BY <1>1, <5>1
      <4> QED BY <4>1, <4>2
    <3> HIDE DEF h, t
    <3>6. NoCondition(doc.obs) <=> ~IsCondition(doc.obs[1]) /\ NoCondition(t)
      BY <3>2 DEF NoCondition
    <3>7. Ends(t, u)
      <4> SUFFICES ASSUME NEW i \in 1..Len(t), IsCondition(t[i]),
                          \A j \in 1..Len(t) : i < j => ~IsCondition(t[j])
                   PROVE  (t[i].state = "UNAVAILABLE") = u
        BY DEF Ends
      <4>1. ASSUME NEW j \in 1..Len(doc.obs), i + 1 < j PROVE ~IsCondition(doc.obs[j])
        <5>1. j - 1 \in 1..Len(t) /\ t[j - 1] = doc.obs[j] /\ i < j - 1
          BY <3>2, <4>1
        <5> QED BY <5>1
      <4>2. i + 1 \in 1..Len(doc.obs) /\ t[i] = doc.obs[i + 1]
        BY <3>2
      <4> QED BY <2>1, <4>1, <4>2 DEF Flagged, Ends
    <3>8. CASE IsCondition(doc.obs[1])
      <4>1. critical' = critical \o h /\ ~NoCondition(h)
        BY <3>3, <3>4, <3>8 DEF NoCondition
      <4>2. ~NoCondition(critical')
        BY <1>1, <3>2, <4>1, EndsJoin
      <4>3. NoCondition(t) => Ends(h, u)
        <5> SUFFICES ASSUME NoCondition(t) PROVE (h[1].state = "UNAVAILABLE") = u
          BY <3>3 DEF Ends
        <5>1. ASSUME NEW j \in 1..Len(doc.obs), 1 < j PROVE ~IsCondition(doc.obs[j])
          <6>1. j - 1 \in 1..Len(t) /\ t[j - 1] = doc.obs[j]
            BY <3>2, <5>1
          <6> QED BY <6>1 DEF NoCondition
        <5> QED BY <2>1, <3>2, <3>3, <3>8, <5>1 DEF Flagged, Ends
      <4>4. NoCondition(t) => Ends(critical', u)
        BY <1>1, <3>2, <4>1, <4>3, EndsJoin
      <4> QED BY <3>5, <3>7, <4>2, <4>4 DEF Flagged
    <3>9. CASE ~IsCondition(doc.obs[1])
      BY <2>1, <3>4, <3>5, <3>6, <3>7, <3>9 DEF Flagged
    <3> QED BY <3>8, <3>9
  <2>3. ASSUME DispatchSnapshot PROVE Flagged(doc'.obs, critical', reply.obs, ledger.unavailable, u)
    <3>1. critical' = critical \o doc.obs /\ doc'.obs = <<>>
      BY <1>1, <1>3, <2>3 DEF DispatchSnapshot, ToCritical
    <3>2. Ends(critical', u)
      BY <1>1, <2>1, <3>1, EndsJoin DEF Flagged
    <3>3. NoCondition(critical') <=> NoCondition(critical) /\ NoCondition(doc.obs)
      BY <1>1, <3>1, EndsJoin
    <3> QED BY <2>1, <3>1, <3>2, <3>3, NothingEnds DEF Flagged
  <2>4. ASSUME CycleDone PROVE Flagged(doc'.obs, critical', reply.obs, ledger.unavailable, u)
    <3>1. critical' = critical /\ doc'.obs = doc.obs
      BY <2>4 DEF CycleDone, NoDoc
    <3> QED BY <2>1, <3>1
  <2>5. Flagged(doc'.obs, critical', reply.obs, ledger.unavailable, u)
    BY <1>0, <2>2, <2>3, <2>4
  <2> QED BY <2>5 DEF u
<1>4. \A m : Reached(m)' <=> Reached(m)
  BY <1>2 DEF Reached
<1> QED BY <1>1, <1>2, <1>3, <1>4, FlagExactFrom

LEMMA FlagExactSession ==
  ASSUME Typed, Flows, FlagExact, Read \/ Ask \/ Served
  PROVE  FlagExact'
<1>1. /\ Made(critical) /\ Made(data) /\ Made(reply.obs) /\ Logged /\ ledger \in Ledger /\ [Next]_vars
      /\ \A i \in 1..Len(data) : ~IsCondition(data[i])
  BY DEF Typed, SessionTypes, Next
<1>2. UNCHANGED <<log, agent, next, floor, doc, attached, exact>>
  BY DEF Read, Ask, Served
<1>3. ASSUME exact, attached, NEW m \in 1..Len(log), LastReport(m), Reached(m)
      PROVE  Flagged(doc.obs, critical', reply'.obs, ledger'.unavailable,
                     log[m].state = "UNAVAILABLE")
  <2> DEFINE u == log[m].state = "UNAVAILABLE"
  <2>0. u \in BOOLEAN
    OBVIOUS
  <2>1. Flagged(doc.obs, critical, reply.obs, ledger.unavailable, u)
    BY <1>3 DEF FlagExact
  <2>2. CASE Read
    <3> HIDE DEF u
    <3> DEFINE r == critical \o data
    <3>1. /\ critical' = <<>> /\ reply' = reply /\ reply.obs = <<>> /\ ledger' = FoldOf(ledger, r)
      BY <2>2 DEF Read, NoReply, FoldIn, FoldOf
    <3>2. /\ Made(r) /\ (NoCondition(r) <=> NoCondition(critical))
          /\ Ends(critical, u) => Ends(r, u)
      <4>1. NoCondition(data) /\ Ends(data, u)
        BY <1>1 DEF NoCondition, Ends
      <4> QED BY <1>1, <4>1, EndsJoin, MadeJoins
    <3> HIDE DEF r
    <3>3. ASSUME NoCondition(doc.obs) PROVE ledger'.unavailable = u
      <4>1. Ends(r, u)
        BY <2>1, <3>2, <3>3 DEF Flagged
      <4>2. NoCondition(r) => ledger.unavailable = u
        BY <2>1, <3>1, <3>2, <3>3, NothingEnds DEF Flagged
      <4> QED BY <1>1, <2>0, <3>1, <3>2, <4>1, <4>2, FlagFolded
    <3>4. Flagged(doc.obs, critical', reply'.obs, ledger'.unavailable, u)
      BY <2>1, <3>1, <3>3, NothingEnds DEF Flagged
    <3> QED BY <3>4 DEF u
  <2>3. CASE Ask
    <3>1. critical' = critical /\ ledger' = ledger
      BY <2>3 DEF Ask
    <3> DEFINE r == reply'.obs
    <3>2. /\ \A i \in 1..Len(r) : \E p \in 1..Len(Current) : r[i] = Current[p]
          /\ Made(r)
          /\ \A p \in 1..Len(Current) : IsCondition(Current[p]) => \E i \in 1..Len(r) : r[i] = Current[p]
      BY <2>3, AskBrings
    <3> HIDE DEF r
    <3>3. /\ Len(Current) \in Nat /\ 2 <= Len(Current)
          /\ \A i \in 1..Len(Current) : i # 1 => IsCondition(Current[i]) /\ Current[i].seq \in Reported
          /\ ~IsCondition(Current[1])
      BY <1>1, CurrentIs
    <3>4. Ends(r, u)
      <4> SUFFICES ASSUME NEW i \in 1..Len(r), IsCondition(r[i])
                   PROVE  (r[i].state = "UNAVAILABLE") = u
        BY DEF Ends
      <4>1. r[i].seq \in Reported /\ r[i] = log[r[i].seq]
        BY <3>2, <3>3, MadeIs
      <4> QED BY <1>1, <1>3, <4>1, CurrentFlag
    <3>5. ~NoCondition(r)
      <4>1. 2 \in 1..Len(Current) /\ IsCondition(Current[2])
        BY <3>3
      <4> QED BY <3>2, <4>1 DEF NoCondition
    <3> HIDE DEF u
    <3>6. Flagged(doc.obs, critical, r, ledger.unavailable, u)
      BY <2>1, <3>4, <3>5 DEF Flagged
    <3> QED BY <3>1, <3>6 DEF u, r
  <2>4. CASE Served
    <3> HIDE DEF u
    <3> DEFINE r == reply.obs
    <3>1. critical' = critical /\ reply'.obs = <<>> /\ ledger' = FoldOf(ledger, r)
      BY <2>4 DEF Served, NoReply, FoldIn, FoldOf
    <3>2. Made(r)
      BY <1>1
    <3> HIDE DEF r
    <3>3. ASSUME NoCondition(doc.obs), NoCondition(critical) PROVE ledger'.unavailable = u
      <4>1. Ends(r, u) /\ (NoCondition(r) => ledger.unavailable = u)
        BY <2>1, <3>3 DEF Flagged, r
      <4> QED BY <1>1, <2>0, <3>1, <3>2, <4>1, FlagFolded
    <3>4. Flagged(doc.obs, critical', reply'.obs, ledger'.unavailable, u)
      BY <2>1, <3>1, <3>3, NothingEnds DEF Flagged
    <3> QED BY <3>4 DEF u
  <2> QED BY <2>2, <2>3, <2>4
<1>4. \A m : Reached(m)' <=> Reached(m)
  BY <1>2 DEF Reached
<1> QED BY <1>1, <1>2, <1>3, <1>4, FlagExactFrom

LEMMA FlagExactNext ==
  ASSUME Typed, Flows, FlagExact, [Next]_vars
  PROVE  FlagExact'
<1>1. CASE Poll \/ Reopen \/ Recover \/ DropObs \/ DropSnapshot \/ Attach \/ Detach
  <2>1. ~(exact' /\ attached')
    BY <1>1, DropIs DEF Poll, Reopen, Recover, Cycle, Attach, Detach
  <2> QED BY <2>1 DEF FlagExact
<1>2. CASE ServeAttachUndelivered \/ ServeAttachFailed \/ Observe \/ UNCHANGED vars
  <2>1. UNCHANGED <<next, floor, doc, critical, attached, exact, ledger, reply>>
    BY <1>2 DEF ServeAttachUndelivered, ServeAttachFailed, Observe, vars
  <2>2. ASSUME exact, attached, NEW m \in 1..Len(log), LastReport(m), Reached(m)'
        PROVE  Flagged(doc.obs, critical, reply.obs, ledger.unavailable,
                       log[m].state = "UNAVAILABLE")
    BY <2>1, <2>2 DEF FlagExact, Reached
  <2> QED BY <2>1, <2>2, FlagExactFrom
<1> QED BY <1>1, <1>2, FlagExactPart, FlagExactServe, FlagExactDispatch, FlagExactSession DEF Next

LEMMA ExactMeans ==
  ASSUME Typed, Flows, KeysExact, FlagExact
  PROVE  ExactWhileStreaming
<1> SUFFICES ASSUME exact, Quiesced
             PROVE  /\ ledger.active = Now
                    /\ ledger.unavailable = (log[Max(Activations)].state = "UNAVAILABLE")
  BY DEF ExactWhileStreaming
<1>1. /\ Logged /\ Len(log) \in Nat /\ next \in Nat /\ attached /\ next > Len(log)
      /\ Made(critical) /\ Made(data) /\ doc.obs = <<>> /\ critical \o data = <<>>
      /\ reply = NoReply /\ reply.obs = <<>> /\ ledger \in Ledger
  BY LogIs DEF Typed, Logged, DocTypes, SessionTypes, Quiesced, Idle, NoReply
<1>2. critical = <<>>
  <2>1. Len(critical) = 0
    <3>1. Len(critical \o data) = Len(critical) + Len(data) /\ Len(critical \o data) = 0
      BY <1>1, MadeJoins, MadeNothing
    <3>2. Len(critical) \in Nat /\ Len(data) \in Nat
      BY <1>1, MadeIs
    <3> QED BY <3>1, <3>2
  <2>2. critical \in Seq(Observation)
    BY <1>1, MadeIs
  <2> QED BY <2>1, <2>2, EmptySeq
<1>3. \A i \in 1..Len(log) : Reached(i)
  BY <1>1 DEF Reached
<1>4. \A i : ~Pending(i)
  BY <1>1, <1>2, NothingFlows DEF Pending, Holds
<1>5. ASSUME NEW k \in Keys PROVE ledger.active[k] = Now[k]
  <2>1. PICK i \in 1..Len(log) : Latest(k, i)
    <3>1. Concerns(log[2], k) /\ 2 \in 1..Len(log)
      BY <1>1, LogIs DEF Logged, SaidSo
    <3> QED BY <1>1, <3>1, LatestExists
  <2>2. Certain(k, i)
    BY <1>1, <1>3, <2>1 DEF KeysExact
  <2>3. PICK p \in i..Len(log) : ledger.active[k] = agent[p][k]
    BY <1>4, <2>2 DEF Certain
  <2> QED BY <1>1, <2>1, <2>3, LatestSays
<1>6. ledger.active = Now
  <2>1. ledger.active \in [Keys -> Asserted \cup {Clear}]
    BY <1>1 DEF Ledger
  <2>2. Now \in [Keys -> Asserted \cup {Clear}]
    <3>1. Len(agent) = Len(log) /\ Len(log) \in 1..Len(log)
      BY <1>1, LogIs DEF Logged, LogTypes
    <3> QED BY <1>1, <3>1, LogIs DEF Logged, Now
  <2> QED BY <1>5, <2>1, <2>2
<1>7. PICK m \in 1..Len(log) : LastReport(m)
  BY <1>1, LastReportExists
<1>8. ledger.unavailable = (log[m].state = "UNAVAILABLE")
  <2> DEFINE u == log[m].state = "UNAVAILABLE"
  <2>1. Flagged(<<>>, <<>>, <<>>, ledger.unavailable, u)
    BY <1>1, <1>2, <1>3, <1>7 DEF FlagExact
  <2> HIDE DEF u
  <2>2. ledger.unavailable = u
    BY <2>1, NothingEnds DEF Flagged
  <2> QED BY <2>2 DEF u
<1>9. Max(Activations) = m
  <2>1. Activations \in SUBSET (1..Len(log)) /\ m \in Activations /\ \A n \in Activations : n <= m
    BY <1>1, <1>7, LogIs DEF Activations, LastReport, Logged
  <2>2. Max(Activations) \in Activations /\ \A n \in Activations : n <= Max(Activations)
    BY <1>1, <2>1, MaxIs
  <2>3. PICK g \in 1..Len(log) : g = Max(Activations)
    BY <2>1, <2>2
  <2>4. m <= g /\ g <= m
    BY <2>1, <2>2, <2>3
  <2> QED BY <1>1, <2>3, <2>4
<1> QED BY <1>6, <1>8, <1>9

\* A session fed by one unbroken stream after its attach snapshot, with nothing dropped on
\* its way, comes to show exactly what stands: nothing cleared is left standing, and the
\* data item's own say is right.
THEOREM StreamedIsExact == Spec => []ExactWhileStreaming
<1>1. Init => KeysExact /\ FlagExact
  BY DEF Init, KeysExact, FlagExact
<1>2. Typed /\ Typed' /\ Flows /\ KeysExact /\ FlagExact /\ [Next]_vars => KeysExact' /\ FlagExact'
  BY KeysExactNext, FlagExactNext
<1>3. Typed /\ Flows /\ KeysExact /\ FlagExact => ExactWhileStreaming
  BY ExactMeans
<1> QED BY <1>1, <1>2, <1>3, FlowsHolds, PTL DEF Spec

----------------------------------------------------------------------------
(* A Fault degrades what follows it.                                       *)

\* A value on its way that was observed more than a part after a report still standing: the
\* stream is past the report, and the report is no longer in the document.
Behind(q, d) ==
  \A p \in 1..Len(q) : ~IsCondition(q[p]) =>
    \A k \in Keys : \A i \in 1..Len(log) :
      Latest(k, i) /\ Now[k] # Clear /\ i + MaxPart <= q[p].seq => Reached(i) /\ ~Holds(d, i)

Led == exact /\ attached => /\ Behind(critical, doc.obs) /\ Behind(data, doc.obs)
                            /\ Behind(doc.obs, doc.obs)

\* A served read has the reports that its value follows.
Accompanied ==
  \A p \in 1..Len(reply.obs) : ~IsCondition(reply.obs[p]) =>
    \A k \in Keys : \A i \in 1..Len(log) :
      Latest(k, i) /\ Now[k] # Clear /\ i <= reply.obs[p].seq => Holds(reply.obs, i)

LEMMA AccompaniedNext ==
  ASSUME Typed, Typed', Flows, Accompanied, [Next]_vars
  PROVE  Accompanied'
<1>1. /\ Logged /\ Len(log) \in Nat /\ Made(reply.obs)
      /\ \A n \in 1..Len(log) : n \in 1..Len(log') /\ log'[n] = log[n]
  BY LogIs, LogGrows DEF Typed, SessionTypes, Logged
<1>2. CASE UNCHANGED reply
  <2> SUFFICES ASSUME NEW p \in 1..Len(reply.obs), ~IsCondition(reply.obs[p]), NEW k \in Keys,
                      NEW i \in 1..Len(log'), Latest(k, i)', Now'[k] # Clear,
                      i <= reply.obs[p].seq
               PROVE  Holds(reply.obs, i)
    BY <1>2 DEF Accompanied, Holds, IsCondition, Item
  <2>1. reply.obs[p].seq \in 1..Len(log)
    BY <1>1, MadeIs
  <2>2. Len(log') \in Nat
    BY LogGrows DEF Typed
  <2>3. i \in 1..Len(log)
    BY <1>1, <2>1, <2>2
  <2>4. Latest(k, i) /\ Now[k] # Clear
    BY <2>3, LatestWas
  <2> QED BY <2>3, <2>4 DEF Accompanied
<1>3. CASE Ask
  <2>1. UNCHANGED <<log, agent>>
    BY <1>3 DEF Ask
  <2>2. ASSUME NEW k \in Keys, NEW i \in 1..Len(log), Latest(k, i), Now[k] # Clear
        PROVE  Holds(reply'.obs, i)
    <3>1. PICK p \in 1..Len(Current) : Current[p].seq = i /\ IsCondition(Current[p])
      BY <1>1, <2>2, ReportedHasLatest
    <3>2. \E x \in 1..Len(reply'.obs) : reply'.obs[x] = Current[p]
      BY <1>3, <3>1, AskBrings
    <3> QED BY <3>1, <3>2 DEF Holds
  <2>3. \A k, i : Latest(k, i)' <=> Latest(k, i)
    BY <2>1 DEF Latest
  <2>4. Now' = Now
    BY <2>1 DEF Now
  <2> QED BY <2>1, <2>2, <2>3, <2>4 DEF Accompanied, Holds
<1>4. CASE Served
  <2>1. reply'.obs = <<>>
    BY <1>4 DEF Served, NoReply
  <2> QED BY <2>1, NothingFlows DEF Accompanied
<1> QED BY <1>2, <1>3, <1>4, DropIs DEF Next, Observe, StreamPart, Poll, Reopen, Recover, Cycle,
        DispatchObs, DispatchSnapshot, CycleDone, ServeAttach, ServeAttachUndelivered,
        ServeAttachFailed, Attach, Detach, Read, vars

\* What stands throughout was said by then.
LEMMA SaidByThen ==
  ASSUME Logged, NEW k \in Keys, NEW v \in 1..Len(log), StandsThrough(k, v), NEW i, Latest(k, i)
  PROVE  i <= v /\ Now[k] = "FAULT" /\ Says(log[i]) = "FAULT"
<1>1. /\ Len(log) \in Nat /\ i \in 1..Len(log) /\ Concerns(log[i], k)
      /\ Len(log) \in v..Len(log) /\ Len(agent) = Len(log)
  BY LogIs DEF Logged, LogTypes, Latest
<1>2. Now[k] = "FAULT" /\ Says(log[i]) = "FAULT"
  <2>1. Now[k] = "FAULT"
    BY <1>1 DEF Now, StandsThrough
  <2> QED BY <2>1, LatestSays
<1>3. i <= v
  <2> SUFFICES ASSUME ~(i <= v) PROVE FALSE
    OBVIOUS
  <2>1. i - 1 \in v..Len(log) /\ i \in v..Len(log) /\ i - 1 \in 1..Len(log) /\ i = (i - 1) + 1
    BY <1>1
  <2>2. agent[i - 1][k] = "FAULT" /\ agent[i][k] = "FAULT"
    BY <2>1 DEF StandsThrough
  <2>3. log[i].state \in Asserted
    BY <1>2 DEF Says, Asserted, Clear
  <2>4. agent[i][k] # agent[i - 1][k]
    BY <1>1, <2>1, <2>3 DEF Logged, SaidSo
  <2> QED BY <2>2, <2>4
<1> QED BY <1>2, <1>3

\* A ledger with a Fault degrades to BAD.
LEMMA FaultIsBad ==
  ASSUME NEW l, NEW k \in Keys, l.active[k] = "FAULT"
  PROVE  Degraded(l) = "BAD"
<1>1. aggregate(l) = "FAULT"
  <2>1. (\E x \in Keys : l.active[x] = "FAULT") <=> TRUE
    OBVIOUS
  <2>2. (\A x \in Keys : l.active[x] # "FAULT") <=> FALSE
    OBVIOUS
  <2>3. (Active(l) = {}) <=> FALSE
    <3>1. k \in Active(l)
      BY DEF Active, Clear
    <3> QED BY <3>1
  <2> QED BY <2>1, <2>2, <2>3 DEF aggregate
<1>2. condition_quality(aggregate(l)) = "BAD"
  BY <1>1 DEF condition_quality
<1>3. severity_of("BAD") = 2 /\ severity_of("GOOD") = 0
  BY DEF severity_of
<1> QED BY <1>2, <1>3 DEF Degraded, Worse

\* What a batch publishes is its last value.
LEMMA PublishIs ==
  ASSUME NEW q, Made(q), Publish(q), shown' # shown
  PROVE  \E p \in 1..Len(q) : /\ ~IsCondition(q[p]) /\ shown'.seq = q[p].seq
                              /\ shown'.q = Degraded(ledger')
<1>1. Values_(q) # <<>> /\ shown' = [seq |-> Last(Values_(q)).seq, q |-> Degraded(ledger')]
  BY DEF Publish
<1>2. PICK p \in 1..Len(q) : ~IsCondition(q[p]) /\ Last(Values_(q)) = q[p]
  BY <1>1, ValuesIs
<1> QED BY <1>1, <1>2

LEMMA LedFrom ==
  ASSUME UNCHANGED <<log, agent>>,
         exact' /\ attached' =>
           \A q \in {critical', data', doc'.obs} : \A p \in 1..Len(q) : ~IsCondition(q[p]) =>
             \A k \in Keys : \A i \in 1..Len(log) :
               Latest(k, i) /\ Now[k] # Clear /\ i + MaxPart <= q[p].seq
                 => Reached(i)' /\ ~Holds(doc'.obs, i)
  PROVE  Led'
<1>1. \A k, i : Latest(k, i)' <=> Latest(k, i)
  BY DEF Latest
<1>2. Now' = Now
  BY DEF Now
<1>3. ASSUME exact', attached', NEW q \in {critical', data', doc'.obs}, NEW p \in 1..Len(q),
             ~IsCondition(q[p]), NEW k \in Keys, NEW i \in 1..Len(log'),
             Latest(k, i)', Now'[k] # Clear, i + MaxPart <= q[p].seq
      PROVE  Reached(i)' /\ ~Holds(doc'.obs, i)
  BY <1>1, <1>2, <1>3
<1>4. ASSUME exact', attached' PROVE Behind(critical, doc.obs)'
  BY <1>3, <1>4 DEF Behind, Holds, IsCondition, Item
<1>5. ASSUME exact', attached' PROVE Behind(data, doc.obs)'
  BY <1>3, <1>5 DEF Behind, Holds, IsCondition, Item
<1>6. ASSUME exact', attached' PROVE Behind(doc.obs, doc.obs)'
  BY <1>3, <1>6 DEF Behind, Holds, IsCondition, Item
<1> QED BY <1>4, <1>5, <1>6 DEF Led

LEMMA LedPart ==
  ASSUME Typed, Flows, Led, StreamPart
  PROVE  Led'
<1>1. /\ attached \in BOOLEAN /\ Logged /\ DocTypes /\ Len(log) \in Nat
      /\ floor \in [Items -> 0..Len(log)] /\ "condition" \in Items /\ [Next]_vars
      /\ next \in Nat /\ doc.obs = <<>> /\ Made(critical) /\ Made(data)
  BY LogIs DEF Typed, SessionTypes, DocTypes, Logged, Items, Next, StreamPart, Idle
<1>2. UNCHANGED <<log, agent, critical, data, attached, exact>>
  BY DEF StreamPart
<1> DEFINE new == doc'.obs
<1>3. PICK n \in 1..Len(log) :
           /\ n < next + MaxPart /\ next' = n + 1 /\ Made(new)
           /\ \A i \in 1..Len(new) :
                /\ next <= new[i].seq /\ new[i].seq <= n /\ floor[Item(new[i])] < new[i].seq
  BY <1>1, PartBrings
<1> HIDE DEF new
<1>4. ASSUME NEW k \in Keys, NEW i \in 1..Len(log), Latest(k, i), Reached(i)
      PROVE  Reached(i)' /\ ~Holds(new, i)
  <2>1. Reached(i)'
    BY <1>1, <1>4, ReachedStays
  <2>2. ASSUME NEW p \in 1..Len(new), new[p].seq = i PROVE FALSE
    <3>1. new[p] = log[i]
      BY <1>3, <2>2, MadeIs
    <3>2. Item(new[p]) = "condition"
      BY <1>1, <1>4, <3>1, LogIs, ObservationIs DEF Logged, Latest, IsCondition
    <3>3. next <= i /\ floor["condition"] < i
      BY <1>3, <2>2, <3>2
    <3>4. floor["condition"] \in Nat /\ i \in Nat
      BY <1>1
    <3> QED BY <1>1, <1>4, <3>3, <3>4 DEF Reached
  <2> QED BY <2>1, <2>2 DEF Holds
<1>5. ASSUME exact, attached, NEW q \in {critical, data, new}, NEW p \in 1..Len(q),
             ~IsCondition(q[p]), NEW k \in Keys, NEW i \in 1..Len(log),
             Latest(k, i), Now[k] # Clear, i + MaxPart <= q[p].seq
      PROVE  Reached(i)' /\ ~Holds(new, i)
  <2>1. CASE q \in {critical, data}
    <3>1. Reached(i)
      BY <1>5, <2>1 DEF Led, Behind
    <3> QED BY <1>4, <1>5, <3>1
  <2>2. CASE q = new
    <3>1. new[p].seq <= n /\ new[p].seq \in Nat /\ i \in Nat /\ MaxPart \in Nat /\ n \in Nat
      BY <1>1, <1>3, <1>5, <2>2, MadeIs
    <3>2. i < next
      BY <1>1, <1>3, <1>5, <2>2, <3>1
    <3> QED BY <1>4, <1>5, <3>2 DEF Reached
  <2> QED BY <1>5, <2>1, <2>2
<1> QED BY <1>2, <1>5, LedFrom DEF new

LEMMA LedDispatch ==
  ASSUME Typed, Typed', Flows, Led, DispatchObs \/ DispatchSnapshot \/ CycleDone
  PROVE  Led'
<1>1. /\ Made(critical) /\ Made(data) /\ Made(doc.obs) /\ "obs" \in DOMAIN doc
  BY DEF Typed, DocTypes, SessionTypes
<1>2. UNCHANGED <<log, agent, next, floor, attached, exact>>
  BY DEF DispatchObs, DispatchSnapshot, CycleDone
\* What is in a lane or the document afterwards was in one of them before.
<1>3. ASSUME attached, NEW q \in {critical', data', doc'.obs}, NEW p \in 1..Len(q)
      PROVE  \E r \in {critical, data, doc.obs} : \E x \in 1..Len(r) : q[p] = r[x]
  <2>1. CASE DispatchObs
    <3> DEFINE h == <<Head(doc.obs)>>
               t == Tail(doc.obs)
    <3>1. doc.obs # <<>>
      BY <2>1 DEF DispatchObs
    <3>2. /\ Made(h) /\ 1 \in 1..Len(doc.obs) /\ Head(doc.obs) = doc.obs[1]
          /\ \A i \in 1..Len(t) : i + 1 \in 1..Len(doc.obs) /\ t[i] = doc.obs[i + 1]
      BY <1>1, <3>1, MadeTail
    <3>3. Len(h) = 1 /\ h[1] = doc.obs[1] /\ 1..1 = {1}
      BY <3>2
    <3>4. critical' \in {critical, critical \o h} /\ data' \in {data, data \o h}
      BY <2>1 DEF DispatchObs, ToCritical, ToData
    <3>5. doc'.obs = t \/ doc'.obs = <<>>
      <4>1. doc' = NoDoc \/ doc' = [doc EXCEPT !.obs = t]
        BY <2>1 DEF DispatchObs
      <4> HIDE DEF t
      <4> QED BY <1>1, <4>1 DEF NoDoc
    <3> HIDE DEF h, t
    <3>6. ASSUME q = critical \o h PROVE \E r \in {critical, doc.obs} : \E x \in 1..Len(r) : q[p] = r[x]
      <4>1. \/ p \in 1..Len(critical) /\ q[p] = critical[p]
            \/ p - Len(critical) \in 1..Len(h) /\ q[p] = h[p - Len(critical)]
        BY <1>1, <1>3, <3>2, <3>6, MadeJoins
      <4> QED BY <3>2, <3>3, <4>1
    <3>7. ASSUME q = data \o h PROVE \E r \in {data, doc.obs} : \E x \in 1..Len(r) : q[p] = r[x]
      <4>1. \/ p \in 1..Len(data) /\ q[p] = data[p]
            \/ p - Len(data) \in 1..Len(h) /\ q[p] = h[p - Len(data)]
        BY <1>1, <1>3, <3>2, <3>7, MadeJoins
      <4> QED BY <3>2, <3>3, <4>1
    <3>8. CASE q \in {critical, data}
      BY <1>3, <3>8
    <3>9. CASE q = t
      BY <1>3, <3>2, <3>9
    <3>10. CASE q = <<>>
      BY <1>3, <3>10, NothingFlows
    <3> QED BY <1>3, <3>4, <3>5, <3>6, <3>7, <3>8, <3>9, <3>10
  <2>2. CASE DispatchSnapshot
    <3>1. critical' = critical \o doc.obs /\ doc'.obs = <<>> /\ data' = data
      BY <1>1, <1>3, <2>2 DEF DispatchSnapshot, ToCritical
    <3>2. ASSUME q = critical \o doc.obs
          PROVE  \E r \in {critical, doc.obs} : \E x \in 1..Len(r) : q[p] = r[x]
      <4>1. \/ p \in 1..Len(critical) /\ q[p] = critical[p]
            \/ p - Len(critical) \in 1..Len(doc.obs) /\ q[p] = doc.obs[p - Len(critical)]
        BY <1>1, <1>3, <3>2, MadeJoins
      <4> QED BY <4>1
    <3>3. CASE q = <<>>
      BY <1>3, <3>3, NothingFlows
    <3> QED BY <1>3, <3>1, <3>2, <3>3
  <2>3. CASE CycleDone
    <3>1. critical' = critical /\ data' = data /\ doc'.obs = doc.obs
      BY <2>3 DEF CycleDone, NoDoc
    <3> QED BY <1>3, <3>1
  <2> QED BY <2>1, <2>2, <2>3
<1>4. ASSUME exact, attached, NEW q \in {critical', data', doc'.obs}, NEW p \in 1..Len(q),
             ~IsCondition(q[p]), NEW k \in Keys, NEW i \in 1..Len(log),
             Latest(k, i), Now[k] # Clear, i + MaxPart <= q[p].seq
      PROVE  Reached(i)' /\ ~Holds(doc'.obs, i)
  <2>1. PICK r \in {critical, data, doc.obs} : \E x \in 1..Len(r) : q[p] = r[x]
    BY <1>3, <1>4
  <2>2. Reached(i) /\ ~Holds(doc.obs, i)
    BY <1>4, <2>1 DEF Led, Behind
  <2>3. ~Holds(doc'.obs, i)
    BY <1>4, <2>2, DispatchKeeps
  <2>4. Reached(i)'
    BY <1>2, <2>2 DEF Reached
  <2> QED BY <2>3, <2>4
<1> QED BY <1>2, <1>4, LedFrom

LEMMA LedServe ==
  ASSUME Typed, Flows, Led, ServeAttach
  PROVE  Led'
<1>1. /\ Logged /\ Len(log) \in Nat /\ doc.obs = <<>> /\ Made(Current) /\ "condition" \in Items
      /\ floor \in [Items -> 0..Len(log)]
  BY LogIs, CurrentIs DEF Typed, DocTypes, Logged, ServeAttach, Idle, Items
<1>2. UNCHANGED <<log, agent, doc, attached>>
  BY DEF ServeAttach
<1>3. ASSUME exact', attached, NEW k \in Keys, NEW i \in 1..Len(log), Latest(k, i), Now[k] # Clear
      PROVE  Reached(i)' /\ ~Holds(doc'.obs, i)
  <2>1. PICK p \in 1..Len(Current) : Current[p].seq = i /\ IsCondition(Current[p])
    BY <1>1, <1>3, ReportedHasLatest
  <2>2. floor' = Raised(floor, Current)
    BY <1>3 DEF ServeAttach
  <2>3. i <= floor'["condition"]
    BY <1>1, <2>1, <2>2, RaisedIs DEF IsCondition
  <2>4. Reached(i)'
    BY <2>3 DEF Reached
  <2> QED BY <1>1, <1>2, <2>4, NothingFlows DEF Holds
<1> QED BY <1>2, <1>3, LedFrom

LEMMA LedNext ==
  ASSUME Typed, Typed', Flows, Led, [Next]_vars
  PROVE  Led'
<1>1. CASE Poll \/ Reopen \/ Recover \/ DropObs \/ DropSnapshot \/ Attach \/ Detach
  <2>1. ~(exact' /\ attached')
    BY <1>1, DropIs DEF Poll, Reopen, Recover, Cycle, Attach, Detach
  <2> QED BY <2>1 DEF Led
<1>2. CASE Observe
  <2>1. UNCHANGED <<next, floor, doc, critical, data, attached, exact>>
    BY <1>2 DEF Observe
  <2>2. Made(critical) /\ Made(data) /\ Made(doc.obs) /\ Len(log) \in Nat /\ Len(log') \in Nat
        /\ MaxPart \in Nat
    BY LogGrows DEF Typed, DocTypes, SessionTypes
  <2>3. ASSUME exact, attached, NEW q \in {critical, data, doc.obs}, NEW p \in 1..Len(q),
               ~IsCondition(q[p]), NEW k \in Keys, NEW i \in 1..Len(log'),
               Latest(k, i)', Now'[k] # Clear, i + MaxPart <= q[p].seq
        PROVE  Reached(i) /\ ~Holds(doc.obs, i)
    <3>1. q[p].seq \in 1..Len(log)
      BY <2>2, <2>3, MadeIs
    <3>2. i \in 1..Len(log)
      BY <2>2, <2>3, <3>1
    <3>3. Latest(k, i) /\ Now[k] # Clear
      BY <2>3, <3>2, LatestWas
    <3> QED BY <2>3, <3>2, <3>3 DEF Led, Behind
  <2>4. ASSUME exact, attached PROVE Behind(critical, doc.obs)'
    BY <2>1, <2>3, <2>4 DEF Behind, Holds, IsCondition, Item, Reached
  <2>5. ASSUME exact, attached PROVE Behind(data, doc.obs)'
    BY <2>1, <2>3, <2>5 DEF Behind, Holds, IsCondition, Item, Reached
  <2>6. ASSUME exact, attached PROVE Behind(doc.obs, doc.obs)'
    BY <2>1, <2>3, <2>6 DEF Behind, Holds, IsCondition, Item, Reached
  <2> QED BY <2>1, <2>4, <2>5, <2>6 DEF Led
<1>3. CASE ServeAttachUndelivered \/ ServeAttachFailed \/ Ask \/ Served \/ UNCHANGED vars
  <2>1. UNCHANGED <<log, agent, next, floor, doc, critical, data, attached, exact>>
    BY <1>3 DEF ServeAttachUndelivered, ServeAttachFailed, Ask, Served, vars
  <2> QED BY <2>1, LedFrom DEF Led, Behind, Reached
<1>4. CASE Read
  <2>1. /\ UNCHANGED <<log, agent, next, floor, doc, attached, exact>>
        /\ critical' = <<>> /\ data' = <<>>
    BY <1>4 DEF Read
  <2>2. ASSUME exact, attached, NEW q \in {<<>>, doc.obs}, NEW p \in 1..Len(q), ~IsCondition(q[p]),
               NEW k \in Keys, NEW i \in 1..Len(log), Latest(k, i), Now[k] # Clear,
               i + MaxPart <= q[p].seq
        PROVE  Reached(i) /\ ~Holds(doc.obs, i)
    <3>1. q = doc.obs
      BY <2>2, NothingFlows
    <3> QED BY <2>2, <3>1 DEF Led, Behind
  <2> QED BY <2>1, <2>2, LedFrom DEF Reached
<1> QED BY <1>1, <1>2, <1>3, <1>4, LedPart, LedDispatch, LedServe DEF Next

\* Both ways a value is published, the batch that brings it, or the ledger it meets, has
\* the Fault it follows.
LEMMA ReadDegrades ==
  ASSUME Typed, Flows, KeysExact, KeysExact', Led, exact, Read, shown' # shown,
         shown'.seq > MaxPart, NEW k \in Keys, StandsThrough(k, shown'.seq - MaxPart)
  PROVE  shown'.q = "BAD"
<1>1. /\ Logged /\ Len(log) \in Nat /\ attached /\ Made(critical) /\ Made(data) /\ MaxPart \in Nat
  BY LogIs DEF Typed, SessionTypes, Logged, Read
<1>2. UNCHANGED <<log, agent, next, floor, doc, attached, exact, reply>> /\ critical' = <<>>
  BY DEF Read
<1> DEFINE r == critical \o data
<1>3. Made(r) /\ Publish(r)
  BY <1>1, MadeJoins DEF Read
<1>4. \A x \in 1..Len(r) : \/ x \in 1..Len(critical) /\ r[x] = critical[x]
                           \/ x - Len(critical) \in 1..Len(data) /\ r[x] = data[x - Len(critical)]
  BY <1>1, MadeJoins
<1> HIDE DEF r
<1>5. PICK p \in 1..Len(r) : /\ ~IsCondition(r[p]) /\ shown'.seq = r[p].seq
                             /\ shown'.q = Degraded(ledger')
  BY <1>3, PublishIs
<1>6. PICK v \in 1..Len(log) : v = r[p].seq - MaxPart /\ StandsThrough(k, v)
  <2>1. r[p].seq \in 1..Len(log)
    BY <1>3, MadeIs
  <2>2. r[p].seq - MaxPart \in 1..Len(log)
    BY <1>1, <1>5, <2>1
  <2> QED BY <1>5, <2>2
<1>7. PICK i \in 1..Len(log) : Latest(k, i)
  <2>1. Concerns(log[2], k) /\ 2 \in 1..Len(log)
    BY <1>1, LogIs DEF Logged, SaidSo
  <2> QED BY <1>1, <2>1, LatestExists
<1>8. i <= v /\ Now[k] = "FAULT"
  BY <1>1, <1>6, <1>7, SaidByThen
<1>9. i + MaxPart <= r[p].seq
  <2>1. r[p].seq \in Nat
    BY <1>3, MadeIs
  <2> QED BY <1>1, <1>6, <1>8, <2>1
<1>10. Reached(i) /\ ~Holds(doc.obs, i)
  <2>1. Now[k] # Clear
    BY <1>8 DEF Clear
  <2>2. PICK q \in {critical, data} : \E x \in 1..Len(q) : r[p] = q[x]
    BY <1>4
  <2> QED BY <1>1, <1>5, <1>7, <1>9, <2>1, <2>2 DEF Led, Behind
<1>11. \E n \in i..Len(log) : ledger'.active[k] = agent[n][k]
  <2>1. Latest(k, i)' /\ Reached(i)' /\ exact' /\ attached' /\ i \in 1..Len(log')
    BY <1>1, <1>2, <1>7, <1>10 DEF Latest, Reached
  <2>2. Certain(k, i)'
    BY <2>1 DEF KeysExact
  <2>3. ~Holds(critical', i) /\ ~Holds(doc'.obs, i)
    BY <1>2, <1>10, NothingFlows DEF Holds
  <2>4. ~Pending(i)'
    BY <2>3 DEF Pending, Holds
  <2>5. \E n \in i..Len(log') : ledger'.active[k] = agent'[n][k]
    BY <2>2, <2>4 DEF Certain
  <2> QED BY <1>2, <2>5
<1>12. ledger'.active[k] = "FAULT"
  BY <1>1, <1>7, <1>8, <1>11, LatestSays
<1> QED BY <1>5, <1>12, FaultIsBad

LEMMA ServedDegrades ==
  ASSUME Typed, Flows, Accompanied, Served, shown' # shown,
         shown'.seq > MaxPart, NEW k \in Keys, StandsThrough(k, shown'.seq - MaxPart)
  PROVE  shown'.q = "BAD"
<1>1. /\ Logged /\ Len(log) \in Nat /\ Made(reply.obs) /\ MaxPart \in Nat /\ Publish(reply.obs)
  BY LogIs DEF Typed, SessionTypes, Logged, Served
<1> DEFINE r == reply.obs
<1>2. Made(r) /\ Publish(r)
  BY <1>1
<1>3. PICK p \in 1..Len(r) : /\ ~IsCondition(r[p]) /\ shown'.seq = r[p].seq
                             /\ shown'.q = Degraded(ledger')
  BY <1>2, PublishIs
<1>4. PICK v \in 1..Len(log) : v = r[p].seq - MaxPart /\ StandsThrough(k, v)
  <2>1. r[p].seq \in 1..Len(log)
    BY <1>2, MadeIs
  <2>2. r[p].seq - MaxPart \in 1..Len(log)
    BY <1>1, <1>3, <2>1
  <2> QED BY <1>3, <2>2
<1>5. PICK i \in 1..Len(log) : Latest(k, i)
  <2>1. Concerns(log[2], k) /\ 2 \in 1..Len(log)
    BY <1>1, LogIs DEF Logged, SaidSo
  <2> QED BY <1>1, <2>1, LatestExists
<1>6. i <= v /\ Now[k] = "FAULT"
  BY <1>1, <1>4, <1>5, SaidByThen
<1>7. Holds(r, i)
  <2>1. i <= r[p].seq
    <3>1. r[p].seq \in Nat
      BY <1>2, MadeIs
    <3> QED BY <1>1, <1>4, <1>6, <3>1
  <2>2. Now[k] # Clear
    BY <1>6 DEF Clear
  <2> QED BY <1>3, <1>5, <2>1, <2>2 DEF Accompanied
<1>8. PICK y \in 1..Len(r) : r[y].seq = i /\ Concerns(r[y], k)
  <2>1. PICK y \in 1..Len(r) : r[y].seq = i
    BY <1>7 DEF Holds
  <2>2. r[y] = log[i]
    BY <1>2, <2>1, MadeIs
  <2> QED BY <1>5, <2>1, <2>2 DEF Latest
<1>9. PICK x \in 1..Len(r) :
           /\ Concerns(r[x], k)
           /\ \A j \in 1..Len(r) : Concerns(r[j], k) => r[j].seq <= r[x].seq
           /\ ledger'.active[k] = agent[r[x].seq][k]
  BY <1>8, ServedShows
<1>10. r[x].seq = i
  <2>1. i <= r[x].seq /\ r[x].seq <= i /\ r[x].seq \in Nat /\ i \in Nat
    BY <1>1, <1>2, <1>5, <1>8, <1>9, MadeIs, NoneIsLater
  <2> QED BY <2>1
<1>11. ledger'.active[k] = "FAULT"
  <2>1. i \in i..Len(log)
    BY <1>1
  <2> QED BY <1>1, <1>5, <1>6, <1>9, <1>10, <2>1, LatestSays
<1> QED BY <1>3, <1>11, FaultIsBad

\* While the stream is unbroken and nothing sent was dropped, a value observed after the
\* part that brought a Fault still standing is published BAD: no order in which the two lanes
\* are filled and drained lets it out GOOD.
THEOREM FaultDegrades == Spec => FaultDegradesWhatFollows
<1>1. Init => KeysExact /\ Led /\ Accompanied
  <2>1. ASSUME Init PROVE Accompanied
    <3>1. reply.obs = <<>>
      BY <2>1 DEF Init, NoReply
    <3> QED BY <3>1, NothingFlows DEF Accompanied
  <2> QED BY <2>1 DEF Init, KeysExact, Led
<1>2. Typed /\ Typed' /\ Flows /\ KeysExact /\ Led /\ Accompanied /\ [Next]_vars
      => KeysExact' /\ Led' /\ Accompanied'
  BY KeysExactNext, LedNext, AccompaniedNext
<1>3. /\ Typed /\ Flows /\ KeysExact /\ KeysExact' /\ Led /\ Accompanied /\ [Next]_vars
      => [exact /\ shown' # shown /\ shown'.seq > MaxPart =>
            ((\E k \in Keys : StandsThrough(k, shown'.seq - MaxPart)) => shown'.q = "BAD")]_vars
  <2> SUFFICES ASSUME Typed, Flows, KeysExact, KeysExact', Led, Accompanied, [Next]_vars,
                      exact, shown' # shown, shown'.seq > MaxPart,
                      NEW k \in Keys, StandsThrough(k, shown'.seq - MaxPart)
               PROVE  shown'.q = "BAD"
    OBVIOUS
  <2>1. Read \/ Served
    BY DropIs DEF Next, Observe, StreamPart, Poll, Reopen, Recover, Cycle, DispatchObs,
           DispatchSnapshot, CycleDone, ServeAttach, ServeAttachUndelivered, ServeAttachFailed,
           Attach, Detach, Ask, vars
  <2> QED BY <2>1, ReadDegrades, ServedDegrades
<1> QED BY <1>1, <1>2, <1>3, FlowsHolds, PTL DEF Spec, FaultDegradesWhatFollows
================================================================================
