---------------------------- MODULE Setup_proofs ----------------------------
(***************************************************************************)
(* Proofs about Setup: the commands, and the way from a document to hosted *)
(* instances and through reloads.                                          *)
(*                                                                         *)
(* Commands, for any devices, configurations, descriptions, requests and   *)
(* agents: sb/read answers every reference with its own signal's reading   *)
(* or with why it has none.  The invariant has four parts.  CallTyped: the *)
(* command's record.  Pending: what a task is asked has been planned, one  *)
(* entry for each reference, and nothing of an answer is in it.  World: a  *)
(* session that is on has the model it was compiled against, so that its   *)
(* signals and the items they are bound to are of one description.         *)
(* ReadAnswersEach itself.  The rest is about data: which of a session's   *)
(* readings an id is answered with, and that it says what the signal with  *)
(* that id is worth.                                                       *)
(*                                                                         *)
(* Startup, for any documents, vaults and budgets.  Started: what each     *)
(* phase has made of the document; the argument is that the budgets an     *)
(* entry is stamped with are no part of what makes it valid, so that what  *)
(* the validator compiled App::new compiles.  Reloaded: each slot is an    *)
(* entry's, and of the document in force if its ids are apart; the         *)
(* argument is that a generation that did not change is the same signals.  *)
(***************************************************************************)
EXTENDS Setup, WellFoundedInduction, TLAPS

----------------------------------------------------------------------------
(* Picking, as in SignalViews_proofs: a module of proofs brings its        *)
(* component's variables with it, so that neither can extend the other.    *)

\* A set of naturals that is not empty has a least element.
LEMMA LeastExists ==
  ASSUME NEW S \in SUBSET Nat, S # {}
  PROVE  \E m \in S : \A i \in S : m <= i
<1>1. PICK m \in S : \A i \in S : ~(<<i, m>> \in OpToRel(<, Nat))
  BY NatLessThanWellFounded, WFMin
<1>2. \A i \in S : ~(i < m)
  BY <1>1 DEF OpToRel
<1>3. \A i \in S : i \in Nat
  OBVIOUS
<1>4. \A i \in S : m <= i
  BY <1>2, <1>3
<1> QED BY <1>4

IsPicking(F, n, s, S) ==
  F = [i \in 0..n |-> IF i = 0 THEN << >>
                      ELSE IF s[i] \in S THEN Append(F[i - 1], s[i]) ELSE F[i - 1]]

\* The prefixes' pickings, of any length, are a function: by the least
\* length that had none.
LEMMA PickingExists ==
  ASSUME NEW s, NEW S, NEW n \in Nat
  PROVE  \E F : IsPicking(F, n, s, S)
<1> DEFINE Bad == {m \in Nat : ~ \E F : IsPicking(F, m, s, S)}
<1> SUFFICES ASSUME n \in Bad PROVE FALSE
  OBVIOUS
<1>1. PICK m \in Bad : \A i \in Bad : m <= i
  BY LeastExists
<1>2. m # 0
  <2>1. IsPicking([i \in 0..0 |-> << >>], 0, s, S)
    BY DEF IsPicking
  <2> QED BY <2>1
<1>3. m - 1 \in Nat /\ m - 1 \notin Bad
  BY <1>1, <1>2
<1>4. PICK F : IsPicking(F, m - 1, s, S)
  BY <1>3
<1> DEFINE G == [i \in 0..m |-> IF i < m THEN F[i]
                  ELSE IF s[m] \in S THEN Append(F[m - 1], s[m]) ELSE F[m - 1]]
<1>5. IsPicking(G, m, s, S)
  <2>1. SUFFICES ASSUME NEW i \in 0..m
        PROVE  G[i] = IF i = 0 THEN << >>
                      ELSE IF s[i] \in S THEN Append(G[i - 1], s[i]) ELSE G[i - 1]
    BY DEF IsPicking
  <2>2. CASE i = 0
    BY <1>2, <1>4, <2>2 DEF IsPicking
  <2>3. CASE i # 0 /\ i < m
    <3>1. i \in 0..(m - 1) /\ i - 1 \in 0..(m - 1) /\ i - 1 \in 0..m /\ i - 1 < m
      BY <1>1, <2>3
    <3>2. G[i] = F[i] /\ G[i - 1] = F[i - 1]
      BY <2>3, <3>1
    <3>3. F[i] = IF s[i] \in S THEN Append(F[i - 1], s[i]) ELSE F[i - 1]
      BY <1>4, <2>3, <3>1 DEF IsPicking
    <3> QED BY <2>3, <3>2, <3>3
  <2>4. CASE i = m
    BY <1>1, <1>2, <2>4
  <2> QED BY <2>2, <2>3, <2>4
<1> QED BY <1>1, <1>5

\* Picked is the last of its prefixes' pickings.
LEMMA PickedUnfolds ==
  ASSUME NEW s, NEW S, Len(s) \in Nat
  PROVE  \E F : IsPicking(F, Len(s), s, S) /\ Picked(s, S) = F[Len(s)]
<1> DEFINE F == CHOOSE f : IsPicking(f, Len(s), s, S)
<1>1. IsPicking(F, Len(s), s, S)
  BY PickingExists
<1>2. Picked(s, S) = F[Len(s)]
  BY DEF Picked, IsPicking
<1> QED BY <1>1, <1>2

Traces(f, p, n, s, S) ==
  /\ f \in [1..Len(p) -> 1..n]
  /\ \A k \in 1..Len(p) : p[k] = s[f[k]] /\ s[f[k]] \in S
  /\ \A j, k \in 1..Len(p) : j < k => f[j] < f[k]
  /\ \A i \in 1..n : s[i] \in S => \E k \in 1..Len(p) : f[k] = i

\* One more element of the source: the trace goes on, with it or without.
LEMMA TraceGrows ==
  ASSUME NEW W, NEW p \in Seq(W), NEW n \in Nat, NEW s, NEW S, NEW f, Traces(f, p, n, s, S),
         s[n + 1] \in W
  PROVE  /\ s[n + 1] \notin S => Traces(f, p, n + 1, s, S)
         /\ s[n + 1] \in S =>
              \E g : Traces(g, Append(p, s[n + 1]), n + 1, s, S)
<1>0. 1..(n + 1) = (1..n) \cup {n + 1} /\ Len(p) \in Nat
  OBVIOUS
<1>1. ASSUME s[n + 1] \notin S PROVE Traces(f, p, n + 1, s, S)
  <2>1. f \in [1..Len(p) -> 1..(n + 1)]
    BY <1>0 DEF Traces
  <2>2. \A i \in 1..(n + 1) : s[i] \in S => \E k \in 1..Len(p) : f[k] = i
    BY <1>0, <1>1 DEF Traces
  <2> QED BY <2>1, <2>2 DEF Traces
<1>2. ASSUME s[n + 1] \in S
      PROVE  \E g : Traces(g, Append(p, s[n + 1]), n + 1, s, S)
  <2> DEFINE l == Len(p)
             q == Append(p, s[n + 1])
             g == [k \in 1..(l + 1) |-> IF k = l + 1 THEN n + 1 ELSE f[k]]
  <2>1. Len(q) = l + 1 /\ q[l + 1] = s[n + 1] /\ \A k \in 1..l : q[k] = p[k]
    OBVIOUS
  <2>2. l \in Nat
    OBVIOUS
  <2>3. f \in [1..l -> 1..n] /\ (\A k \in 1..l : p[k] = s[f[k]] /\ s[f[k]] \in S)
    BY DEF Traces
  <2>4. \A j, k \in 1..l : j < k => f[j] < f[k]
    BY DEF Traces
  <2>5. \A i \in 1..n : s[i] \in S => \E k \in 1..l : f[k] = i
    BY DEF Traces
  <2> HIDE DEF l, q
  <2>6. g[l + 1] = n + 1 /\ \A k \in 1..l : g[k] = f[k] /\ g[k] \in 1..n
    BY <2>2, <2>3
  <2>7. 1..(l + 1) = (1..l) \cup {l + 1}
    BY <2>2
  <2>8. g \in [1..(l + 1) -> 1..(n + 1)]
    <3>1. \A k \in 1..(l + 1) : g[k] \in 1..(n + 1)
      BY <1>0, <2>6, <2>7
    <3> QED BY <3>1
  <2> HIDE DEF g
  <2>9. \A k \in 1..(l + 1) : q[k] = s[g[k]] /\ s[g[k]] \in S
    BY <1>2, <2>1, <2>3, <2>6, <2>7
  <2>10. \A j, k \in 1..(l + 1) : j < k => g[j] < g[k]
    <3> SUFFICES ASSUME NEW j \in 1..(l + 1), NEW k \in 1..(l + 1), j < k PROVE g[j] < g[k]
      OBVIOUS
    <3>1. j \in 1..l
      BY <2>2
    <3>2. CASE k = l + 1
      BY <2>6, <3>1, <3>2
    <3>3. CASE k \in 1..l
      BY <2>4, <2>6, <3>1, <3>3
    <3> QED BY <2>7, <3>2, <3>3
  <2>11. \A i \in 1..(n + 1) : s[i] \in S => \E k \in 1..(l + 1) : g[k] = i
    <3> SUFFICES ASSUME NEW i \in 1..(n + 1), s[i] \in S PROVE \E k \in 1..(l + 1) : g[k] = i
      OBVIOUS
    <3>1. CASE i = n + 1
      BY <2>2, <2>6, <3>1
    <3>2. CASE i \in 1..n
      <4>1. PICK k \in 1..l : f[k] = i
        BY <2>5, <3>2
      <4> QED BY <2>6, <2>7, <4>1
    <3> QED BY <1>0, <3>1, <3>2
  <2>12. Traces(g, q, n + 1, s, S)
    BY <2>1, <2>8, <2>9, <2>10, <2>11 DEF Traces
  <2> QED BY <2>12 DEF q
<1> QED BY <1>1, <1>2

\* What Picked returns for every sequence and set: the elements in the set,
\* each once per occurrence, in their order.
LEMMA PickedIs ==
  ASSUME NEW W, NEW s \in Seq(W), NEW S
  PROVE  /\ Picked(s, S) \in Seq(W)
         /\ \E f : Traces(f, Picked(s, S), Len(s), s, S)
<1>1. PICK F : IsPicking(F, Len(s), s, S) /\ Picked(s, S) = F[Len(s)]
  BY PickedUnfolds
<1> DEFINE z == Len(s)
           Bad == {n \in 0..z : ~ (F[n] \in Seq(W) /\ \E f : Traces(f, F[n], n, s, S))}
<1>2. z \in Nat /\ \A i \in 1..z : s[i] \in W
  OBVIOUS
<1>a. IsPicking(F, z, s, S)
  BY <1>1
<1> HIDE DEF z
<1>3. F[0] = << >> /\ \A i \in 1..z :
        F[i] = IF s[i] \in S THEN Append(F[i - 1], s[i]) ELSE F[i - 1]
  <2>1. \A i \in 0..z : F[i] = IF i = 0 THEN << >>
                      ELSE IF s[i] \in S THEN Append(F[i - 1], s[i]) ELSE F[i - 1]
    BY <1>a DEF IsPicking
  <2>2. 0 \in 0..z /\ \A i \in 1..z : i \in 0..z /\ i # 0
    BY <1>2
  <2> QED BY <2>1, <2>2
<1>4. Bad = {}
  <2> SUFFICES ASSUME Bad # {} PROVE FALSE
    OBVIOUS
  <2>0. Bad \in SUBSET Nat
    BY <1>2
  <2>1. PICK m \in Bad : \A i \in Bad : m <= i
    BY <2>0, LeastExists
  <2>2. m # 0
    <3>1. Traces(<< >>, << >>, 0, s, S)
      BY DEF Traces
    <3>2. << >> \in Seq(W)
      OBVIOUS
    <3> QED BY <1>3, <2>1, <3>1, <3>2
  <2>3. m \in 1..z /\ m - 1 \in 0..z /\ m - 1 \in Nat /\ m - 1 < m /\ (m - 1) + 1 = m
    BY <1>2, <2>1, <2>2
  <2>4. m - 1 \notin Bad
    BY <2>1, <2>3
  <2>5. F[m - 1] \in Seq(W) /\ \E f : Traces(f, F[m - 1], m - 1, s, S)
    BY <2>3, <2>4
  <2>6. PICK f : Traces(f, F[m - 1], m - 1, s, S)
    BY <2>5
  <2>7. s[m] \in W
    BY <1>2, <2>3
  <2>8. /\ s[m] \notin S => Traces(f, F[m - 1], m, s, S)
        /\ s[m] \in S => \E g : Traces(g, Append(F[m - 1], s[m]), m, s, S)
    <3> DEFINE n == m - 1
    <3>1. n \in Nat /\ n + 1 = m
      BY <2>3
    <3> HIDE DEF n
    <3>2. F[n] \in Seq(W) /\ Traces(f, F[n], n, s, S) /\ s[n + 1] \in W
      BY <2>5, <2>6, <2>7, <3>1 DEF n
    <3>3. /\ s[n + 1] \notin S => Traces(f, F[n], n + 1, s, S)
          /\ s[n + 1] \in S => \E g : Traces(g, Append(F[n], s[n + 1]), n + 1, s, S)
      BY <3>1, <3>2, TraceGrows
    <3> QED BY <3>1, <3>3 DEF n
  <2>9. F[m] = IF s[m] \in S THEN Append(F[m - 1], s[m]) ELSE F[m - 1]
    BY <1>3, <2>3
  <2>10. F[m] \in Seq(W)
    BY <2>5, <2>7, <2>9
  <2>11. \E g : Traces(g, F[m], m, s, S)
    BY <2>6, <2>8, <2>9
  <2> QED BY <2>1, <2>10, <2>11
<1>5. z \notin Bad /\ z \in 0..z
  BY <1>2, <1>4
<1>6. F[z] \in Seq(W) /\ \E f : Traces(f, F[z], z, s, S)
  BY <1>5
<1> QED BY <1>1, <1>6 DEF z

----------------------------------------------------------------------------
(* The readings, by id.                                                    *)

\* Of the readings of an id the last is the one it is answered with.
LEMMA LastStays ==
  ASSUME NEW W, NEW R \in Seq(W), NEW ids, NEW id \in ids
  PROVE  /\ id \in DOMAIN ById(OfIds(R, ids)) <=> \E j \in 1..Len(R) : R[j].id = id
         /\ \A n \in 1..Len(R) :
              R[n].id = id /\ (\A j \in 1..Len(R) : R[j].id = id => j <= n)
                => ById(OfIds(R, ids))[id] = R[n]
<1> DEFINE S == {r \in Range(R) : r.id \in ids}
           p == Picked(R, S)
           m == Len(R)
           l == Len(p)
<1>1. PICK f : p \in Seq(W) /\ Traces(f, p, m, R, S)
  BY PickedIs
<1>2. m \in Nat /\ l \in Nat /\ DOMAIN R = 1..m /\ DOMAIN p = 1..l
  BY <1>1
<1>3. \A j \in 1..m : R[j] \in Range(R)
  BY <1>2 DEF Range
<1>4. \A j \in 1..m : R[j].id = id => R[j] \in S
  BY <1>3
<1>5. OfIds(R, ids) = p
  BY DEF OfIds
<1> HIDE DEF S, p, m, l
<1>6. /\ f \in [1..l -> 1..m]
      /\ \A k \in 1..l : p[k] = R[f[k]]
      /\ \A j, k \in 1..l : j < k => f[j] < f[k]
      /\ \A i \in 1..m : R[i] \in S => \E k \in 1..l : f[k] = i
  BY <1>1 DEF Traces, l
<1>7. DOMAIN ById(p) = {p[k].id : k \in 1..l}
  BY <1>2 DEF ById
<1>8. id \in DOMAIN ById(p) <=> \E j \in 1..m : R[j].id = id
  <2>1. ASSUME id \in DOMAIN ById(p) PROVE \E j \in 1..m : R[j].id = id
    BY <1>6, <1>7, <2>1
  <2>2. ASSUME NEW j \in 1..m, R[j].id = id PROVE id \in DOMAIN ById(p)
    <3>1. PICK k \in 1..l : f[k] = j
      BY <1>4, <1>6, <2>2
    <3> QED BY <1>6, <1>7, <2>2, <3>1
  <2> QED BY <2>1, <2>2
<1>9. ASSUME NEW n \in 1..m, R[n].id = id, \A j \in 1..m : R[j].id = id => j <= n
      PROVE  ById(p)[id] = R[n]
  <2>1. PICK k \in 1..l : f[k] = n
    BY <1>4, <1>6, <1>9
  <2>2. p[k].id = id /\ p[k] = R[n]
    BY <1>6, <1>9, <2>1
  <2>3. \A i \in 1..l : p[i].id = id => i <= k
    <3> SUFFICES ASSUME NEW i \in 1..l, p[i].id = id, ~(i <= k) PROVE FALSE
      OBVIOUS
    <3>1. f[i] \in 1..m /\ R[f[i]].id = id
      BY <1>6
    <3>2. f[i] <= n
      BY <1>9, <3>1
    <3>3. k < i
      BY <1>2
    <3>4. f[k] < f[i]
      BY <1>6, <3>3
    <3> QED BY <1>2, <2>1, <3>1, <3>2, <3>4
  <2> DEFINE Stays(i) == p[i].id = id /\ \A j \in 1..l : p[j].id = id => j <= i
  <2>4. \A i \in 1..l : Stays(i) => i = k
    BY <1>2, <2>2, <2>3
  <2>5. Stays(k)
    BY <2>2, <2>3
  <2>6. (CHOOSE i \in 1..l : Stays(i)) = k
    <3> HIDE DEF Stays
    <3> QED BY <2>4, <2>5
  <2>7. id \in {p[i].id : i \in 1..l}
    BY <2>2
  <2>8. ById(p)[id] = p[CHOOSE i \in 1..l : Stays(i)]
    BY <1>2, <2>7 DEF ById
  <2> QED BY <2>2, <2>6, <2>8
<1> QED BY <1>5, <1>8, <1>9 DEF m

\* A set of naturals below a bound has a greatest element.
LEMMA GreatestExists ==
  ASSUME NEW n \in Nat, NEW S \in SUBSET (1..n), S # {}
  PROVE  \E m \in S : \A i \in S : i <= m
<1> DEFINE R == {n - i : i \in S}
<1>1. \A i \in S : i \in Nat /\ n - i \in Nat
  OBVIOUS
<1>2. R \in SUBSET Nat /\ R # {}
  BY <1>1
<1> HIDE DEF R
<1>3. PICK r \in R : \A i \in R : r <= i
  BY <1>2, LeastExists
<1>4. PICK m \in S : r = n - m
  BY <1>3 DEF R
<1>5. \A i \in S : n - m <= n - i
  BY <1>3, <1>4 DEF R
<1>6. \A i \in S : i <= m
  BY <1>1, <1>5
<1> QED BY <1>6

\* What an id is answered with is one of its readings, behind all its others.
LEMMA AnsweredIsLast ==
  ASSUME NEW W, NEW R \in Seq(W), NEW ids, NEW id \in ids, id \in DOMAIN ById(OfIds(R, ids))
  PROVE  \E n \in 1..Len(R) : /\ R[n].id = id /\ ById(OfIds(R, ids))[id] = R[n]
                              /\ \A j \in 1..Len(R) : R[j].id = id => j <= n
<1> DEFINE S == {j \in 1..Len(R) : R[j].id = id}
<1>1. S # {}
  BY LastStays
<1>2. Len(R) \in Nat /\ S \in SUBSET (1..Len(R))
  OBVIOUS
<1>3. PICK n \in S : \A i \in S : i <= n
  BY <1>1, <1>2, GreatestExists
<1>4. n \in 1..Len(R) /\ R[n].id = id /\ \A j \in 1..Len(R) : R[j].id = id => j <= n
  BY <1>3
<1>5. ById(OfIds(R, ids))[id] = R[n]
  BY <1>4, LastStays
<1> QED BY <1>4, <1>5

----------------------------------------------------------------------------
(* What a session reads.                                                   *)

Lost(s)         == Reading(s.id, "BAD", "MTC_NO_SUCH_DATAITEM")
Seen(s, report) == Reading(s.id, IF report[s.item] = "MTC_OK" THEN "GOOD" ELSE "BAD", report[s.item])

\* What served_set promises a session: the explicit signals are all served,
\* only they can lack an item, and an id is one signal's.
LEMMA SignalsAre ==
  ASSUME NEW c \in Configs, NEW m \in Models
  PROVE  /\ ServedUnder(c, m) \in Seq(Range(ServedUnder(c, m)))
         /\ Range(Explicit[c]) \subseteq Range(ServedUnder(c, m))
         /\ \A s \in Range(ServedUnder(c, m)) : s.item \notin Items[m] => s \in Range(Explicit[c])
         /\ \A s, t \in Range(ServedUnder(c, m)) : s.id = t.id => s = t
<1> DEFINE e == Explicit[c]
           d == Discovered[m]
           u == ServedUnder(c, m)
           le == Len(e)
           ld == Len(d)
<1>1. e \in Seq(Range(e)) /\ d \in Seq(Range(d))
  BY ListsOfSignals
<1>2. u = e \o d
  BY UnprobedIsNoModel DEF ServedUnder
<1>3. \A s \in Range(d) : s.item \in Items[m]
  BY DiscoveredAreBound
<1>4. \A j, k \in DOMAIN u : u[j].id = u[k].id => j = k
  BY IdsApart, Zenon
<1> HIDE DEF e, d, u
<1>5. le \in Nat /\ ld \in Nat /\ DOMAIN e = 1..le /\ DOMAIN d = 1..ld
  BY <1>1
<1>6. /\ u \in Seq(Range(e) \cup Range(d)) /\ DOMAIN u = 1..(le + ld)
      /\ \A k \in 1..le : u[k] = e[k]
      /\ \A k \in (le + 1)..(le + ld) : u[k] = d[k - le]
  <2>1. e \in Seq(Range(e) \cup Range(d)) /\ d \in Seq(Range(e) \cup Range(d))
    BY <1>1
  <2>2. u \in Seq(Range(e) \cup Range(d)) /\ Len(u) = Len(e) + Len(d)
    BY <1>2, <2>1
  <2>3. \A k \in 1..(Len(e) + Len(d)) : u[k] = IF k <= Len(e) THEN e[k] ELSE d[k - Len(e)]
    BY <1>2, <2>1
  <2>4. DOMAIN u = 1..(le + ld)
    BY <2>2
  <2> HIDE DEF le, ld
  <2>5. \A k \in 1..(le + ld) : u[k] = IF k <= le THEN e[k] ELSE d[k - le]
    BY <2>3 DEF le, ld
  <2>6. \A k \in 1..le : k \in 1..(le + ld) /\ k <= le
    BY <1>5
  <2>7. \A k \in (le + 1)..(le + ld) : k \in 1..(le + ld) /\ ~(k <= le)
    BY <1>5
  <2> QED BY <2>2, <2>4, <2>5, <2>6, <2>7
<1> HIDE DEF le, ld
<1>7. \A k \in 1..le : k \in 1..(le + ld)
  BY <1>5
<1>8. \A k \in 1..(le + ld) : k \in 1..le \/ (k \in (le + 1)..(le + ld) /\ k - le \in 1..ld)
  BY <1>5
<1>9. Range(e) \subseteq Range(u)
  BY <1>5, <1>6, <1>7 DEF Range
<1>10. \A s \in Range(u) : s \in Range(e) \/ s \in Range(d)
  <2> TAKE s \in Range(u)
  <2>1. PICK k \in 1..(le + ld) : s = u[k]
    BY <1>6 DEF Range
  <2>2. CASE k \in 1..le
    BY <1>5, <1>6, <2>1, <2>2 DEF Range
  <2>3. CASE k \in (le + 1)..(le + ld) /\ k - le \in 1..ld
    BY <1>5, <1>6, <2>1, <2>3 DEF Range
  <2> QED BY <1>8, <2>2, <2>3
<1>11. \A s, t \in Range(u) : s.id = t.id => s = t
  BY <1>4 DEF Range
<1>12. u \in Seq(Range(u))
  <2>1. \A k \in 1..(le + ld) : u[k] \in Range(u)
    BY <1>6 DEF Range
  <2>2. Len(u) = le + ld /\ u = [k \in 1..(le + ld) |-> u[k]]
    BY <1>5, <1>6
  <2>3. le + ld \in Nat
    BY <1>5
  <2> QED BY <2>1, <2>2, <2>3
<1> QED BY <1>3, <1>9, <1>10, <1>11, <1>12 DEF e, d, u

\* The sequence of all the elements of s that are in S, but for the order.
Sifted(p, s, S) ==
  /\ p \in Seq(Range(s))
  /\ \A k \in 1..Len(p) : p[k] \in S \cap Range(s)
  /\ \A x \in Range(s) : x \in S => \E k \in 1..Len(p) : p[k] = x

\* Picked sifts.
LEMMA PickedOf ==
  ASSUME NEW s, s \in Seq(Range(s)), NEW S
  PROVE  Sifted(Picked(s, S), s, S)
<1> DEFINE p == Picked(s, S)
           m == Len(p)
           n == Len(s)
<1>1. PICK f : p \in Seq(Range(s)) /\ Traces(f, p, n, s, S)
  BY PickedIs
<1>2. n \in Nat /\ m \in Nat /\ DOMAIN s = 1..n
  BY <1>1
<1>3. /\ f \in [1..m -> 1..n]
      /\ \A k \in 1..m : p[k] = s[f[k]] /\ s[f[k]] \in S
      /\ \A i \in 1..n : s[i] \in S => \E k \in 1..m : f[k] = i
  BY <1>1 DEF Traces
<1> HIDE DEF p, m, n
<1>4. \A k \in 1..m : p[k] \in S \cap Range(s)
  BY <1>2, <1>3 DEF Range
<1>5. \A x \in Range(s) : x \in S => \E k \in 1..m : p[k] = x
  <2> TAKE x \in Range(s)
  <2>1. PICK i \in 1..n : s[i] = x
    BY <1>2 DEF Range
  <2> QED BY <1>3, <2>1
<1> QED BY <1>1, <1>4, <1>5 DEF p, m, n, Sifted

\* unbound_readings: one for each explicit signal whose item the model lacks.
LEMMA UnboundAre ==
  ASSUME NEW i, config[i] \in Configs
  PROVE  /\ Unbound(i) \in Seq({Lost(s) : s \in Range(Explicit[config[i]])})
         /\ \A k \in 1..Len(Unbound(i)) :
              \E s \in Range(Explicit[config[i]]) :
                s.item \notin Items[adopted[i]] /\ Unbound(i)[k] = Lost(s)
         /\ \A s \in Range(Explicit[config[i]]) :
              s.item \notin Items[adopted[i]] => \E k \in 1..Len(Unbound(i)) : Unbound(i)[k] = Lost(s)
<1> DEFINE mine == Explicit[config[i]]
           S == {s \in Range(mine) : s.item \notin Items[adopted[i]]}
           lost == Picked(mine, S)
           n == Len(lost)
           u == [k \in 1..n |-> Lost(lost[k])]
<1>1. mine \in Seq(Range(mine))
  BY ListsOfSignals
<1>2. /\ lost \in Seq(Range(mine))
      /\ \A k \in 1..n : lost[k] \in S
      /\ \A x \in S : \E k \in 1..n : lost[k] = x
  <2> HIDE DEF mine
  <2>1. \A x \in S : x \in Range(mine)
    OBVIOUS
  <2> HIDE DEF S
  <2>2. Sifted(lost, mine, S)
    BY <1>1, PickedOf
  <2> HIDE DEF lost
  <2> QED BY <2>1, <2>2 DEF Sifted
<1>3. n \in Nat /\ DOMAIN lost = 1..n
  BY <1>2
<1>4. Unbound(i) = u
  BY <1>3 DEF Unbound, Lost
<1>5. \A k \in 1..n : lost[k] \in Range(mine) /\ lost[k].item \notin Items[adopted[i]]
  BY <1>2
<1> HIDE DEF lost, n, mine
<1>6. u \in Seq({Lost(s) : s \in Range(mine)}) /\ Len(u) = n /\ \A k \in 1..n : u[k] = Lost(lost[k])
  BY <1>3, <1>5
<1> HIDE DEF u
<1>7. \A k \in 1..n : \E s \in Range(mine) : s.item \notin Items[adopted[i]] /\ u[k] = Lost(s)
  BY <1>5, <1>6
<1>8. \A s \in Range(mine) : s.item \notin Items[adopted[i]] => \E k \in 1..n : u[k] = Lost(s)
  BY <1>2, <1>6
<1> QED BY <1>4, <1>6, <1>7, <1>8 DEF mine

\* map_batch: one reading for each served signal whose item is wanted and there.
LEMMA ObservedAre ==
  ASSUME NEW i, Served(i) \in Seq(Range(Served(i))), NEW report, NEW wanted
  PROVE  /\ Observed(i, report, wanted) \in Seq({Seen(s, report) : s \in Range(Served(i))})
         /\ \A k \in 1..Len(Observed(i, report, wanted)) :
              \E s \in Range(Served(i)) : /\ s.item \in wanted \cap DOMAIN report
                                          /\ Observed(i, report, wanted)[k] = Seen(s, report)
         /\ \A s \in Range(Served(i)) : s.item \in wanted \cap DOMAIN report =>
              \E k \in 1..Len(Observed(i, report, wanted)) :
                Observed(i, report, wanted)[k] = Seen(s, report)
<1> DEFINE mine == Served(i)
           both == wanted \cap DOMAIN report
           S == {s \in Range(mine) : s.item \in both}
           seen == Picked(mine, S)
           n == Len(seen)
           u == [k \in 1..n |-> Seen(seen[k], report)]
<1>2. /\ seen \in Seq(Range(mine))
      /\ \A k \in 1..n : seen[k] \in S
      /\ \A x \in S : \E k \in 1..n : seen[k] = x
  <2> HIDE DEF mine
  <2>0. mine \in Seq(Range(mine))
    BY DEF mine
  <2>1. \A x \in S : x \in Range(mine)
    OBVIOUS
  <2> HIDE DEF S
  <2>2. Sifted(seen, mine, S)
    BY <2>0, PickedOf
  <2> HIDE DEF seen
  <2> QED BY <2>1, <2>2 DEF Sifted
<1>3. n \in Nat /\ DOMAIN seen = 1..n
  BY <1>2
<1>4. Observed(i, report, wanted) = u
  BY <1>3 DEF Observed, Seen
<1>5. \A k \in 1..n : seen[k] \in Range(mine) /\ seen[k].item \in both
  BY <1>2
<1> HIDE DEF seen, n, mine, both
<1>6. u \in Seq({Seen(s, report) : s \in Range(mine)}) /\ Len(u) = n
      /\ \A k \in 1..n : u[k] = Seen(seen[k], report)
  BY <1>3, <1>5
<1> HIDE DEF u
<1>7. \A k \in 1..n : \E s \in Range(mine) : s.item \in both /\ u[k] = Seen(s, report)
  BY <1>5, <1>6
<1>8. \A s \in Range(mine) : s.item \in both => \E k \in 1..n : u[k] = Seen(s, report)
  BY <1>2, <1>6
<1> QED BY <1>4, <1>6, <1>7, <1>8 DEF mine, both

----------------------------------------------------------------------------
(* The entries of a read.                                                  *)

\* What one entry must be.
EntryRight(entry, planned, cause, saw) ==
  /\ entry.id = planned.label
  /\ entry.quality = "GOOD" => entry.raw \in {<<"MTC_OK">>, <<"OK">>}
  /\ ~planned.ok => entry.raw = <<"UNRESOLVED_REF">>
  /\ planned.ok /\ cause # None => entry.quality = "BAD" /\ entry.raw[1] # "NO_DATA"
  /\ planned.ok /\ saw # None => entry.raw = <<Says(planned.label, saw[1])>>

Right(plan, reads, cause, saw) ==
  \A k \in DOMAIN plan : EntryRight(reads[k], plan[k], cause, saw)

\* The entries of a read, each from its own reference.
LEMMA ReadsAre ==
  ASSUME NEW plan, NEW readings, NEW failure
  PROVE  /\ DOMAIN Reads(plan, readings, failure) = DOMAIN plan
         /\ \A k \in DOMAIN plan :
              Reads(plan, readings, failure)[k] =
                IF ~plan[k].ok THEN bad_read(plan[k].label, <<"UNRESOLVED_REF">>)
                ELSE IF plan[k].label \in DOMAIN ById(readings)
                     THEN read_quality_raw(ById(readings)[plan[k].label])
                ELSE bad_read(plan[k].label, IF failure = None THEN <<"NO_DATA">> ELSE failure)
BY DEF Reads

\* A failed read carries its failure in every entry that was resolved.
LEMMA FailureIsOnEach ==
  ASSUME NEW plan, NEW failure, failure # None, failure[1] # "NO_DATA", NEW cause
  PROVE  Right(plan, Reads(plan, << >>, failure), cause, None)
<1>1. DOMAIN ById(<< >>) = {}
  BY DEF ById
<1>2. SUFFICES ASSUME NEW k \in DOMAIN plan
               PROVE  EntryRight(Reads(plan, << >>, failure)[k], plan[k], cause, None)
  BY DEF Right
<1>3. Reads(plan, << >>, failure)[k] =
        IF ~plan[k].ok THEN bad_read(plan[k].label, <<"UNRESOLVED_REF">>)
        ELSE bad_read(plan[k].label, failure)
  BY <1>1, ReadsAre
<1>4. \A label, raw : bad_read(label, raw) = [id |-> label, quality |-> "BAD", raw |-> raw]
  BY DEF bad_read, Reading
<1> QED BY <1>3, <1>4 DEF EntryRight

\* What is known of an id: a reading of its own, worth what `say` is.
Known(id, p, saw) ==
  /\ id \in DOMAIN ById(p) =>
       /\ ById(p)[id].id = id
       /\ ById(p)[id].quality = "GOOD" => ById(p)[id].raw \in {"MTC_OK", "OK"}
  /\ saw # None =>
       Says(id, saw[1]) =
         IF id \notin DOMAIN ById(p) THEN "NO_DATA"
         ELSE IF ById(p)[id].raw = "UNAVAILABLE" THEN "MTC_UNAVAILABLE" ELSE ById(p)[id].raw

\* A served read whose ids are known answers every reference right.
LEMMA KnownIsRight ==
  ASSUME NEW plan, NEW p, NEW saw, \A id \in PlannedIds(plan) : Known(id, p, saw)
  PROVE  Right(plan, Reads(plan, p, None), None, saw)
<1>1. SUFFICES ASSUME NEW k \in DOMAIN plan
               PROVE  EntryRight(Reads(plan, p, None)[k], plan[k], None, saw)
  BY DEF Right
<1> DEFINE id == plan[k].label
           r == ById(p)[id]
           entry == Reads(plan, p, None)[k]
<1>2. entry = IF ~plan[k].ok THEN bad_read(id, <<"UNRESOLVED_REF">>)
              ELSE IF id \in DOMAIN ById(p) THEN read_quality_raw(r)
              ELSE bad_read(id, <<"NO_DATA">>)
  BY ReadsAre
<1>3. \A label, raw : bad_read(label, raw) = [id |-> label, quality |-> "BAD", raw |-> raw]
  BY DEF bad_read, Reading
<1>4. read_quality_raw(r) =
        [id |-> r.id, quality |-> r.quality,
         raw |-> IF r.raw = "UNAVAILABLE" THEN <<"MTC_UNAVAILABLE">> ELSE <<r.raw>>]
  BY DEF read_quality_raw, Reading
<1> HIDE DEF entry
<1>5. CASE ~plan[k].ok
  <2>1. entry = [id |-> id, quality |-> "BAD", raw |-> <<"UNRESOLVED_REF">>]
    BY <1>2, <1>3, <1>5
  <2> QED BY <1>5, <2>1 DEF EntryRight, entry
<1>6. CASE plan[k].ok
  <2>1. Known(id, p, saw)
    BY <1>6 DEF PlannedIds
  <2>2. CASE id \notin DOMAIN ById(p)
    <3>1. entry = [id |-> id, quality |-> "BAD", raw |-> <<"NO_DATA">>]
      BY <1>2, <1>3, <1>6, <2>2
    <3>2. saw # None => Says(id, saw[1]) = "NO_DATA"
      BY <2>1, <2>2 DEF Known
    <3> QED BY <1>6, <3>1, <3>2 DEF EntryRight, entry
  <2>3. CASE id \in DOMAIN ById(p)
    <3> HIDE DEF r
    <3>1. /\ entry.id = r.id /\ entry.quality = r.quality
          /\ entry.raw = <<IF r.raw = "UNAVAILABLE" THEN "MTC_UNAVAILABLE" ELSE r.raw>>
      BY <1>2, <1>4, <1>6, <2>3
    <3>2. /\ r.id = id
          /\ r.quality = "GOOD" => r.raw \in {"MTC_OK", "OK"}
          /\ saw # None =>
               Says(id, saw[1]) = IF r.raw = "UNAVAILABLE" THEN "MTC_UNAVAILABLE" ELSE r.raw
      BY <2>1, <2>3 DEF Known, r
    <3> QED BY <1>6, <3>1, <3>2 DEF EntryRight, entry
  <2> QED BY <2>2, <2>3
<1> QED BY <1>5, <1>6

\* Readings that are GOOD only with a value, and nothing more is known of.
LEMMA FairIsKnown ==
  ASSUME NEW W, NEW R \in Seq(W), NEW ids, NEW id \in ids,
         \A j \in 1..Len(R) : R[j].quality = "GOOD" => R[j].raw \in {"MTC_OK", "OK"}
  PROVE  Known(id, OfIds(R, ids), None)
<1>1. ASSUME id \in DOMAIN ById(OfIds(R, ids))
      PROVE  /\ ById(OfIds(R, ids))[id].id = id
             /\ ById(OfIds(R, ids))[id].quality = "GOOD"
                  => ById(OfIds(R, ids))[id].raw \in {"MTC_OK", "OK"}
  BY <1>1, AnsweredIsLast
<1> QED BY <1>1 DEF Known

\* A concatenation, piece by piece.
LEMMA JoinedIs ==
  ASSUME NEW W, NEW s \in Seq(W), NEW U, NEW t \in Seq(U)
  PROVE  /\ s \o t \in Seq(W \cup U) /\ Len(s \o t) = Len(s) + Len(t)
         /\ \A k \in 1..Len(s) : (s \o t)[k] = s[k] /\ k \in 1..Len(s \o t)
         /\ \A k \in 1..Len(t) : (s \o t)[Len(s) + k] = t[k] /\ Len(s) + k \in 1..Len(s \o t)
         /\ \A k \in 1..Len(s \o t) : k \in 1..Len(s) \/ k - Len(s) \in 1..Len(t)
         /\ \A k \in 1..Len(s \o t) : k - Len(s) \in 1..Len(t) => (s \o t)[k] = t[k - Len(s)]
<1> DEFINE a == Len(s)
           b == Len(t)
           r == s \o t
<1>1. s \in Seq(W \cup U) /\ t \in Seq(W \cup U) /\ a \in Nat /\ b \in Nat
  OBVIOUS
<1>2. r \in Seq(W \cup U) /\ Len(r) = a + b
  BY <1>1
<1>3. \A k \in 1..(a + b) : r[k] = IF k <= a THEN s[k] ELSE t[k - a]
  BY <1>1
<1> HIDE DEF a, b, r
<1>4. \A k \in 1..a : r[k] = s[k] /\ k \in 1..(a + b)
  BY <1>1, <1>3
<1>5. \A k \in 1..b : r[a + k] = t[k] /\ a + k \in 1..(a + b)
  <2> TAKE k \in 1..b
  <2>1. a + k \in 1..(a + b) /\ ~(a + k <= a) /\ (a + k) - a = k
    BY <1>1
  <2> QED BY <1>3, <2>1
<1>6. \A k \in 1..(a + b) : k \in 1..a \/ k - a \in 1..b
  BY <1>1
<1>7. \A k \in 1..(a + b) : k - a \in 1..b => r[k] = t[k - a]
  BY <1>1, <1>3
<1> QED BY <1>2, <1>4, <1>5, <1>6, <1>7 DEF a, b, r

\* A served read knows of each id what the session's signals and the report make of it.
LEMMA ServedIsKnown ==
  ASSUME NEW i, config[i] \in Configs, adopted[i] \in Models,
         NEW ids, NEW id \in ids, NEW report \in Reports
  PROVE  Known(id, OfIds(Observed(i, report, Wanted(i, ids)) \o Unbound(i), ids),
               Saw(i, report))
<1> DEFINE served == Served(i)
           expl == Explicit[config[i]]
           bound == Items[adopted[i]]
           wanted == Wanted(i, ids)
           O == Observed(i, report, wanted)
           U == Unbound(i)
           R == O \o U
           p == OfIds(R, ids)
           saw == Saw(i, report)[1]
           mine == {s \in Range(served) : s.id = id}
           a == Len(O)
           b == Len(U)
<1>1. /\ served \in Seq(Range(served)) /\ Range(expl) \subseteq Range(served)
      /\ \A s \in Range(served) : s.item \notin bound => s \in Range(expl)
      /\ \A s, t \in Range(served) : s.id = t.id => s = t
  BY SignalsAre DEF Served
<1>2. /\ O \in Seq({Seen(s, report) : s \in Range(served)})
      /\ \A k \in 1..a : \E s \in Range(served) : s.item \in wanted \cap DOMAIN report /\ O[k] = Seen(s, report)
      /\ \A s \in Range(served) : s.item \in wanted \cap DOMAIN report => \E k \in 1..a : O[k] = Seen(s, report)
  BY <1>1, ObservedAre
<1>3. /\ U \in Seq({Lost(s) : s \in Range(expl)})
      /\ \A k \in 1..b : \E s \in Range(expl) : s.item \notin bound /\ U[k] = Lost(s)
      /\ \A s \in Range(expl) : s.item \notin bound => \E k \in 1..b : U[k] = Lost(s)
  BY UnboundAre
<1>4. \A item \in DOMAIN report : report[item] \in {"MTC_OK", "UNAVAILABLE"}
  BY DEF Reports
<1>5. \A s \in mine : s.item \in wanted
  BY DEF Wanted
<1>6. Says(id, saw) =
        IF mine = {} THEN "NO_DATA"
        ELSE LET item == (CHOOSE s \in mine : TRUE).item
             IN  IF item \notin bound THEN "MTC_NO_SUCH_DATAITEM"
                 ELSE IF item \notin DOMAIN report THEN "NO_DATA"
                 ELSE IF report[item] = "UNAVAILABLE" THEN "MTC_UNAVAILABLE" ELSE "MTC_OK"
  BY DEF Says, Saw
<1>7. <<saw>> # None /\ <<saw>>[1] = saw /\ <<saw>> = Saw(i, report)
  BY DEF None, Saw
<1>8. /\ \A s : Lost(s).id = s.id /\ Lost(s).quality = "BAD" /\ Lost(s).raw = "MTC_NO_SUCH_DATAITEM"
      /\ \A s : /\ Seen(s, report).id = s.id /\ Seen(s, report).raw = report[s.item]
                /\ Seen(s, report).quality = "GOOD" => report[s.item] = "MTC_OK"
  BY DEF Lost, Seen, Reading
<1>9. /\ R \in Seq({Seen(s, report) : s \in Range(served)} \cup {Lost(s) : s \in Range(expl)})
      /\ \A k \in 1..a : R[k] = O[k] /\ k \in 1..Len(R)
      /\ \A k \in 1..b : R[a + k] = U[k] /\ a + k \in 1..Len(R)
      /\ \A k \in 1..Len(R) : k \in 1..a \/ k - a \in 1..b
      /\ \A k \in 1..Len(R) : k - a \in 1..b => R[k] = U[k - a]
  <2> HIDE DEF O, U
  <2> QED BY <1>2, <1>3, JoinedIs
<1>10. a \in Nat /\ b \in Nat /\ Len(R) \in Nat
  <2> HIDE DEF O, U, R
  <2> QED BY <1>2, <1>3, <1>9
<1> HIDE DEF served, expl, bound, wanted, O, U, R, p, saw, a, b
<1>11. ASSUME NEW k \in 1..Len(R), R[k].id = id
       PROVE  \E s \in mine :
                \/ k \in 1..a /\ s.item \in DOMAIN report /\ R[k] = Seen(s, report)
                \/ k - a \in 1..b /\ s.item \notin bound /\ R[k] = Lost(s)
  <2>1. CASE k \in 1..a
    BY <1>2, <1>8, <1>9, <1>11, <2>1
  <2>2. CASE k - a \in 1..b
    <3>1. R[k] = U[k - a]
      BY <1>9, <2>2
    <3>2. PICK s \in Range(expl) : s.item \notin bound /\ U[k - a] = Lost(s)
      BY <1>3, <2>2
    <3>3. R[k] = Lost(s) /\ s.id = id
      BY <1>8, <1>11, <3>1, <3>2
    <3>4. s \in mine
      BY <1>1, <3>3
    <3> QED BY <2>2, <3>2, <3>3, <3>4
  <2> QED BY <1>9, <2>1, <2>2
<1>12. /\ id \in DOMAIN ById(p) <=> \E j \in 1..Len(R) : R[j].id = id
       /\ id \in DOMAIN ById(p) =>
            \E n \in 1..Len(R) : /\ R[n].id = id /\ ById(p)[id] = R[n]
                                 /\ \A j \in 1..Len(R) : R[j].id = id => j <= n
  BY <1>9, LastStays, AnsweredIsLast DEF p
<1>13. CASE mine = {}
  <2>1. id \notin DOMAIN ById(p)
    BY <1>11, <1>12, <1>13
  <2>2. Says(id, saw) = "NO_DATA"
    BY <1>6, <1>13
  <2>3. Known(id, p, <<saw>>)
    <3> HIDE DEF mine
    <3> QED BY <1>7, <2>1, <2>2 DEF Known
  <2> QED BY <1>7, <2>3 DEF p, R, O, U, wanted
<1>14. CASE mine # {}
  <2>1. PICK s \in mine : TRUE
    BY <1>14
  <2>2. mine = {s}
    BY <1>1, <2>1
  <2>3. (CHOOSE x \in mine : TRUE) = s
    BY <2>2
  <2>4. Says(id, saw) =
          IF s.item \notin bound THEN "MTC_NO_SUCH_DATAITEM"
          ELSE IF s.item \notin DOMAIN report THEN "NO_DATA"
          ELSE IF report[s.item] = "UNAVAILABLE" THEN "MTC_UNAVAILABLE" ELSE "MTC_OK"
    BY <1>6, <1>14, <2>3, Zenon
  <2>5. s \in Range(served) /\ s.id = id /\ s.item \in wanted
    BY <1>5, <2>1
  <2>6. CASE s.item \notin bound
    <3>1. PICK u \in 1..b : U[u] = Lost(s)
      BY <1>1, <1>3, <2>5, <2>6
    <3>2. a + u \in 1..Len(R) /\ R[a + u].id = id
      BY <1>8, <1>9, <2>5, <3>1
    <3>3. PICK n \in 1..Len(R) : /\ R[n].id = id /\ ById(p)[id] = R[n]
                                 /\ \A j \in 1..Len(R) : R[j].id = id => j <= n
      BY <1>12, <3>2
    <3>4. a + u <= n
      BY <3>2, <3>3
    <3>5. ~(n \in 1..a)
      BY <1>10, <3>4
    <3>6. R[n] = Lost(s)
      BY <1>11, <2>2, <3>3, <3>5
    <3>7. id \in DOMAIN ById(p)
      BY <1>12, <3>2
    <3>8. Known(id, p, <<saw>>)
      BY <1>7, <1>8, <2>4, <2>5, <2>6, <3>3, <3>6, <3>7 DEF Known
    <3> QED BY <1>7, <3>8 DEF p, R, O, U, wanted
  <2>7. CASE s.item \in bound /\ s.item \notin DOMAIN report
    <3>1. id \notin DOMAIN ById(p)
      BY <1>11, <1>12, <2>2, <2>7
    <3>2. Known(id, p, <<saw>>)
      BY <1>7, <2>4, <2>7, <3>1 DEF Known
    <3> QED BY <1>7, <3>2 DEF p, R, O, U, wanted
  <2>8. CASE s.item \in bound /\ s.item \in DOMAIN report
    <3>1. PICK k \in 1..a : O[k] = Seen(s, report)
      BY <1>2, <2>5, <2>8
    <3>2. k \in 1..Len(R) /\ R[k].id = id
      BY <1>8, <1>9, <2>5, <3>1
    <3>3. id \in DOMAIN ById(p)
      BY <1>12, <3>2
    <3>4. PICK n \in 1..Len(R) : R[n].id = id /\ ById(p)[id] = R[n]
      BY <1>12, <3>3
    <3>5. R[n] = Seen(s, report)
      BY <1>11, <2>2, <2>8, <3>4
    <3>6. report[s.item] \in {"MTC_OK", "UNAVAILABLE"}
      BY <1>4, <2>8
    <3>7. Known(id, p, <<saw>>)
      BY <1>7, <1>8, <2>4, <2>5, <2>8, <3>3, <3>4, <3>5, <3>6 DEF Known
    <3> QED BY <1>7, <3>7 DEF p, R, O, U, wanted
  <2> QED BY <2>6, <2>7, <2>8
<1> QED BY <1>13, <1>14 DEF p, R, O, U, wanted

\* A served read of ids none of whose signals the session has.
LEMMA NothingWantedIsKnown ==
  ASSUME NEW i, config[i] \in Configs, adopted[i] \in Models,
         NEW ids, NEW id \in ids, Wanted(i, ids) = {}
  PROVE  Known(id, OfIds(Unbound(i), ids), Saw(i, << >>))
<1> DEFINE served == Served(i)
           expl == Explicit[config[i]]
           U == Unbound(i)
           p == OfIds(U, ids)
           saw == Saw(i, << >>)[1]
           mine == {s \in Range(served) : s.id = id}
<1>1. Range(expl) \subseteq Range(served)
  BY SignalsAre DEF Served
<1>2. /\ U \in Seq({Lost(s) : s \in Range(expl)})
      /\ \A k \in 1..Len(U) : \E s \in Range(expl) : U[k] = Lost(s)
  BY UnboundAre
<1>3. mine = {}
  BY DEF Wanted
<1>4. Says(id, saw) = "NO_DATA"
  BY <1>3 DEF Says, Saw
<1>5. \A s : Lost(s).id = s.id
  BY DEF Lost, Reading
<1>6. <<saw>> = Saw(i, << >>) /\ <<saw>>[1] = saw
  BY DEF Saw
<1> HIDE DEF served, expl, U, saw
<1>7. ~ \E j \in 1..Len(U) : U[j].id = id
  BY <1>1, <1>2, <1>3, <1>5
<1>8. id \notin DOMAIN ById(p)
  BY <1>2, <1>7, LastStays
<1> HIDE DEF p, mine
<1>9. Known(id, p, <<saw>>)
  BY <1>4, <1>6, <1>8 DEF Known
<1> QED BY <1>6, <1>9 DEF p, U

\* No failure of an agent is told as missing data.
LEMMA FailuresTell ==
  ASSUME NEW text
  PROVE  agent_failure_code(text) # None /\ agent_failure_code(text)[1] # "NO_DATA"
<1>1. CASE Mentions(text, "no dataitem")
  BY <1>1 DEF agent_failure_code, None
<1>2. CASE ~Mentions(text, "no dataitem") /\ AgentsCode(text) # None
  BY <1>2 DEF agent_failure_code, None
<1>3. CASE ~Mentions(text, "no dataitem") /\ ~(AgentsCode(text) # None)
  BY <1>3 DEF agent_failure_code, None
<1> QED BY <1>1, <1>2, <1>3

----------------------------------------------------------------------------
(* The invariant.                                                          *)

CallTyped ==
  call = [at |-> call.at, of |-> call.of, req |-> call.req, plan |-> call.plan,
          reply |-> call.reply, cause |-> call.cause, saw |-> call.saw]

\* A command in its task's channel has been planned and not been answered.
Pending ==
  call.at = "sent" =>
    /\ call.of \in Instances /\ call.cause = None /\ call.saw = None
    /\ call.req.verb = "sb/read" => DOMAIN call.plan = DOMAIN call.req.refs[1]

\* A session is never on without the model that it was compiled against.
World ==
  /\ config \in [Ours -> Configs]
  /\ model \in [Ours -> Models \cup {Unprobed}] /\ adopted \in [Ours -> Models \cup {Unprobed}]
  /\ DOMAIN link = Instances
  /\ \A i \in Ours : /\ adopted[i] # Unprobed => model[i] # Unprobed
                     /\ link[i] = "online" => adopted[i] # Unprobed

Inv == CallTyped /\ Pending /\ World /\ ReadAnswersEach

ACall(c) == c = [at |-> c.at, of |-> c.of, req |-> c.req, plan |-> c.plan,
                 reply |-> c.reply, cause |-> c.cause, saw |-> c.saw]

\* A record of a command whose read, if it is one and served, is answered right.
WellAnswered(c) ==
  /\ ACall(c) /\ c.at = "answered"
  /\ c.req.verb = "sb/read" /\ c.reply.code = "OK" =>
       /\ DOMAIN c.reply.reads = DOMAIN c.req.refs[1]
       /\ Right(c.plan, c.reply.reads, c.cause, c.saw)

\* A command answered well keeps the command's part of the invariant.
LEMMA Answered ==
  ASSUME WellAnswered(call')
  PROVE  CallTyped' /\ Pending' /\ ReadAnswersEach'
<1>1. CallTyped'
  BY DEF WellAnswered, ACall, CallTyped
<1>2. Pending'
  BY DEF WellAnswered, Pending
<1>3. ReadAnswersEach'
  <2>1. SUFFICES ASSUME call'.at = "answered", call'.req.verb = "sb/read", call'.reply.code = "OK"
                 PROVE  /\ DOMAIN call'.reply.reads = DOMAIN call'.req.refs[1]
                        /\ Right(call'.plan, call'.reply.reads, call'.cause, call'.saw)
    BY DEF ReadAnswersEach, ReadAnswered, Right, EntryRight
  <2> QED BY <2>1 DEF WellAnswered
<1> QED BY <1>1, <1>2, <1>3

\* The parts of a reply.
LEMMA ReplyIs ==
  \A c : /\ Reply(c).code = c
         /\ \A reads : /\ [Reply(c) EXCEPT !.reads = reads].code = c
                       /\ [Reply(c) EXCEPT !.reads = reads].reads = reads
         /\ \A n : [Reply(c) EXCEPT !.n = n].code = c
BY DEF Reply

\* The record of a request that was just asked.
LEMMA AtIs ==
  ASSUME NEW req, NEW i
  PROVE  At(req, i) = [at |-> "asked", of |-> i, req |-> req, plan |-> << >>,
                       reply |-> Reply("NONE"), cause |-> None, saw |-> None]
<1> DEFINE nothing == [verb |-> "none"]
           at == At(req, i)
           blank == Reply("NONE")
<1>1. Idle = [at |-> "idle", of |-> "none", req |-> nothing, plan |-> << >>,
              reply |-> blank, cause |-> None, saw |-> None]
  BY DEF Idle
<1>2. at = [Idle EXCEPT !.at = "asked", !.of = i, !.req = req]
  BY DEF At
<1> HIDE DEF nothing, blank, at
<1>3. at = [at |-> "asked", of |-> i, req |-> req, plan |-> << >>,
            reply |-> blank, cause |-> None, saw |-> None]
  BY <1>1, <1>2
<1> QED BY <1>3 DEF at, blank

\* An answer of the handler that serves no read.
LEMMA AnswersAre ==
  ASSUME NEW req, NEW i, NEW reply, NEW recorded, Answers(req, i, reply, recorded),
         req.verb # "sb/read" \/ reply.code # "OK"
  PROVE  WellAnswered(call')
<1>1. call' = [at |-> "answered", of |-> i, req |-> req, plan |-> << >>,
               reply |-> reply, cause |-> None, saw |-> None]
  BY AtIs DEF Answers
<1> QED BY <1>1 DEF WellAnswered, ACall

\* An answer of the task that serves no read.
LEMMA AnswerIs ==
  ASSUME CallTyped, NEW reply, NEW recorded, Answer(reply, recorded),
         call.req.verb # "sb/read" \/ reply.code # "OK"
  PROVE  WellAnswered(call')
<1>1. call' = [at |-> "answered", of |-> call.of, req |-> call.req, plan |-> call.plan,
               reply |-> reply, cause |-> call.cause, saw |-> call.saw]
  BY DEF Answer, CallTyped
<1> QED BY <1>1 DEF WellAnswered, ACall

\* A failed read is answered well.
LEMMA FailsRight ==
  ASSUME CallTyped, Pending, call.at = "sent", call.req.verb = "sb/read", NEW text, NEW cause,
         call' = [at |-> "answered", of |-> call.of, req |-> call.req, plan |-> call.plan,
                  reply |-> FailsWith(text), cause |-> cause, saw |-> call.saw]
  PROVE  WellAnswered(call')
<1> DEFINE reads == Reads(call.plan, << >>, agent_failure_code(text))
<1>1. FailsWith(text).reads = reads
  BY ReplyIs DEF FailsWith
<1>2. Right(call.plan, reads, cause, None)
  BY FailuresTell, FailureIsOnEach
<1>3. DOMAIN reads = DOMAIN call.req.refs[1]
  BY ReadsAre DEF Pending
<1>4. call.saw = None
  BY DEF Pending
<1> HIDE DEF reads
<1> QED BY <1>1, <1>2, <1>3, <1>4 DEF WellAnswered, ACall

\* A served read is, if what is known of each id it asks for is known.
LEMMA GivesRight ==
  ASSUME CallTyped, Pending, call.at = "sent", call.req.verb = "sb/read",
         NEW readings, NEW saw, Gives(readings, saw),
         \A id \in PlannedIds(call.plan) : Known(id, readings, saw)
  PROVE  WellAnswered(call')
<1> DEFINE reads == Reads(call.plan, readings, None)
           reply == [Reply("OK") EXCEPT !.reads = reads]
<1>1. reply.reads = reads
  BY ReplyIs
<1>2. Right(call.plan, reads, None, saw)
  BY KnownIsRight
<1>3. DOMAIN reads = DOMAIN call.req.refs[1]
  BY ReadsAre DEF Pending
<1>4. call.cause = None
  BY DEF Pending
<1>5. call' = [at |-> "answered", of |-> call.of, req |-> call.req, plan |-> call.plan,
               reply |-> reply, cause |-> call.cause, saw |-> saw]
  BY DEF Gives, CallTyped
<1> HIDE DEF reads, reply
<1> QED BY <1>1, <1>2, <1>3, <1>4, <1>5 DEF WellAnswered, ACall

----------------------------------------------------------------------------
(* The handler.                                                            *)

Sound == CallTyped /\ Pending /\ ReadAnswersEach

\* What is sent to a task is pending; without a task it is refused.
LEMMA SendKeeps ==
  ASSUME NEW req, NEW i \in Instances, NEW plan, Send(req, i, plan),
         req.verb = "sb/read" => DOMAIN plan = DOMAIN req.refs[1]
  PROVE  Sound'
<1>1. CASE link[i] = "gone"
  <2>1. PICK recorded : Answers(req, i, Reply("DEVICE_UNAVAILABLE"), recorded)
    BY <1>1 DEF Send
  <2> QED BY <2>1, ReplyIs, AnswersAre, Answered DEF Sound
<1>2. CASE link[i] # "gone"
  <2>1. call' = [at |-> "sent", of |-> i, req |-> req, plan |-> plan,
                 reply |-> Reply("NONE"), cause |-> None, saw |-> None]
    BY <1>2, AtIs DEF Send
  <2> QED BY <2>1 DEF Sound, CallTyped, Pending, ReadAnswersEach, ReadAnswered
<1> QED BY <1>1, <1>2

\* A read that resolves nothing is answered on the spot.
LEMMA ReadKeeps ==
  ASSUME NEW req, NEW i \in Instances, read(req, i)
  PROVE  Sound'
<1>1. CASE req.refs = None
  <2>1. PICK recorded : Answers(req, i, Reply("BAD_ARGS"), recorded)
    BY <1>1 DEF read
  <2> QED BY <2>1, ReplyIs, AnswersAre, Answered DEF Sound
<1>2. CASE req.refs # None
  <2> DEFINE plan == Plan(i, req.refs[1])
             reads == Reads(plan, << >>, None)
             reply == [Reply("OK") EXCEPT !.reads = reads]
  <2>1. DOMAIN plan = DOMAIN req.refs[1]
    BY DEF Plan
  <2>2. CASE PlannedIds(plan) = {}
    <3>1. Right(plan, reads, None, None)
      <4> HIDE DEF plan
      <4> QED BY <2>2, KnownIsRight
    <3>2. DOMAIN reads = DOMAIN req.refs[1]
      <4> HIDE DEF plan
      <4> QED BY <2>1, ReadsAre
    <3>3. call' = [at |-> "answered", of |-> i, req |-> req, plan |-> plan,
                   reply |-> reply, cause |-> None, saw |-> None]
      BY <1>2, <2>2, AtIs DEF read
    <3>4. reply.reads = reads
      BY ReplyIs
    <3> HIDE DEF plan, reads, reply
    <3>5. WellAnswered(call')
      BY <3>1, <3>2, <3>3, <3>4 DEF WellAnswered, ACall
    <3> QED BY <3>5, Answered DEF Sound
  <2>3. CASE PlannedIds(plan) # {}
    <3>1. Send(req, i, plan)
      BY <1>2, <2>3 DEF read
    <3> HIDE DEF plan
    <3> QED BY <2>1, <3>1, SendKeeps
  <2> QED BY <2>2, <2>3
<1> QED BY <1>1, <1>2

\* What the handler answers by itself is no read's data.
LEMMA EndsKeeps ==
  ASSUME NEW req, NEW i, NEW c, NEW ok, Ends(req, i, c, ok), req.verb # "sb/read"
  PROVE  Sound'
BY AnswersAre, Answered DEF Ends, Sound

\* A browse is answered, refused, or sent.
LEMMA BrowseKeeps ==
  ASSUME NEW req, NEW i \in Instances, browse(req, i)
  PROVE  Sound'
<1>1. req.verb # "sb/read"
  BY DEF browse
<1>2. \/ Ends(req, i, "BAD_ARGS", FALSE) \/ Ends(req, i, "BROWSE_FAILED", FALSE)
      \/ Ends(req, i, "OK", TRUE) \/ Send(req, i, << >>)
  BY Zenon DEF browse
<1> QED BY <1>1, <1>2, EndsKeeps, SendKeeps

\* Every verb's handler leaves a command that is pending or answered well.
LEMMA HandleKeeps ==
  ASSUME NEW req, NEW i \in Instances, Handle(req, i)
  PROVE  Sound'
<1>1. \/ status(req, i) \/ signals(req, i) \/ write(req, i) \/ read(req, i)
      \/ browse(req, i) \/ pause(req, i) \/ resume(req, i) \/ reconnect(req, i) \/ repoll(req, i)
  BY DEF Handle
<1>2. CASE status(req, i) \/ signals(req, i) \/ write(req, i)
  BY <1>2, EndsKeeps DEF status, signals, write
<1>3. CASE pause(req, i) \/ resume(req, i) \/ reconnect(req, i)
  BY <1>3, SendKeeps DEF pause, resume, reconnect
<1>4. CASE repoll(req, i)
  BY <1>4, EndsKeeps, SendKeeps DEF repoll
<1> QED BY <1>1, <1>2, <1>3, <1>4, ReadKeeps, BrowseKeeps

\* So does every request, of a device or of none.
LEMMA AskKeeps ==
  ASSUME Ask
  PROVE  Sound' /\ UNCHANGED world
<1>1. PICK req \in Requests : Misaddressed(req) \/ \E i \in Instances : Handle(req, i)
  BY DEF Ask
<1>2. CASE Misaddressed(req)
  <2>1. /\ UNCHANGED world
        /\ Answers(req, "none", Reply(Unresolved(req.addressed)), << >>)
    BY <1>2 DEF Misaddressed, Asking
  <2>2. Reply(Unresolved(req.addressed)).code # "OK"
    BY ReplyIs DEF Unresolved
  <2> QED BY <2>1, <2>2, AnswersAre, Answered DEF Sound
<1>3. CASE \E i \in Instances : Handle(req, i)
  BY <1>3, HandleKeeps DEF Handle, Asking
<1> QED BY <1>1, <1>2, <1>3

----------------------------------------------------------------------------
(* The task.                                                               *)

\* An MTConnect session's read is answered well, whatever the agent does.
LEMMA ReadNamedKeeps ==
  ASSUME CallTyped, Pending, World, ReadNamed
  PROVE  WellAnswered(call')
<1> DEFINE i == call.of
           ids == PlannedIds(call.plan)
           wanted == Wanted(i, ids)
<1>1. call.at = "sent" /\ call.req.verb = "sb/read" /\ i \in Ours /\ link[i] = "online"
  BY DEF ReadNamed, Serving
<1>2. config[i] \in Configs /\ adopted[i] \in Models
  BY <1>1 DEF World
<1>3. CASE wanted = {}
  <2>1. Gives(OfIds(Unbound(i), ids), Saw(i, << >>))
    BY <1>3 DEF ReadNamed
  <2>2. \A id \in ids : Known(id, OfIds(Unbound(i), ids), Saw(i, << >>))
    <3> HIDE DEF i, ids
    <3> QED BY <1>2, <1>3, NothingWantedIsKnown
  <2> QED BY <1>1, <2>1, <2>2, GivesRight
<1>4. CASE wanted # {}
  <2>1. PICK r \in Responses :
          IF Failure(r) # None
          THEN /\ call' = [call EXCEPT !.at = "answered", !.cause = Failure(r),
                                       !.reply = FailsWith(DeviceText(Failure(r)[1]))]
               /\ rows' = Recorded(FALSE)
          ELSE \E report \in Reports :
                 Gives(OfIds(Observed(i, report, wanted) \o Unbound(i), ids), Saw(i, report))
    BY <1>4 DEF ReadNamed
  <2>2. CASE Failure(r) # None
    <3>1. call' = [call EXCEPT !.at = "answered", !.cause = Failure(r),
                               !.reply = FailsWith(DeviceText(Failure(r)[1]))]
      BY <2>1, <2>2
    <3>2. call' = [at |-> "answered", of |-> call.of, req |-> call.req, plan |-> call.plan,
                   reply |-> FailsWith(DeviceText(Failure(r)[1])), cause |-> Failure(r),
                   saw |-> call.saw]
      BY <3>1 DEF CallTyped
    <3> QED BY <1>1, <3>2, FailsRight
  <2>3. CASE Failure(r) = None
    <3>1. PICK report \in Reports :
            Gives(OfIds(Observed(i, report, wanted) \o Unbound(i), ids), Saw(i, report))
      BY <2>1, <2>3
    <3>2. \A id \in ids :
            Known(id, OfIds(Observed(i, report, wanted) \o Unbound(i), ids), Saw(i, report))
      <4> HIDE DEF i, ids
      <4> QED BY <1>2, ServedIsKnown
    <3> QED BY <1>1, <3>1, <3>2, GivesRight
  <2> QED BY <2>2, <2>3
<1> QED BY <1>3, <1>4

\* A simulator's read is.
LEMMA ReadSimKeeps ==
  ASSUME CallTyped, Pending, ReadSim
  PROVE  WellAnswered(call')
<1> DEFINE ids == PlannedIds(call.plan)
<1>1. call.at = "sent" /\ call.req.verb = "sb/read" /\ Gives(OfIds(SimReadings, ids), None)
  BY DEF ReadSim, Serving
<1>2. SimReadings = <<[id |-> "temperature", quality |-> "GOOD", raw |-> "OK"],
                      [id |-> "pressure", quality |-> "BAD", raw |-> "SENSOR_FAULT"]>>
  BY DEF SimReadings, Reading
<1>3. SimReadings \in Seq({[id |-> "temperature", quality |-> "GOOD", raw |-> "OK"],
                           [id |-> "pressure", quality |-> "BAD", raw |-> "SENSOR_FAULT"]})
  BY <1>2
<1>4. \A j \in 1..Len(SimReadings) :
        SimReadings[j].quality = "GOOD" => SimReadings[j].raw \in {"MTC_OK", "OK"}
  BY <1>2
<1> HIDE DEF ids
<1>5. \A id \in ids : Known(id, OfIds(SimReadings, ids), None)
  BY <1>3, <1>4, FairIsKnown
<1> QED BY <1>1, <1>5, GivesRight DEF ids

\* What makes a session gives it its model.
LEMMA ConnectsKeeps ==
  ASSUME World, NEW i \in Instances, Connects(i), config' = config
  PROVE  World'
<1>1. link' = [link EXCEPT ![i] = "online"]
  BY DEF Connects
<1>2. CASE i \in Simulators
  <2>1. model' = model /\ adopted' = adopted /\ i \notin Ours
    BY <1>2, KindsApart DEF Connects
  <2> QED BY <1>1, <2>1 DEF World
<1>3. CASE i \notin Simulators
  <2>1. i \in Ours
    BY <1>3 DEF Instances
  <2>2. PICK m \in IF model[i] = Unprobed THEN Models ELSE {model[i]} :
          model' = [model EXCEPT ![i] = m] /\ adopted' = [adopted EXCEPT ![i] = m]
    BY <1>3 DEF Connects
  <2>3. m \in Models /\ m # Unprobed
    BY <2>1, <2>2, UnprobedIsNoModel DEF World
  <2> QED BY <1>1, <2>1, <2>2, <2>3 DEF World
<1> QED BY <1>2, <1>3

\* A link that goes takes nothing else with it.
LEMMA UnlinkKeeps ==
  ASSUME World, NEW i, NEW how, how # "online", link' = [link EXCEPT ![i] = how],
         UNCHANGED <<config, model, adopted>>
  PROVE  World'
BY DEF World

\* The commands that are not reads.
LEMMA OthersKeep ==
  ASSUME CallTyped, Pending, World, BrowseSim \/ Pause \/ Resume \/ Reconnect \/ Repoll
  PROVE  WellAnswered(call') /\ World'
<1>1. call.at = "sent" /\ call.of \in Instances
  BY DEF Pending, BrowseSim, Pause, Resume, Reconnect, Repoll, Serving
<1>2. CASE BrowseSim
  <2>1. call.req.verb # "sb/read" /\ UNCHANGED <<config, model, adopted, link>>
    BY <1>2 DEF BrowseSim, Serving, world
  <2>2. \E reply, recorded : Answer(reply, recorded)
    BY <1>2 DEF BrowseSim
  <2>3. WellAnswered(call')
    BY <2>1, <2>2, AnswerIs
  <2> QED BY <2>1, <2>3 DEF World
<1>3. CASE Pause \/ Resume
  <2>1. call.req.verb # "sb/read" /\ UNCHANGED <<config, model, adopted, link>>
    BY <1>3 DEF Pause, Resume, SetPaused, Serving
  <2>2. \E reply, recorded : Answer(reply, recorded)
    BY <1>3 DEF Pause, Resume, SetPaused
  <2>3. WellAnswered(call')
    BY <2>1, <2>2, AnswerIs
  <2> QED BY <2>1, <2>3 DEF World
<1>4. CASE Reconnect
  <2>1. call.req.verb # "sb/read" /\ config' = config
    BY <1>4 DEF Reconnect, Serving
  <2>2. CASE Connects(call.of) /\ Answer(Reply("OK"), Recorded(TRUE))
    BY <1>1, <2>1, <2>2, AnswerIs, ConnectsKeeps
  <2>3. CASE /\ link' = [link EXCEPT ![call.of] = "down"] /\ UNCHANGED <<model, adopted>>
             /\ Answer(Reply("RECONNECT_FAILED"), Recorded(FALSE))
    BY <2>1, <2>3, AnswerIs, UnlinkKeeps
  <2> QED BY <1>4, <2>2, <2>3 DEF Reconnect
<1>5. CASE Repoll
  <2>1. call.req.verb # "sb/read" /\ UNCHANGED <<config, model, adopted>>
    BY <1>5 DEF Repoll, Serving
  <2>2. /\ \E reply, recorded : Answer(reply, recorded)
        /\ link' = link \/ link' = [link EXCEPT ![call.of] = "down"]
    BY <1>5 DEF Repoll, RepollFails, Polled
  <2>3. WellAnswered(call')
    BY <2>1, <2>2, AnswerIs
  <2>4. CASE link' = link
    <3>1. World'
      BY <2>1, <2>4 DEF World
    <3> QED BY <2>3, <3>1
  <2> QED BY <2>1, <2>2, <2>3, <2>4, UnlinkKeeps
<1> QED BY <1>2, <1>3, <1>4, <1>5

\* What is refused while the link is down.
LEMMA RefuseKeeps ==
  ASSUME CallTyped, Pending, Refuse
  PROVE  WellAnswered(call')
<1>1. CASE call.req.verb = "sb/read" /\ Answer(FailsWith(Disconnected), Recorded(FALSE))
  <2>1. call.at = "sent"
    BY DEF Refuse
  <2>2. call' = [at |-> "answered", of |-> call.of, req |-> call.req, plan |-> call.plan,
                 reply |-> FailsWith(Disconnected), cause |-> call.cause, saw |-> call.saw]
    BY <1>1 DEF Answer, CallTyped
  <2> QED BY <1>1, <2>1, <2>2, FailsRight
<1>2. CASE call.req.verb = "repoll" /\ RepollFails(Disconnected)
  BY <1>2, AnswerIs DEF RepollFails
<1>3. CASE call.req.verb = "sb/browse" /\ Answer(Reply("BROWSE_FAILED"), Recorded(FALSE))
  BY <1>3, AnswerIs
<1> QED BY <1>1, <1>2, <1>3 DEF Refuse

\* What a task leaves behind when it ends.
LEMMA DroppedKeeps ==
  ASSUME CallTyped, Dropped
  PROVE  WellAnswered(call')
<1>1. \E recorded : Answer(Reply("DEVICE_UNAVAILABLE"), recorded)
  BY DEF Dropped, Unavailable
<1> QED BY <1>1, ReplyIs, AnswerIs

\* Everything a task answers.
LEMMA ServeKeeps ==
  ASSUME CallTyped, Pending, World, Serve
  PROVE  Sound' /\ World'
<1>1. CASE ReadNamed \/ ReadSim \/ Refuse \/ Dropped
  <2>1. WellAnswered(call')
    BY <1>1, ReadNamedKeeps, ReadSimKeeps, RefuseKeeps, DroppedKeeps
  <2>2. UNCHANGED world
    BY <1>1 DEF ReadNamed, ReadSim, Refuse, Dropped
  <2>3. World'
    BY <2>2 DEF world, World
  <2> QED BY <2>1, <2>3, Answered DEF Sound
<1>2. CASE BrowseSim \/ Pause \/ Resume \/ Reconnect \/ Repoll
  BY <1>2, OthersKeep, Answered DEF Sound
<1> QED BY <1>1, <1>2 DEF Serve

----------------------------------------------------------------------------
(* What happens beside a command.                                          *)

\* Reloads, drifts, adoptions and links do not touch the command.
LEMMA BesideKeeps ==
  ASSUME World, Beside
  PROVE  World' /\ call' = call
<1>1. CASE \E i \in Ours : Reload(i)
  BY <1>1 DEF Reload, Change, World
<1>2. CASE \E i \in Ours : Drift(i)
  <2>1. PICK i \in Ours, m \in Models : model[i] # Unprobed /\ model' = [model EXCEPT ![i] = m]
    BY <1>2 DEF Drift
  <2>2. UNCHANGED <<config, adopted, link, call>>
    BY <1>2 DEF Drift, Change
  <2> QED BY <2>1, <2>2, UnprobedIsNoModel DEF World
<1>3. CASE \E i \in Ours : Adopt(i)
  <2>1. PICK i \in Ours : link[i] = "online" /\ adopted' = [adopted EXCEPT ![i] = model[i]]
    BY <1>3 DEF Adopt
  <2>2. UNCHANGED <<config, model, link, call>>
    BY <1>3 DEF Adopt, Change
  <2> QED BY <2>1, <2>2 DEF World
<1>4. CASE \E i \in Instances : Connect(i)
  BY <1>4, ConnectsKeeps DEF Connect, Change
<1>5. CASE \E i \in Instances : LoseLink(i)
  BY <1>5, UnlinkKeeps DEF LoseLink, Change
<1>6. CASE \E i \in Instances : TaskEnds(i)
  BY <1>6, UnlinkKeeps DEF TaskEnds, Change
<1> QED BY <1>1, <1>2, <1>3, <1>4, <1>5, <1>6 DEF Beside

----------------------------------------------------------------------------
(* Results about the commands.                                             *)

\* The invariant: commands are well formed, pending ones planned, and every
\* read is answered right, whatever changed since it was resolved.
THEOREM Invariance == Spec => []Inv
<1>1. Init => Inv
  <2> SUFFICES ASSUME Init PROVE Inv
    OBVIOUS
  <2>1. CallTyped /\ Pending /\ ReadAnswersEach
    BY DEF Init, Idle, CallTyped, Pending, ReadAnswersEach, ReadAnswered
  <2>2. World
    BY DEF Init, World, Instances
  <2> QED BY <2>1, <2>2 DEF Inv
<1>2. Inv /\ [Next]_vars => Inv'
  <2> SUFFICES ASSUME Inv, [Next]_vars PROVE Inv'
    OBVIOUS
  <2>1. CallTyped /\ Pending /\ World /\ ReadAnswersEach
    BY DEF Inv
  <2>2. CASE Ask
    <3>1. World'
      BY <2>1, <2>2, AskKeeps DEF World, world
    <3> QED BY <2>2, <3>1, AskKeeps DEF Sound, Inv
  <2>3. CASE Serve
    BY <2>1, <2>3, ServeKeeps DEF Sound, Inv
  <2>4. CASE Beside
    <3>1. World' /\ call' = call
      BY <2>1, <2>4, BesideKeeps
    <3>2. CallTyped' /\ Pending' /\ ReadAnswersEach'
      BY <2>1, <3>1 DEF CallTyped, Pending, ReadAnswersEach, ReadAnswered
    <3> QED BY <3>1, <3>2 DEF Inv
  <2>5. CASE UNCHANGED vars
    BY <2>1, <2>5 DEF vars, world, Inv, CallTyped, Pending, World, ReadAnswersEach, ReadAnswered
  <2> QED BY <2>2, <2>3, <2>4, <2>5 DEF Next
<1> QED BY <1>1, <1>2, PTL DEF Spec

\* sb/read (commands.rs) answers every reference in its place and under its
\* own label, with what its session's signals and the agent's report make of
\* it, with why it cannot, or with the agent's failure.
THEOREM ReadsAnswerEach == Spec => []ReadAnswersEach
<1>1. Inv => ReadAnswersEach
  BY DEF Inv
<1> QED BY <1>1, Invariance, PTL

----------------------------------------------------------------------------
(* Start-up: what is compiled of a document.                               *)

\* Startup's own instances of Picked and Range are these.
LEMMA SamePicked ==
  /\ \A s, S : T!Picked(s, S) = Picked(s, S)
  /\ \A s : T!Range(s) = Range(s)
BY DEF T!Picked, Picked, T!Range, Range

\* All of a sequence, picked, is the sequence.
LEMMA WholeIsPicked ==
  ASSUME NEW U, NEW s \in Seq(U), NEW S, \A k \in 1..Len(s) : s[k] \in S
  PROVE  Picked(s, S) = s
<1> DEFINE z == Len(s)
<1>1. PICK F : IsPicking(F, z, s, S) /\ Picked(s, S) = F[z]
  BY PickedUnfolds
<1> DEFINE Prefix(p, n) == p \in Seq(U) /\ Len(p) = n /\ \A k \in 1..n : p[k] = s[k]
           Bad == {n \in 0..z : ~ Prefix(F[n], n)}
<1>2. z \in Nat /\ \A i \in 1..z : s[i] \in U
  OBVIOUS
<1>a. IsPicking(F, z, s, S) /\ \A i \in 1..z : s[i] \in S
  BY <1>1
<1> HIDE DEF z
<1>3. F[0] = << >> /\ \A i \in 1..z : F[i] = Append(F[i - 1], s[i])
  <2>1. \A i \in 0..z : F[i] = IF i = 0 THEN << >>
                      ELSE IF s[i] \in S THEN Append(F[i - 1], s[i]) ELSE F[i - 1]
    BY <1>a DEF IsPicking
  <2>2. 0 \in 0..z /\ \A i \in 1..z : i \in 0..z /\ i # 0
    BY <1>2
  <2> QED BY <1>a, <2>1, <2>2
<1>4. Bad = {}
  <2> SUFFICES ASSUME Bad # {} PROVE FALSE
    OBVIOUS
  <2>0. Bad \in SUBSET Nat
    BY <1>2
  <2>1. PICK m \in Bad : \A i \in Bad : m <= i
    BY <2>0, LeastExists
  <2>2. m # 0
    <3>1. << >> \in Seq(U) /\ Len(<< >>) = 0 /\ \A k \in 1..0 : << >>[k] = s[k]
      OBVIOUS
    <3>2. Prefix(F[0], 0)
      BY <1>3, <3>1
    <3> HIDE DEF Prefix
    <3> QED BY <2>1, <3>2
  <2>3. m \in 1..z /\ m - 1 \in 0..z /\ m - 1 \in Nat /\ m - 1 < m /\ (m - 1) + 1 = m
    BY <1>2, <2>1, <2>2
  <2>4. m - 1 \notin Bad
    BY <2>1, <2>3
  <2>5. Prefix(F[m - 1], m - 1)
    BY <2>3, <2>4
  <2>6. F[m] = Append(F[m - 1], s[m]) /\ s[m] \in U
    BY <1>2, <1>3, <2>3
  <2>7. Prefix(F[m], m)
    <3> DEFINE p == F[m - 1]
               q == F[m]
    <3>1. p \in Seq(U) /\ Len(p) = m - 1 /\ q = Append(p, s[m]) /\ \A k \in 1..(m - 1) : p[k] = s[k]
      BY <2>5, <2>6
    <3> HIDE DEF p, q
    <3>2. q \in Seq(U) /\ Len(q) = m /\ q[m] = s[m] /\ \A k \in 1..(m - 1) : q[k] = p[k]
      BY <2>3, <2>6, <3>1
    <3>3. \A k \in 1..m : k = m \/ k \in 1..(m - 1)
      BY <2>3
    <3> QED BY <3>1, <3>2, <3>3 DEF q
  <2> QED BY <2>1, <2>7
<1>5. Prefix(F[z], z)
  BY <1>2, <1>4
<1>6. F[z] = s
  <2> DEFINE p == F[z]
  <2>1. p \in Seq(U) /\ Len(p) = z /\ \A k \in 1..z : p[k] = s[k]
    BY <1>5
  <2> HIDE DEF p
  <2>2. p = [k \in 1..z |-> p[k]] /\ s = [k \in 1..z |-> s[k]]
    BY <2>1 DEF z
  <2> QED BY <2>1, <2>2 DEF p
<1> QED BY <1>1, <1>6

----------------------------------------------------------------------------
(* The compilation.                                                        *)

\* An instance as serde makes it.
Read(i) ==
  /\ DOMAIN i = {"id", "wellFormed", "adapter", "connection", "signals", "selection"}
  /\ DOMAIN i.connection = {"agent", "uuid", "endpoint"}
  /\ i.selection # T!None =>
       {"mode", "include", "exclude", "max"} \subseteq DOMAIN i.selection[1]
ReadList(instances) ==
  instances \in Seq(Range(instances)) /\ \A i \in Range(instances) : Read(i)

OursOf(instances) == Picked(instances, {i \in Range(instances) : i.adapter = "mtconnect"})

\* The instances of ours, in their order.
LEMMA OursAre ==
  ASSUME NEW instances, ReadList(instances)
  PROVE  /\ \A n \in DOMAIN OursOf(instances) :
              OursOf(instances)[n] \in Range(instances) /\ OursOf(instances)[n].adapter = "mtconnect"
         /\ \A i \in Range(instances) :
              i.adapter = "mtconnect" => \E n \in DOMAIN OursOf(instances) : OursOf(instances)[n] = i
<1> DEFINE S == {i \in Range(instances) : i.adapter = "mtconnect"}
           p == Picked(instances, S)
<1>1. instances \in Seq(Range(instances))
  BY DEF ReadList
<1>2. /\ p \in Seq(Range(instances))
      /\ \A k \in 1..Len(p) : p[k] \in S \cap Range(instances)
      /\ \A x \in Range(instances) : x \in S => \E k \in 1..Len(p) : p[k] = x
  <2> HIDE DEF S
  <2>1. Sifted(p, instances, S)
    BY <1>1, PickedOf
  <2> HIDE DEF p
  <2> QED BY <2>1 DEF Sifted
<1>3. OursOf(instances) = p
  BY DEF OursOf
<1> HIDE DEF p
<1>4. DOMAIN p = 1..Len(p)
  BY <1>2
<1> QED BY <1>2, <1>3, <1>4

\* An entry for each of them.
LEMMA CompiledIs ==
  ASSUME NEW instances, NEW defaults, NEW budgets
  PROVE  T!Compiled(instances, defaults, budgets) =
           [n \in DOMAIN OursOf(instances) |-> T!CompiledOf(OursOf(instances)[n], defaults, budgets)]
BY SamePicked DEF T!Compiled, T!MTConnect, OursOf

\* An instance's entry, whatever its budget.
LEMMA EntryIs ==
  ASSUME NEW i, NEW defaults, NEW budgets
  PROVE  /\ T!CompiledOf(i, defaults, budgets).id = i.id
         /\ T!CompiledOf(i, defaults, budgets).agent = i.connection.agent[1]
         /\ T!CompiledOf(i, defaults, budgets).uuid = i.connection.uuid[1]
         /\ T!CompiledOf(i, defaults, budgets).signals = i.signals
         /\ T!CompiledOf(i, defaults, budgets).selection =
              T!Stamped(i.selection, defaults, T!BudgetOf(budgets, i.id))
BY DEF T!CompiledOf, T!Binding

\* The stamp is no part of what makes a selection valid.
LEMMA StampedIsValid ==
  ASSUME NEW i, Read(i), NEW defaults, NEW one, NEW other,
         T!Stamped(i.selection, defaults, one) # T!None =>
           T!ValidSelection(T!Stamped(i.selection, defaults, one)[1]),
         T!Stamped(i.selection, defaults, other) # T!None
  PROVE  T!ValidSelection(T!Stamped(i.selection, defaults, other)[1])
<1> DEFINE s == i.selection[1]
           a == [s EXCEPT !.publish = <<defaults.mode, defaults.batch>>, !.budget = one]
           b == [s EXCEPT !.publish = <<defaults.mode, defaults.batch>>, !.budget = other]
<1>1. i.selection # T!None
  BY DEF T!Stamped
<1>2. {"mode", "include", "exclude", "max"} \subseteq DOMAIN s
  BY <1>1 DEF Read
<1>3. T!Stamped(i.selection, defaults, one) = <<a>> /\ T!Stamped(i.selection, defaults, other) = <<b>>
  BY <1>1 DEF T!Stamped, T!Some
<1>4. a.mode = b.mode /\ a.include = b.include /\ a.exclude = b.exclude /\ a.max = b.max
  <2> HIDE DEF s
  <2> QED BY <1>2
<1>5. T!ValidSelection(a)
  <2> HIDE DEF a
  <2> QED BY <1>3 DEF T!None
<1>6. T!ValidSelection(b)
  <2> HIDE DEF a, b
  <2> QED BY <1>4, <1>5 DEF T!ValidSelection
<1> HIDE DEF b
<1> QED BY <1>3, <1>6

\* Nor is it of what compiles: what the validator accepts compiles with any budgets.
LEMMA CompilesUnderAny ==
  ASSUME NEW instances, ReadList(instances), NEW agents, NEW defaults, NEW one, NEW other,
         T!Compiles(instances, agents, defaults, one)
  PROVE  T!Compiles(instances, agents, defaults, other)
<1> DEFINE ours == OursOf(instances)
           a == T!Compiled(instances, defaults, one)
           b == T!Compiled(instances, defaults, other)
<1>1. /\ \A n \in DOMAIN instances :
           IF instances[n].adapter = T!MTConnect
           THEN /\ T!Bound(instances[n].connection)
                /\ T!Serving(agents, T!Binding(instances[n].connection)[1]) # {}
           ELSE instances[n].selection = T!None
      /\ T!ValidBindings(agents, a)
  BY DEF T!Compiles
<1>2. DOMAIN a = DOMAIN ours /\ DOMAIN b = DOMAIN ours
  BY CompiledIs
<1>3. \A n \in DOMAIN ours :
        /\ Read(ours[n])
        /\ a[n] = T!CompiledOf(ours[n], defaults, one) /\ b[n] = T!CompiledOf(ours[n], defaults, other)
  BY CompiledIs, OursAre DEF ReadList
<1> HIDE DEF ours, a, b
<1>4. \A n \in DOMAIN ours : /\ a[n].agent = b[n].agent /\ a[n].uuid = b[n].uuid
                             /\ a[n].signals = b[n].signals
  BY <1>3, EntryIs
<1>5. /\ \A n \in DOMAIN a :
           /\ T!Serving(agents, a[n].agent) # {}
           /\ T!ValidSignals(a[n].signals)
           /\ a[n].selection # T!None => T!ValidSelection(a[n].selection[1])
      /\ T!IsInjective([n \in DOMAIN a |-> <<a[n].agent, a[n].uuid>>])
  BY <1>1 DEF T!ValidBindings
<1>6. ASSUME NEW n \in DOMAIN b
      PROVE  /\ T!Serving(agents, b[n].agent) # {}
             /\ T!ValidSignals(b[n].signals)
             /\ b[n].selection # T!None => T!ValidSelection(b[n].selection[1])
  <2>1. T!Serving(agents, b[n].agent) # {} /\ T!ValidSignals(b[n].signals)
    BY <1>2, <1>4, <1>5
  <2>2. ASSUME b[n].selection # T!None PROVE T!ValidSelection(b[n].selection[1])
    <3> DEFINE i == ours[n]
    <3>1. /\ a[n].selection = T!Stamped(i.selection, defaults, T!BudgetOf(one, i.id))
          /\ b[n].selection = T!Stamped(i.selection, defaults, T!BudgetOf(other, i.id))
      BY <1>2, <1>3, EntryIs
    <3>2. Read(i) /\ (a[n].selection # T!None => T!ValidSelection(a[n].selection[1]))
      BY <1>2, <1>3, <1>5
    <3> HIDE DEF i
    <3> QED BY <2>2, <3>1, <3>2, StampedIsValid
  <2> QED BY <2>1, <2>2
<1>7. [n \in DOMAIN a |-> <<a[n].agent, a[n].uuid>>] = [n \in DOMAIN b |-> <<b[n].agent, b[n].uuid>>]
  BY <1>2, <1>4
<1>8. T!ValidBindings(agents, b)
  BY <1>5, <1>6, <1>7 DEF T!ValidBindings
<1> QED BY <1>1, <1>8 DEF T!Compiles, b

\* What Build makes of a document.
AgentsFor(doc) == IF T!NeedsAgents(doc.instances) THEN T!AgentsOf(doc) ELSE << >>
EntriesOf(doc) == T!Compiled(doc.instances, T!PublishDefaults(doc.defaults), Room)
Built(doc, a, s) ==
  /\ T!Compiles(doc.instances, AgentsFor(doc), T!PublishDefaults(doc.defaults), Room)
  /\ a = [instances |-> [n \in DOMAIN doc.instances |->
                           T!WithEndpoint(doc.instances[n], AgentsFor(doc))],
          agents |-> {AgentsFor(doc)[n].id : n \in DOMAIN AgentsFor(doc)},
          backend |-> T!Backend(EntriesOf(doc))]
  /\ s = T!Registry([n \in DOMAIN EntriesOf(doc) |-> T!Restamped(EntriesOf(doc)[n], Room)])

\* An endpoint is added to an instance of ours that has none, and nothing else.
LEMMA EndpointIs ==
  ASSUME NEW i, Read(i), NEW agents
  PROVE  LET j == T!WithEndpoint(i, agents) IN
         /\ j.id = i.id /\ j.adapter = i.adapter
         /\ j.connection.agent = i.connection.agent /\ j.connection.uuid = i.connection.uuid
         /\ i.adapter = "mtconnect" => j.connection.endpoint # T!None
<1> DEFINE j == T!WithEndpoint(i, agents)
           e == T!Some(T!Endpoint(agents, i.connection))
<1>1. e # T!None
  BY DEF T!Some, T!None
<1>2. CASE i.adapter = "mtconnect" /\ i.connection.endpoint = T!None
  <2>1. j = [i EXCEPT !.connection.endpoint = e]
    BY <1>2 DEF T!WithEndpoint, T!MTConnect
  <2> HIDE DEF e, j
  <2>2. /\ DOMAIN i = {"id", "wellFormed", "adapter", "connection", "signals", "selection"}
        /\ DOMAIN i.connection = {"agent", "uuid", "endpoint"}
    BY DEF Read
  <2>3. j.id = i.id /\ j.adapter = i.adapter
        /\ j.connection = [i.connection EXCEPT !.endpoint = e]
    BY <2>1, <2>2
  <2>4. /\ j.connection.agent = i.connection.agent /\ j.connection.uuid = i.connection.uuid
        /\ j.connection.endpoint = e
    BY <2>2, <2>3
  <2> QED BY <1>1, <2>3, <2>4 DEF j
<1>3. CASE ~(i.adapter = "mtconnect" /\ i.connection.endpoint = T!None)
  <2>1. j = i
    BY <1>3 DEF T!WithEndpoint, T!MTConnect
  <2> QED BY <1>3, <2>1
<1> QED BY <1>2, <1>3

\* The backend finds of each binding the entry that was compiled for it.
LEMMA BackendFinds ==
  ASSUME NEW c, T!IsInjective([n \in DOMAIN c |-> <<c[n].agent, c[n].uuid>>]), NEW n \in DOMAIN c,
         DOMAIN c \subseteq Nat
  PROVE  /\ <<c[n].agent, c[n].uuid>> \in DOMAIN T!Backend(c)
         /\ T!Backend(c)[<<c[n].agent, c[n].uuid>>] = c[n]
<1> DEFINE key == <<c[n].agent, c[n].uuid>>
           Latest(k) == /\ key = <<c[k].agent, c[k].uuid>>
                      /\ \A m \in DOMAIN c : key = <<c[m].agent, c[m].uuid>> => m <= k
<1>1. \A k, m \in DOMAIN c : <<c[k].agent, c[k].uuid>> = <<c[m].agent, c[m].uuid>> => k = m
  BY DEF T!IsInjective
<1>2. Latest(n)
  BY <1>1
<1>3. \A k \in DOMAIN c : Latest(k) => k = n
  BY <1>1
<1>4. (CHOOSE k \in DOMAIN c : Latest(k)) = n
  <2> HIDE DEF Latest
  <2> QED BY <1>2, <1>3
<1>5. key \in {<<c[k].agent, c[k].uuid>> : k \in DOMAIN c}
  OBVIOUS
<1>6. T!Backend(c)[key] = c[CHOOSE k \in DOMAIN c : Latest(k)] /\ key \in DOMAIN T!Backend(c)
  BY <1>5 DEF T!Backend
<1> HIDE DEF Latest
<1> QED BY <1>4, <1>6

\* Every instance of ours finds its agent, its slot and its own entry.
LEMMA BuiltServes ==
  ASSUME NEW doc, ReadList(doc.instances), NEW a, NEW s, Built(doc, a, s),
         NEW n \in DOMAIN doc.instances, doc.instances[n].adapter = "mtconnect"
  PROVE  LET i == doc.instances[n]
             key == T!Binding(i.connection) IN
         /\ T!Bound(i.connection) /\ i.connection.agent[1] \in a.agents
         /\ i.id \in DOMAIN s
         /\ key \in DOMAIN a.backend
         /\ a.backend[key].id = i.id /\ <<a.backend[key].agent, a.backend[key].uuid>> = key
<1> DEFINE i == doc.instances[n]
           key == T!Binding(i.connection)
           agents == AgentsFor(doc)
           ours == OursOf(doc.instances)
           c == EntriesOf(doc)
<1>1. /\ T!Bound(i.connection) /\ T!Serving(agents, key[1]) # {}
      /\ T!ValidBindings(agents, c)
  BY DEF Built, T!Compiles, T!MTConnect, EntriesOf
<1>2. key = <<i.connection.agent[1], i.connection.uuid[1]>>
  BY DEF T!Binding
<1>3. i.connection.agent[1] \in a.agents
  <2>1. a.agents = {agents[k].id : k \in DOMAIN agents}
    BY DEF Built
  <2>2. PICK k \in DOMAIN agents : agents[k].id = key[1]
    BY <1>1 DEF T!Serving
  <2> HIDE DEF agents, i
  <2> QED BY <1>2, <2>1, <2>2
<1>4. i \in Range(doc.instances)
  BY DEF Range
<1>5. PICK k \in DOMAIN ours : ours[k] = i
  BY <1>4, OursAre
<1>6. DOMAIN c = DOMAIN ours /\ c[k] = T!CompiledOf(i, T!PublishDefaults(doc.defaults), Room)
  BY <1>5, CompiledIs DEF EntriesOf
<1>7. c[k].id = i.id /\ <<c[k].agent, c[k].uuid>> = key
  BY <1>2, <1>6, EntryIs
<1>8. DOMAIN c \subseteq Nat
  <2>1. ours \in Seq(Range(doc.instances))
    BY PickedOf DEF ReadList, OursOf, Sifted
  <2>2. DOMAIN ours \subseteq Nat
    <3> HIDE DEF ours
    <3> QED BY <2>1
  <2> QED BY <1>6, <2>2
<1>9. T!IsInjective([m \in DOMAIN c |-> <<c[m].agent, c[m].uuid>>])
  BY <1>1 DEF T!ValidBindings
<1>10. a.backend = T!Backend(c) /\ s = T!Registry([m \in DOMAIN c |-> T!Restamped(c[m], Room)])
  BY DEF Built
<1>11. key \in DOMAIN a.backend /\ a.backend[key] = c[k]
  <2> HIDE DEF c, key, ours
  <2> QED BY <1>5, <1>6, <1>7, <1>8, <1>9, <1>10, BackendFinds
<1>12. i.id \in DOMAIN s
  <2> DEFINE r == [m \in DOMAIN c |-> T!Restamped(c[m], Room)]
  <2>1. DOMAIN s = {r[m].id : m \in DOMAIN r}
    BY <1>10 DEF T!Registry
  <2>2. r[k].id = i.id
    <3>1. r[k] = T!Restamped(c[k], Room)
      BY <1>5, <1>6
    <3>2. T!Restamped(c[k], Room).id = c[k].id
      BY <1>6 DEF T!Restamped, T!CompiledOf
    <3> QED BY <1>7, <3>1, <3>2
  <2>3. k \in DOMAIN r
    BY <1>5, <1>6
  <2> HIDE DEF r
  <2> QED BY <2>1, <2>2, <2>3
<1> QED BY <1>1, <1>3, <1>7, <1>11, <1>12

----------------------------------------------------------------------------
(* The steps.                                                              *)

\* What the validator accepted, Build builds, but for what it cannot see.
LEMMA BuildBuilds ==
  ASSUME active = booted, ReadList(active.instances), T!CompilesWith(active, T!NoBudgets), T!Build
  PROVE  \/ phase' = "hosting" /\ Built(booted, app', slots')
         \/ phase' = "failed" /\ T!BeyondTheValidator'
<1> DEFINE defaults == T!PublishDefaults(active.defaults)
           agents == AgentsFor(active)
           all == active.instances
<1>1. Picked(all, {i \in Range(all) : i.wellFormed}) = all
  <2>1. all \in Seq(Range(all))
    BY DEF ReadList
  <2>2. \A n \in DOMAIN all : all[n].wellFormed
    BY DEF T!CompilesWith
  <2> HIDE DEF all
  <2>3. \A n \in 1..Len(all) : n \in DOMAIN all /\ all[n] \in Range(all)
    BY <2>1 DEF Range
  <2>4. \A n \in 1..Len(all) : all[n] \in {i \in Range(all) : i.wellFormed}
    BY <2>2, <2>3
  <2> QED BY <2>1, <2>4, WholeIsPicked
<1>2. /\ T!NeedsAgents(all) => T!AgentsParse(active)
      /\ T!Compiles(all, agents, defaults, T!NoBudgets)
  BY DEF T!CompilesWith, AgentsFor
<1>3. T!Compiles(all, agents, defaults, Room)
  BY <1>2, CompilesUnderAny
<1>4. /\ active' = active /\ vault' = vault /\ booted' = booted
      /\ IF /\ all # << >>
            /\ T!NeedsAgents(all) => T!AgentsParse(active)
            /\ T!Compiles(all, agents, defaults, Room)
            /\ \A n \in DOMAIN agents : T!CredentialsResolve(agents[n], vault)
                                          /\ T!ClientBuilds(agents[n], vault)
         THEN /\ app' = [instances |-> [n \in DOMAIN all |-> T!WithEndpoint(all[n], agents)],
                         agents |-> {agents[n].id : n \in DOMAIN agents},
                         backend |-> T!Backend(T!Compiled(all, defaults, Room))]
              /\ slots' = T!Registry([n \in DOMAIN T!Compiled(all, defaults, Room) |->
                                        T!Restamped(T!Compiled(all, defaults, Room)[n], Room)])
              /\ phase' = "hosting"
         ELSE phase' = "failed"
  BY <1>1, SamePicked DEF T!Build, AgentsFor
<1>5. CASE phase' = "failed"
  <2>1. \/ all = << >>
        \/ \E n \in DOMAIN agents : ~(T!CredentialsResolve(agents[n], vault)
                                        /\ T!ClientBuilds(agents[n], vault))
    BY <1>2, <1>3, <1>4, <1>5
  <2>2. \A n \in DOMAIN agents : agents = T!AgentsOf(active)
    BY DEF AgentsFor
  <2>3. T!BeyondTheValidator
    BY <2>1, <2>2 DEF T!BeyondTheValidator
  <2>4. T!BeyondTheValidator'
    BY <1>4, <2>3 DEF T!BeyondTheValidator
  <2> QED BY <1>5, <2>4
<1>6. CASE phase' # "failed"
  <2>1. Built(active, app', slots')
    BY <1>3, <1>4, <1>6 DEF Built, EntriesOf
  <2> QED BY <1>4, <1>6, <2>1
<1> QED BY <1>5, <1>6

\* A hosted instance has its own entry, view, telemetry and endpoint.
ServedAs(i, h) ==
  /\ h.id = i.id
  /\ i.adapter = "mtconnect" =>
       /\ h.entry # T!None /\ h.entry[1].id = i.id
       /\ <<h.entry[1].agent, h.entry[1].uuid>> = T!Binding(i.connection)
       /\ h.view = T!Some(T!Binding(i.connection))
       /\ h.telemetry = i.connection.agent
       /\ h.endpoint # T!None
Hosted(doc, all) ==
  \A n \in DOMAIN doc.instances :
    doc.instances[n].adapter \in T!Hostable =>
      \E k \in DOMAIN all : ServedAs(doc.instances[n], all[k])

\* What Host makes of one instance that was built.
View(j) ==
  [id |-> j.id, endpoint |-> j.connection.endpoint, view |-> T!Viewed(j),
   telemetry |-> T!Telemetry(j), entry |-> T!Entry(j)]

\* What was built of a document's instance serves it.
LEMMA ViewServes ==
  ASSUME ReadList(booted.instances), Built(booted, app, slots), NEW n \in DOMAIN booted.instances
  PROVE  ServedAs(booted.instances[n], View(app.instances[n]))
<1> DEFINE i == booted.instances[n]
           j == app.instances[n]
           key == T!Binding(i.connection)
<1>1. j = T!WithEndpoint(i, AgentsFor(booted)) /\ Read(i)
  BY DEF Built, ReadList, Range
<1>2. /\ j.id = i.id /\ j.adapter = i.adapter
      /\ j.connection.agent = i.connection.agent /\ j.connection.uuid = i.connection.uuid
      /\ i.adapter = "mtconnect" => j.connection.endpoint # T!None
  <2> HIDE DEF i, j
  <2> QED BY <1>1, EndpointIs
<1>3. /\ View(j).id = j.id /\ View(j).endpoint = j.connection.endpoint
      /\ View(j).view = T!Viewed(j) /\ View(j).telemetry = T!Telemetry(j)
      /\ View(j).entry = T!Entry(j)
  BY DEF View
<1>4. ASSUME i.adapter = "mtconnect"
      PROVE  /\ T!Viewed(j) = T!Some(key) /\ T!Telemetry(j) = i.connection.agent
             /\ T!Entry(j) # T!None /\ T!Entry(j)[1].id = i.id
             /\ <<T!Entry(j)[1].agent, T!Entry(j)[1].uuid>> = key
  <2>1. /\ T!Bound(i.connection) /\ i.connection.agent[1] \in app.agents
        /\ i.id \in DOMAIN slots /\ key \in DOMAIN app.backend
        /\ app.backend[key].id = i.id
        /\ <<app.backend[key].agent, app.backend[key].uuid>> = key
    BY <1>4, BuiltServes
  <2> HIDE DEF i, j
  <2>2. T!Binding(j.connection) = key /\ T!Bound(j.connection)
    BY <1>2, <2>1 DEF T!Binding, T!Bound
  <2> HIDE DEF key
  <2>3. T!Viewed(j) = T!Some(key)
    BY <1>2, <1>4, <2>1, <2>2 DEF T!Viewed, T!MTConnect
  <2>4. T!Telemetry(j) = i.connection.agent
    BY <1>2, <1>4, <2>1, <2>2 DEF T!Telemetry, T!MTConnect
  <2>5. T!Entry(j) = <<app.backend[key]>>
    BY <2>1, <2>2 DEF T!Entry, T!Some
  <2> QED BY <2>1, <2>3, <2>4, <2>5 DEF T!None
<1> HIDE DEF i, j, key
<1>5. ServedAs(i, View(j))
  BY <1>2, <1>3, <1>4 DEF ServedAs, key
<1> QED BY <1>5 DEF i, j

\* Every hostable instance is hosted, or an id is no token.
LEMMA HostHosts ==
  ASSUME active = booted, ReadList(booted.instances), Built(booted, app, slots), T!Host
  PROVE  \/ phase' = "running" /\ Hosted(booted, hosted')
         \/ phase' = "failed" /\ T!BeyondTheValidator'
<1> DEFINE all == app.instances
           S == {i \in Range(all) : i.adapter \in T!Hostable}
           known == Picked(all, S)
<1>1. /\ active' = active /\ vault' = vault /\ booted' = booted
      /\ IF \A n \in DOMAIN all : all[n].id \in Legal
         THEN hosted' = [n \in DOMAIN known |-> View(known[n])] /\ phase' = "running"
         ELSE phase' = "failed"
  BY SamePicked DEF T!Host, View
<1>2. /\ DOMAIN all = DOMAIN booted.instances
      /\ all = [n \in DOMAIN booted.instances |->
                  T!WithEndpoint(booted.instances[n], AgentsFor(booted))]
  BY DEF Built
<1>3. booted.instances \in Seq(Range(booted.instances))
      /\ \A n \in DOMAIN booted.instances : Read(booted.instances[n])
  BY DEF ReadList, Range
<1>4. \A n \in DOMAIN all : all[n].id = booted.instances[n].id
                            /\ all[n].adapter = booted.instances[n].adapter
  BY <1>2, <1>3, EndpointIs
<1>5. all \in Seq(Range(all))
  <2> DEFINE l == Len(booted.instances)
  <2>1. l \in Nat /\ DOMAIN booted.instances = 1..l
    BY <1>3
  <2> HIDE DEF l, all
  <2>2. DOMAIN all = 1..l /\ all = [n \in 1..l |-> all[n]]
    BY <1>2, <2>1
  <2>3. \A n \in 1..l : all[n] \in Range(all)
    BY <2>2 DEF Range
  <2> QED BY <2>1, <2>2, <2>3
<1>6. CASE phase' = "failed"
  <2>1. PICK n \in DOMAIN booted.instances : booted.instances[n].id \notin Legal
    BY <1>1, <1>2, <1>4, <1>6
  <2>2. T!Ids(active)[n] = booted.instances[n].id /\ n \in DOMAIN T!Ids(active)
    BY DEF T!Ids
  <2>3. T!Range(T!Ids(active)) \ Legal # {}
    BY <2>1, <2>2 DEF T!Range
  <2>4. T!BeyondTheValidator'
    BY <1>1, <2>3 DEF T!BeyondTheValidator, T!Ids
  <2> QED BY <1>6, <2>4
<1>7. CASE phase' # "failed"
  <2>1. hosted' = [n \in DOMAIN known |-> View(known[n])] /\ phase' = "running"
    BY <1>1, <1>7
  <2>2. ASSUME NEW n \in DOMAIN booted.instances, booted.instances[n].adapter \in T!Hostable
        PROVE  \E k \in DOMAIN hosted' : ServedAs(booted.instances[n], hosted'[k])
    <3>1. all[n] \in Range(all) /\ all[n] \in S
      BY <1>2, <1>4, <2>2 DEF Range
    <3>2. Sifted(known, all, S)
      <4> HIDE DEF S, all
      <4> QED BY <1>5, PickedOf
    <3> HIDE DEF known
    <3>3. PICK k \in DOMAIN known : known[k] = all[n]
      <4> HIDE DEF S, all
      <4>1. PICK k \in 1..Len(known) : known[k] = all[n]
        BY <3>1, <3>2 DEF Sifted
      <4>2. known \in Seq(Range(all))
        BY <3>2 DEF Sifted
      <4>3. k \in DOMAIN known
        BY <4>1, <4>2
      <4> QED BY <4>1, <4>3
    <3>4. ServedAs(booted.instances[n], View(all[n]))
      BY ViewServes
    <3> HIDE DEF all
    <3>5. k \in DOMAIN hosted' /\ hosted'[k] = View(known[k])
      BY <2>1, <3>3
    <3> QED BY <3>3, <3>4, <3>5
  <2> QED BY <2>1, <2>2 DEF Hosted
<1> QED BY <1>6, <1>7

----------------------------------------------------------------------------

Started ==
  /\ T!DocumentsAreRead
  /\ phase = "building" =>
       active = booted /\ booted \in Documents /\ T!CompilesWith(active, T!NoBudgets)
  /\ phase = "hosting" => active = booted /\ booted \in Documents /\ Built(booted, app, slots)
  /\ phase = "running" => Hosted(booted, hosted)
  /\ phase = "failed" => T!BeyondTheValidator

\* A document's instances are a list of records.
LEMMA DocumentsRead ==
  ASSUME T!DocumentsAreRead, NEW doc \in Documents
  PROVE  ReadList(doc.instances)
BY SamePicked DEF T!DocumentsAreRead, ReadList, Read

\* Every step keeps what the phases promise.
LEMMA StartedStep ==
  ASSUME Started, [T!Next]_(T!vars)
  PROVE  Started'
<1>0. T!DocumentsAreRead /\ T!DocumentsAreRead'
  BY DEF Started, T!DocumentsAreRead
<1>1. CASE T!Load
  <2>1. CASE phase' = "building"
    <3>1. PICK doc \in Documents : /\ T!Classify(doc, T!None) = "ACCEPT"
                                   /\ booted' = doc /\ active' = doc
      BY <1>1, <2>1 DEF T!Load
    <3>2. T!CompilesWith(doc, T!NoBudgets)
      BY <3>1 DEF T!Classify
    <3> QED BY <1>0, <2>1, <3>1, <3>2 DEF Started
  <2>2. CASE phase' = "rejected"
    BY <1>0, <2>2 DEF Started
  <2> QED BY <1>1, <2>1, <2>2 DEF T!Load
<1>2. CASE T!Build
  <2>1. /\ active = booted /\ booted \in Documents /\ T!CompilesWith(active, T!NoBudgets)
        /\ active' = active /\ booted' = booted
    BY <1>2 DEF Started, T!Build
  <2>2. ReadList(active.instances)
    BY <1>0, <2>1, DocumentsRead
  <2>3. \/ phase' = "hosting" /\ Built(booted, app', slots')
        \/ phase' = "failed" /\ T!BeyondTheValidator'
    BY <1>2, <2>1, <2>2, BuildBuilds
  <2>4. CASE phase' = "hosting" /\ Built(booted, app', slots')
    <3>1. Built(booted', app', slots')
      BY <2>1, <2>4
    <3> QED BY <1>0, <2>1, <2>4, <3>1 DEF Started
  <2>5. CASE phase' = "failed" /\ T!BeyondTheValidator'
    BY <1>0, <2>5 DEF Started
  <2> QED BY <2>3, <2>4, <2>5
<1>3. CASE T!Host
  <2>1. /\ active = booted /\ booted \in Documents /\ Built(booted, app, slots)
        /\ booted' = booted
    BY <1>3 DEF Started, T!Host
  <2>2. ReadList(booted.instances)
    BY <1>0, <2>1, DocumentsRead
  <2>3. \/ phase' = "running" /\ Hosted(booted, hosted')
        \/ phase' = "failed" /\ T!BeyondTheValidator'
    BY <1>3, <2>1, <2>2, HostHosts
  <2>4. CASE phase' = "running" /\ Hosted(booted, hosted')
    <3>1. Hosted(booted', hosted')
      BY <2>1, <2>4
    <3> QED BY <1>0, <2>4, <3>1 DEF Started
  <2>5. CASE phase' = "failed" /\ T!BeyondTheValidator'
    BY <1>0, <2>5 DEF Started
  <2> QED BY <2>3, <2>4, <2>5
<1>4. CASE T!Offer
  <2>1. phase = "running" /\ phase' = phase /\ booted' = booted /\ hosted' = hosted
    BY <1>4 DEF T!Offer
  <2>2. Hosted(booted', hosted')
    BY <2>1 DEF Started
  <2> QED BY <1>0, <2>1, <2>2 DEF Started
<1>5. CASE UNCHANGED T!vars
  <2>1. /\ phase' = phase /\ active' = active /\ booted' = booted /\ vault' = vault /\ app' = app
        /\ slots' = slots /\ hosted' = hosted
    BY <1>5 DEF T!vars
  <2>2. T!BeyondTheValidator' = T!BeyondTheValidator
    BY <2>1 DEF T!BeyondTheValidator
  <2> QED BY <1>0, <2>1, <2>2 DEF Started
<1> QED BY <1>1, <1>2, <1>3, <1>4, <1>5 DEF T!Next

----------------------------------------------------------------------------
(* The slots, from the entries.                                            *)

SlotOf(c) == T!Slot(c.signals, c.selection)

\* A registry has a slot for each id, made of an entry with that id.
LEMMA RegistryIs ==
  ASSUME NEW U, NEW c \in Seq(U)
  PROVE  /\ T!Registry(c) = [id \in DOMAIN T!Registry(c) |-> T!Registry(c)[id]]
         /\ DOMAIN T!Registry(c) = {c[n].id : n \in DOMAIN c}
         /\ \A id \in DOMAIN T!Registry(c) :
              \E n \in DOMAIN c : c[n].id = id /\ T!Registry(c)[id] = SlotOf(c[n])
<1>1. /\ T!Registry(c) = [id \in DOMAIN T!Registry(c) |-> T!Registry(c)[id]]
      /\ DOMAIN T!Registry(c) = {c[n].id : n \in DOMAIN c}
  BY DEF T!Registry
<1>2. ASSUME NEW id \in DOMAIN T!Registry(c)
      PROVE  \E n \in DOMAIN c : c[n].id = id /\ T!Registry(c)[id] = SlotOf(c[n])
  <2> DEFINE S == {n \in DOMAIN c : c[n].id = id}
             Latest(n) == c[n].id = id /\ \A k \in DOMAIN c : c[k].id = id => k <= n
             l == CHOOSE n \in DOMAIN c : Latest(n)
  <2>1. T!Registry(c)[id] = SlotOf(c[l])
    BY <1>1 DEF T!Registry, T!LastOf, SlotOf
  <2>2. S # {} /\ Len(c) \in Nat /\ S \in SUBSET (1..Len(c))
    BY <1>1
  <2>3. PICK m \in S : \A i \in S : i <= m
    <3> HIDE DEF S
    <3> QED BY <2>2, GreatestExists
  <2>4. m \in DOMAIN c /\ Latest(m)
    BY <2>3
  <2>5. l \in DOMAIN c /\ Latest(l)
    <3> HIDE DEF Latest
    <3> QED BY <2>4
  <2> HIDE DEF l
  <2> QED BY <2>1, <2>5
<1> QED BY <1>1, <1>2

\* A document's entries, one for each of its instances of ours.
LEMMA EntriesAre ==
  ASSUME NEW doc, ReadList(doc.instances)
  PROVE  /\ T!CompileWith(doc, Room) = EntriesOf(doc)
         /\ EntriesOf(doc) \in Seq(Range(EntriesOf(doc)))
         /\ \A c \in Range(EntriesOf(doc)) : \E i \in Range(doc.instances) :
              /\ i.adapter = "mtconnect"
              /\ c = T!CompiledOf(i, T!PublishDefaults(doc.defaults), Room)
         /\ \A i \in Range(doc.instances) :
              i.adapter = "mtconnect" => \E c \in Range(EntriesOf(doc)) : c.id = i.id
<1> DEFINE ours == OursOf(doc.instances)
           c == EntriesOf(doc)
<1>1. T!CompileWith(doc, Room) = c
  BY DEF T!CompileWith, EntriesOf
<1>2. c = [n \in DOMAIN ours |-> T!CompiledOf(ours[n], T!PublishDefaults(doc.defaults), Room)]
  BY CompiledIs DEF EntriesOf
<1>3. \E l \in Nat : DOMAIN ours = 1..l
  <2>1. ours \in Seq(Range(doc.instances))
    BY PickedOf DEF ReadList, OursOf, Sifted
  <2> HIDE DEF ours
  <2>2. Len(ours) \in Nat /\ DOMAIN ours = 1..Len(ours)
    BY <2>1
  <2> QED BY <2>2
<1>4. /\ \A n \in DOMAIN ours : ours[n] \in Range(doc.instances) /\ ours[n].adapter = "mtconnect"
      /\ \A i \in Range(doc.instances) :
           i.adapter = "mtconnect" => \E n \in DOMAIN ours : ours[n] = i
  BY OursAre
<1> HIDE DEF ours, c
<1>5. c \in Seq(Range(c))
  <2>1. PICK l \in Nat : DOMAIN c = 1..l
    BY <1>2, <1>3
  <2>2. c = [n \in 1..l |-> c[n]] /\ \A n \in 1..l : c[n] \in Range(c)
    BY <1>2, <2>1 DEF Range
  <2> QED BY <2>1, <2>2
<1>6. ASSUME NEW d \in Range(c)
      PROVE  \E i \in Range(doc.instances) :
               i.adapter = "mtconnect" /\ d = T!CompiledOf(i, T!PublishDefaults(doc.defaults), Room)
  BY <1>2, <1>4 DEF Range
<1>7. ASSUME NEW i \in Range(doc.instances), i.adapter = "mtconnect"
      PROVE  \E d \in Range(c) : d.id = i.id
  <2>1. PICK n \in DOMAIN ours : ours[n] = i
    BY <1>4, <1>7
  <2>2. c[n] \in Range(c) /\ c[n] = T!CompiledOf(i, T!PublishDefaults(doc.defaults), Room)
    BY <1>2, <2>1 DEF Range
  <2> QED BY <2>2, EntryIs
<1> QED BY <1>1, <1>5, <1>6, <1>7 DEF c

\* If a document's ids are apart, an entry is told by its id.
LEMMA EntriesApart ==
  ASSUME NEW doc, ReadList(doc.instances), T!UniqueIds(doc),
         NEW c \in Range(EntriesOf(doc)), NEW d \in Range(EntriesOf(doc)), c.id = d.id
  PROVE  c = d
<1> DEFINE all == doc.instances
<1>1. PICK i \in Range(all) : c = T!CompiledOf(i, T!PublishDefaults(doc.defaults), Room)
  BY EntriesAre
<1>2. PICK j \in Range(all) : d = T!CompiledOf(j, T!PublishDefaults(doc.defaults), Room)
  BY EntriesAre
<1>3. i.id = j.id
  BY <1>1, <1>2, EntryIs
<1>4. PICK n \in DOMAIN all : all[n] = i
  BY DEF Range
<1>5. PICK m \in DOMAIN all : all[m] = j
  BY DEF Range
<1>6. n = m
  BY <1>3, <1>4, <1>5 DEF T!UniqueIds, T!IsInjective, T!Ids
<1> QED BY <1>1, <1>2, <1>4, <1>5, <1>6

\* An entry that was compiled with the budgets is stamped with them already.
LEMMA RestampedIs ==
  ASSUME NEW i, NEW defaults, NEW budgets
  PROVE  T!Restamped(T!CompiledOf(i, defaults, budgets), budgets) = T!CompiledOf(i, defaults, budgets)
<1> DEFINE c == T!CompiledOf(i, defaults, budgets)
           B == T!BudgetOf(budgets, i.id)
           p == <<defaults.mode, defaults.batch>>
           s == [i.selection[1] EXCEPT !.publish = p, !.budget = B]
           sel == IF c.selection = T!None THEN T!None ELSE T!Some([c.selection[1] EXCEPT !.budget = B])
<1>1. c.id = i.id /\ c.selection = T!Stamped(i.selection, defaults, B)
  BY EntryIs
<1>2. T!Restamped(c, budgets) = [c EXCEPT !.selection = sel]
  BY <1>1 DEF T!Restamped
<1>3. sel = c.selection
  <2>1. CASE i.selection = T!None
    BY <1>1, <2>1 DEF T!Stamped
  <2>2. CASE i.selection # T!None
    <3>1. c.selection = <<s>>
      BY <1>1, <2>2 DEF T!Stamped, T!Some
    <3>2. [s EXCEPT !.budget = B] = s
      <4> DEFINE g == i.selection[1]
                 h == [g EXCEPT !.publish = p]
      <4> HIDE DEF g, p, B
      <4>1. s = [h EXCEPT !.budget = B]
        BY DEF g
      <4> HIDE DEF h, s
      <4> QED BY <4>1
    <3> HIDE DEF s
    <3>3. sel = <<[s EXCEPT !.budget = B]>>
      BY <3>1 DEF T!None, T!Some
    <3> QED BY <3>1, <3>2, <3>3
  <2> QED BY <2>1, <2>2
<1>4. [c EXCEPT !.selection = c.selection] = c
  BY DEF T!CompiledOf
<1> HIDE DEF c, sel
<1> QED BY <1>2, <1>3, <1>4 DEF c

IdsOf(doc) == {c.id : c \in Range(EntriesOf(doc))}
Entries    == UNION {Range(EntriesOf(doc)) : doc \in Documents}

\* The slots are of the ids the component was started with, and each is an
\* entry's; those of a document in force whose ids are apart are its entries'.
SlotsKept ==
  /\ active \in Documents /\ booted \in Documents /\ T!Ids(active) = T!Ids(booted)
  /\ slots = [id \in IdsOf(booted) |-> slots[id]]
  /\ \A id \in IdsOf(booted) : \E c \in Entries : slots[id] = SlotOf(c)
  /\ T!UniqueIds(active) =>
       \A c \in Range(EntriesOf(active)) : c.id \in IdsOf(booted) => slots[c.id] = SlotOf(c)

Reloaded ==
  /\ T!DocumentsAreRead /\ T!DigestTells
  /\ phase = "building" => /\ active = booted /\ booted \in Documents
                           /\ T!CompilesWith(active, T!NoBudgets)
  /\ phase \in {"hosting", "running"} => SlotsKept
  /\ phase # "running" => last.verdict = "none"
  /\ T!ChangedIsReported

\* The registry of a document's entries.
LEMMA RegistryOf ==
  ASSUME NEW doc, ReadList(doc.instances)
  PROVE  LET r == T!Registry(EntriesOf(doc)) IN
         /\ r = [id \in IdsOf(doc) |-> r[id]]
         /\ \A id \in IdsOf(doc) : \E c \in Range(EntriesOf(doc)) : c.id = id /\ r[id] = SlotOf(c)
<1> DEFINE c == EntriesOf(doc)
           r == T!Registry(c)
<1>1. c \in Seq(Range(c))
  BY EntriesAre
<1>2. /\ r = [id \in DOMAIN r |-> r[id]]
      /\ DOMAIN r = {c[n].id : n \in DOMAIN c}
      /\ \A id \in DOMAIN r : \E n \in DOMAIN c : c[n].id = id /\ r[id] = SlotOf(c[n])
  <2> HIDE DEF c
  <2> QED BY <1>1, RegistryIs
<1>3. IdsOf(doc) = {c[n].id : n \in DOMAIN c}
  BY DEF IdsOf, Range
<1> HIDE DEF c, r
<1>4. DOMAIN r = IdsOf(doc)
  BY <1>2, <1>3
<1>5. \A n \in DOMAIN c : c[n] \in Range(c)
  BY DEF Range
<1> QED BY <1>2, <1>4, <1>5 DEF c, r

\* The registry that is built is that of the document's entries.
LEMMA BuiltSlots ==
  ASSUME NEW doc, ReadList(doc.instances), NEW a, NEW s, Built(doc, a, s)
  PROVE  s = T!Registry(EntriesOf(doc))
<1> DEFINE c == EntriesOf(doc)
           q == [n \in DOMAIN c |-> T!Restamped(c[n], Room)]
<1>1. s = T!Registry(q)
  BY DEF Built
<1>2. \A n \in DOMAIN c : T!Restamped(c[n], Room) = c[n]
  <2> TAKE n \in DOMAIN c
  <2>1. c[n] \in Range(c)
    BY DEF Range
  <2>2. PICK i \in Range(doc.instances) :
          c[n] = T!CompiledOf(i, T!PublishDefaults(doc.defaults), Room)
    BY <2>1, EntriesAre
  <2> QED BY <2>2, RestampedIs
<1>3. q = c
  <2>1. c \in Seq(Range(c))
    BY EntriesAre
  <2> HIDE DEF c
  <2>2. c = [n \in DOMAIN c |-> c[n]]
    BY <2>1
  <2> QED BY <1>2, <2>2
<1> HIDE DEF q, c
<1> QED BY <1>1, <1>3 DEF c

\* Building puts every entry of the document in its slot.
LEMMA BuildSlots ==
  ASSUME NEW doc \in Documents, ReadList(doc.instances), active' = doc, booted' = doc,
         slots' = T!Registry(EntriesOf(doc))
  PROVE  SlotsKept'
<1> DEFINE r == T!Registry(EntriesOf(doc))
<1>1. /\ r = [id \in IdsOf(doc) |-> r[id]]
      /\ \A id \in IdsOf(doc) : \E c \in Range(EntriesOf(doc)) : c.id = id /\ r[id] = SlotOf(c)
  BY RegistryOf
<1> HIDE DEF r
<1>2. slots' = r /\ active' = doc /\ booted' = doc
  BY DEF r
<1>3. \A id \in IdsOf(doc) : \E c \in Entries : r[id] = SlotOf(c)
  BY <1>1 DEF Entries
<1>4. T!UniqueIds(doc) =>
        \A c \in Range(EntriesOf(doc)) : c.id \in IdsOf(doc) => r[c.id] = SlotOf(c)
  BY <1>1, EntriesApart
<1> QED BY <1>1, <1>2, <1>3, <1>4 DEF SlotsKept, IdsOf, EntriesOf, T!Ids, T!UniqueIds

\* What a reload stages: an entry that has a slot of another generation.
LEMMA StagedIs ==
  ASSUME NEW doc, ReadList(doc.instances)
  PROVE  LET next == T!Registry(T!Staged(doc, Room))
             Differs(c) == /\ c.id \in DOMAIN slots
                           /\ slots[c.id].generation # T!Generation(c.signals, c.selection) IN
         /\ T!Applied(doc) = [slots |-> T!Stored(next), changed |-> DOMAIN next]
         /\ \A id \in DOMAIN next :
              \E c \in Range(EntriesOf(doc)) : c.id = id /\ Differs(c) /\ next[id] = SlotOf(c)
         /\ \A c \in Range(EntriesOf(doc)) : Differs(c) => c.id \in DOMAIN next
<1> DEFINE all == EntriesOf(doc)
           Differs(c) == /\ c.id \in DOMAIN slots
                         /\ slots[c.id].generation # T!Generation(c.signals, c.selection)
           S == {c \in Range(all) : Differs(c)}
           p == Picked(all, S)
           next == T!Registry(T!Staged(doc, Room))
<1>1. T!Staged(doc, Room) = p
  <2>1. T!CompileWith(doc, Room) = all
    BY EntriesAre
  <2>2. T!Range(all) = Range(all) /\ \A X : T!Picked(all, X) = Picked(all, X)
    BY SamePicked
  <2> QED BY <2>1, <2>2 DEF T!Staged
<1>2. /\ p \in Seq(Range(all))
      /\ \A k \in 1..Len(p) : p[k] \in S \cap Range(all)
      /\ \A x \in Range(all) : x \in S => \E k \in 1..Len(p) : p[k] = x
  <2>1. all \in Seq(Range(all))
    BY EntriesAre
  <2> HIDE DEF all, S
  <2>2. Sifted(p, all, S)
    BY <2>1, PickedOf
  <2> HIDE DEF p
  <2> QED BY <2>2 DEF Sifted
<1>3. T!Applied(doc) = [slots |-> T!Stored(next), changed |-> DOMAIN next]
  BY DEF T!Applied
<1>4. next = T!Registry(p)
  BY <1>1
<1>5. \A c \in S : c \in Range(all) /\ Differs(c)
  OBVIOUS
<1>6. \A c \in Range(all) : Differs(c) => c \in S
  OBVIOUS
<1> HIDE DEF all, p, next, S, Differs
<1>7. /\ DOMAIN next = {p[n].id : n \in DOMAIN p}
      /\ \A id \in DOMAIN next : \E n \in DOMAIN p : p[n].id = id /\ next[id] = SlotOf(p[n])
  <2>1. p \in Seq(Range(all))
    BY <1>2
  <2>2. /\ DOMAIN T!Registry(p) = {p[n].id : n \in DOMAIN p}
        /\ \A id \in DOMAIN T!Registry(p) :
             \E n \in DOMAIN p : p[n].id = id /\ T!Registry(p)[id] = SlotOf(p[n])
    BY <2>1, RegistryIs
  <2> QED BY <1>4, <2>2
<1>8. DOMAIN p = 1..Len(p)
  BY <1>2
<1>9. \A id \in DOMAIN next : \E c \in Range(all) : c.id = id /\ Differs(c) /\ next[id] = SlotOf(c)
  BY <1>2, <1>5, <1>7, <1>8
<1>10. \A c \in Range(all) : Differs(c) => c.id \in DOMAIN next
  BY <1>2, <1>6, <1>7, <1>8
<1> QED BY <1>3, <1>9, <1>10 DEF all, next, Differs

\* A slot's generation tells what is in it.
LEMMA SlotTells ==
  ASSUME T!DigestTells, T!DocumentsAreRead, NEW c \in Entries, NEW d \in Entries
  PROVE  /\ SlotOf(c).generation = T!Generation(c.signals, c.selection)
         /\ SlotOf(c).generation = SlotOf(d).generation <=> SlotOf(c) = SlotOf(d)
         /\ T!Content(SlotOf(c)) = T!Content(SlotOf(d)) <=> SlotOf(c) = SlotOf(d)
<1>1. /\ SlotOf(c) = [signals |-> c.signals, selection |-> c.selection,
                      generation |-> T!Generation(c.signals, c.selection)]
      /\ SlotOf(d) = [signals |-> d.signals, selection |-> d.selection,
                      generation |-> T!Generation(d.signals, d.selection)]
  BY DEF SlotOf, T!Slot
<1>2. T!Generation(c.signals, c.selection) = T!Generation(d.signals, d.selection) =>
        c.signals = d.signals /\ c.selection = d.selection
  <2>1. Entries = UNION {T!Range(T!CompileWith(doc, Room)) : doc \in Documents}
    <3>1. \A doc \in Documents : T!Range(T!CompileWith(doc, Room)) = Range(EntriesOf(doc))
      BY SamePicked DEF EntriesOf, T!CompileWith
    <3> QED BY <3>1 DEF Entries
  <2> QED BY <2>1 DEF T!DigestTells
<1>3. T!Content(SlotOf(c)) = <<c.signals, c.selection>> /\ T!Content(SlotOf(d)) = <<d.signals, d.selection>>
  BY <1>1 DEF T!Content
<1> QED BY <1>1, <1>2, <1>3

\* What a reload makes of the slots, and what it reports.
LEMMA AppliedIs ==
  ASSUME T!DocumentsAreRead, T!DigestTells, SlotsKept, NEW doc \in Documents
  PROVE  LET t  == T!Applied(doc).slots
             ch == T!Applied(doc).changed IN
         /\ t = [id \in IdsOf(booted) |-> t[id]]
         /\ \A id \in IdsOf(booted) : \E c \in Entries : t[id] = SlotOf(c)
         /\ ch \subseteq IdsOf(booted) \cap IdsOf(doc)
         /\ T!UniqueIds(doc) =>
              \A c \in Range(EntriesOf(doc)) :
                c.id \in IdsOf(booted) =>
                  /\ t[c.id] = SlotOf(c)
                  /\ c.id \in ch <=> T!Content(SlotOf(c)) # T!Content(slots[c.id])
<1> DEFINE t == T!Applied(doc).slots
           ch == T!Applied(doc).changed
           next == T!Registry(T!Staged(doc, Room))
           all == EntriesOf(doc)
           gen(c) == T!Generation(c.signals, c.selection)
           Differs(c) == c.id \in DOMAIN slots /\ slots[c.id].generation # gen(c)
           ids == IdsOf(booted)
<1>0. ReadList(doc.instances)
  BY DocumentsRead
<1>1. /\ t = T!Stored(next) /\ ch = DOMAIN next
      /\ \A id \in DOMAIN next : \E c \in Range(all) : c.id = id /\ Differs(c) /\ next[id] = SlotOf(c)
      /\ \A c \in Range(all) : Differs(c) => c.id \in DOMAIN next
  <2>1. T!Applied(doc) = [slots |-> T!Stored(next), changed |-> DOMAIN next]
    BY <1>0, StagedIs
  <2>2. t = T!Stored(next) /\ ch = DOMAIN next
    <3> HIDE DEF next
    <3> QED BY <2>1
  <2>3. /\ \A id \in DOMAIN next : \E c \in Range(all) : c.id = id /\ Differs(c) /\ next[id] = SlotOf(c)
        /\ \A c \in Range(all) : Differs(c) => c.id \in DOMAIN next
    BY <1>0, StagedIs
  <2> QED BY <2>2, <2>3
<1>2. /\ DOMAIN slots = ids
      /\ \A id \in ids : \E c \in Entries : slots[id] = SlotOf(c)
  BY DEF SlotsKept
<1>3. Range(all) \subseteq Entries /\ \A c \in Range(all) : c.id \in IdsOf(doc)
  BY DEF Entries, IdsOf
<1>4. t = [id \in ids |-> IF id \in DOMAIN next THEN next[id] ELSE slots[id]]
  BY <1>1, <1>2 DEF T!Stored
<1>5. T!UniqueIds(doc) => \A c, d \in Range(all) : c.id = d.id => c = d
  BY <1>0, EntriesApart
<1>6. \A c, d \in Entries :
        /\ SlotOf(c).generation = gen(c)
        /\ SlotOf(c).generation = SlotOf(d).generation <=> SlotOf(c) = SlotOf(d)
        /\ T!Content(SlotOf(c)) = T!Content(SlotOf(d)) <=> SlotOf(c) = SlotOf(d)
  BY SlotTells
<1> HIDE DEF t, ch, next, all, gen, ids
<1>7. ch \subseteq ids \cap IdsOf(doc)
  BY <1>1, <1>2, <1>3
<1>8. \A id \in ids : \E c \in Entries : t[id] = SlotOf(c)
  BY <1>1, <1>2, <1>3, <1>4
<1>9. ASSUME T!UniqueIds(doc), NEW c \in Range(all), c.id \in ids
      PROVE  /\ t[c.id] = SlotOf(c)
             /\ c.id \in ch <=> T!Content(SlotOf(c)) # T!Content(slots[c.id])
  <2>1. PICK d \in Entries : slots[c.id] = SlotOf(d)
    BY <1>2, <1>9
  <2>2. c \in Entries
    BY <1>3
  <2>3. Differs(c) <=> SlotOf(d) # SlotOf(c)
    <3>1. Differs(c) <=> SlotOf(d).generation # gen(c)
      BY <1>2, <1>9, <2>1
    <3>2. SlotOf(c).generation = gen(c) /\ (SlotOf(d).generation = SlotOf(c).generation <=> SlotOf(d) = SlotOf(c))
      BY <1>6, <2>2
    <3> HIDE DEF Differs
    <3> QED BY <3>1, <3>2
  <2>4. c.id \in DOMAIN next <=> Differs(c)
    BY <1>1, <1>5, <1>9
  <2>5. T!Content(SlotOf(c)) # T!Content(slots[c.id]) <=> SlotOf(d) # SlotOf(c)
    BY <1>6, <2>1, <2>2
  <2>6. c.id \in ch <=> T!Content(SlotOf(c)) # T!Content(slots[c.id])
    <3> HIDE DEF Differs
    <3> QED BY <1>1, <2>3, <2>4, <2>5
  <2>7. CASE c.id \in DOMAIN next
    <3>1. PICK e \in Range(all) : e.id = c.id /\ next[c.id] = SlotOf(e)
      BY <1>1, <2>7
    <3>2. e = c
      BY <1>5, <1>9, <3>1
    <3>3. t[c.id] = next[c.id]
      BY <1>4, <1>9, <2>7
    <3> QED BY <2>6, <3>1, <3>2, <3>3
  <2>8. CASE c.id \notin DOMAIN next
    <3>1. SlotOf(d) = SlotOf(c)
      <4> HIDE DEF Differs
      <4> QED BY <2>3, <2>4, <2>8
    <3>2. t[c.id] = slots[c.id]
      BY <1>4, <1>9, <2>8
    <3> QED BY <2>1, <2>6, <3>1, <3>2
  <2> QED BY <2>7, <2>8
<1>10. t = [id \in ids |-> t[id]]
  BY <1>4
<1> QED BY <1>7, <1>8, <1>9, <1>10 DEF t, ch, all, ids

\* An accepted candidate's slots, and the report of them.
LEMMA OfferSlots ==
  ASSUME T!DocumentsAreRead, T!DigestTells, SlotsKept, NEW doc \in Documents,
         T!Ids(doc) = T!Ids(active), active' = doc, booted' = booted,
         slots' = T!Applied(doc).slots,
         last' = [verdict |-> "ACCEPT", changed |-> T!Applied(doc).changed, before |-> slots]
  PROVE  SlotsKept' /\ T!ChangedIsReported'
<1> DEFINE t == T!Applied(doc).slots
           ch == T!Applied(doc).changed
           all == EntriesOf(doc)
           ids == IdsOf(booted)
           r == T!Registry(T!CompileWith(doc, Room))
<1>1. /\ t = [id \in ids |-> t[id]]
      /\ \A id \in ids : \E c \in Entries : t[id] = SlotOf(c)
      /\ ch \subseteq ids \cap IdsOf(doc)
      /\ T!UniqueIds(doc) =>
           \A c \in Range(all) :
             c.id \in ids => /\ t[c.id] = SlotOf(c)
                             /\ c.id \in ch <=> T!Content(SlotOf(c)) # T!Content(slots[c.id])
  BY AppliedIs
<1>2. ReadList(doc.instances)
  BY DocumentsRead
<1>3. /\ DOMAIN r = IdsOf(doc)
      /\ \A id \in IdsOf(doc) : \E c \in Range(all) : c.id = id /\ r[id] = SlotOf(c)
  <2>1. r = T!Registry(all)
    BY <1>2, EntriesAre
  <2>2. /\ T!Registry(all) = [id \in IdsOf(doc) |-> T!Registry(all)[id]]
        /\ \A id \in IdsOf(doc) : \E c \in Range(all) : c.id = id /\ T!Registry(all)[id] = SlotOf(c)
    BY <1>2, RegistryOf
  <2> HIDE DEF r, all
  <2> QED BY <2>1, <2>2
<1>4. booted \in Documents /\ T!Ids(active) = T!Ids(booted)
  BY DEF SlotsKept
<1>5. slots' = t /\ last'.verdict = "ACCEPT" /\ last'.changed = ch /\ last'.before = slots
  <2> HIDE DEF t, ch
  <2> QED BY DEF t, ch
<1>6. SlotsKept'
  <2> HIDE DEF t
  <2>1. IdsOf(booted)' = ids
    BY DEF IdsOf, EntriesOf
  <2>2. EntriesOf(active)' = all
    BY DEF EntriesOf
  <2>3. Entries' = Entries /\ \A c : SlotOf(c)' = SlotOf(c)
    BY DEF Entries, EntriesOf, SlotOf
  <2>4. T!UniqueIds(active)' = T!UniqueIds(doc) /\ T!Ids(active)' = T!Ids(doc)
        /\ T!Ids(booted)' = T!Ids(booted)
    BY DEF T!UniqueIds, T!Ids
  <2> HIDE DEF ids, all
  <2> QED BY <1>1, <1>4, <1>5, <2>1, <2>2, <2>3, <2>4 DEF SlotsKept
<1>7. T!ChangedIsReported'
  <2>1. ASSUME T!UniqueIds(doc)
        PROVE  ch = {id \in DOMAIN t \cap DOMAIN r : T!Content(r[id]) # T!Content(slots[id])}
    <3>1. DOMAIN t = ids
      BY <1>1
    <3>2. \A id \in ids \cap IdsOf(doc) : id \in ch <=> T!Content(r[id]) # T!Content(slots[id])
      <4> TAKE id \in ids \cap IdsOf(doc)
      <4>1. PICK c \in Range(all) : c.id = id /\ r[id] = SlotOf(c)
        BY <1>3
      <4> HIDE DEF ch, r, all, ids
      <4> QED BY <1>1, <2>1, <4>1
    <3> HIDE DEF ch, r, ids, t
    <3> QED BY <1>1, <1>3, <3>1, <3>2
  <2>2. T!UniqueIds(active)' = T!UniqueIds(doc)
    BY DEF T!UniqueIds, T!Ids
  <2>3. T!Registry(T!CompileWith(active, Room))' = r
    OBVIOUS
  <2> HIDE DEF t, ch, r
  <2> QED BY <1>5, <2>1, <2>2, <2>3 DEF T!ChangedIsReported
<1> QED BY <1>6, <1>7

\* What is kept is kept while the document, the start and the slots are.
LEMMA SlotsStay ==
  ASSUME SlotsKept, active' = active, booted' = booted, slots' = slots
  PROVE  SlotsKept'
<1>1. /\ EntriesOf(active)' = EntriesOf(active) /\ IdsOf(booted)' = IdsOf(booted)
      /\ Entries' = Entries /\ (\A c : SlotOf(c)' = SlotOf(c))
      /\ T!Ids(active)' = T!Ids(active) /\ T!Ids(booted)' = T!Ids(booted)
      /\ T!UniqueIds(active)' = T!UniqueIds(active)
  BY DEF EntriesOf, IdsOf, Entries, SlotOf, T!Ids, T!UniqueIds
<1> QED BY <1>1 DEF SlotsKept

\* Every step keeps the slots, and reports what it changes of them.
LEMMA ReloadedStep ==
  ASSUME Reloaded, [T!Next]_(T!vars)
  PROVE  Reloaded'
<1>0. /\ T!DocumentsAreRead /\ T!DigestTells
      /\ T!DocumentsAreRead' /\ T!DigestTells'
  BY DEF Reloaded, T!DocumentsAreRead, T!DigestTells
<1>r. /\ phase # "running" => last.verdict = "none"
      /\ T!ChangedIsReported
  BY DEF Reloaded
<1>1. CASE T!Load
  <2>1. last' = last /\ phase = "loading" /\ last'.verdict = "none"
    BY <1>1, <1>r DEF T!Load
  <2>2. T!ChangedIsReported'
    BY <2>1 DEF T!ChangedIsReported
  <2>3. CASE phase' = "building"
    <3>1. PICK doc \in Documents : /\ T!Classify(doc, T!None) = "ACCEPT"
                                   /\ booted' = doc /\ active' = doc
      BY <1>1, <2>3 DEF T!Load
    <3>2. T!CompilesWith(doc, T!NoBudgets)
      BY <3>1 DEF T!Classify
    <3> QED BY <1>0, <2>1, <2>2, <2>3, <3>1, <3>2 DEF Reloaded
  <2>4. CASE phase' = "rejected"
    BY <1>0, <2>1, <2>2, <2>4 DEF Reloaded
  <2> QED BY <1>1, <2>3, <2>4 DEF T!Load
<1>2. CASE T!Build
  <2>1. /\ active = booted /\ booted \in Documents /\ T!CompilesWith(active, T!NoBudgets)
        /\ active' = active /\ booted' = booted /\ last' = last /\ last'.verdict = "none"
    BY <1>2, <1>r DEF Reloaded, T!Build
  <2>2. ReadList(active.instances)
    BY <1>0, <2>1, DocumentsRead
  <2>3. \/ phase' = "hosting" /\ Built(booted, app', slots')
        \/ phase' = "failed" /\ T!BeyondTheValidator'
    BY <1>2, <2>1, <2>2, BuildBuilds
  <2>4. T!ChangedIsReported'
    BY <2>1 DEF T!ChangedIsReported
  <2>5. CASE phase' = "hosting" /\ Built(booted, app', slots')
    <3>1. slots' = T!Registry(EntriesOf(booted))
      BY <2>1, <2>2, <2>5, BuiltSlots
    <3>2. SlotsKept'
      BY <2>1, <2>2, <3>1, BuildSlots
    <3> QED BY <1>0, <2>1, <2>4, <2>5, <3>2 DEF Reloaded
  <2>6. CASE phase' = "failed"
    BY <1>0, <2>1, <2>4, <2>6 DEF Reloaded
  <2> QED BY <2>3, <2>5, <2>6
<1>3. CASE T!Host
  <2>1. /\ active' = active /\ booted' = booted /\ last' = last /\ slots' = slots
        /\ phase = "hosting" /\ phase' \in {"running", "failed"} /\ last'.verdict = "none"
    BY <1>3, <1>r DEF T!Host
  <2>2. SlotsKept'
    BY <2>1, SlotsStay DEF Reloaded
  <2>3. T!ChangedIsReported'
    BY <2>1 DEF T!ChangedIsReported
  <2> QED BY <1>0, <2>1, <2>2, <2>3 DEF Reloaded
<1>4. CASE T!Offer
  <2>1. phase = "running" /\ phase' = phase /\ booted' = booted /\ SlotsKept
    BY <1>4 DEF T!Offer, Reloaded
  <2>2. PICK doc \in Documents :
          IF T!Classify(doc, T!Some(active)) = "ACCEPT"
          THEN /\ active' = doc
               /\ slots' = T!Applied(doc).slots
               /\ last' = [verdict |-> T!Classify(doc, T!Some(active)),
                           changed |-> T!Applied(doc).changed, before |-> slots]
          ELSE /\ last' = [verdict |-> T!Classify(doc, T!Some(active)),
                           changed |-> {}, before |-> slots]
               /\ active' = active /\ slots' = slots
    BY <1>4 DEF T!Offer
  <2>3. CASE T!Classify(doc, T!Some(active)) = "ACCEPT"
    <3>1. T!Ids(doc) = T!Ids(active)
      BY <2>3 DEF T!Classify, T!Some, T!None
    <3>2. /\ active' = doc /\ slots' = T!Applied(doc).slots
          /\ last' = [verdict |-> "ACCEPT", changed |-> T!Applied(doc).changed, before |-> slots]
      BY <2>2, <2>3
    <3>3. SlotsKept' /\ T!ChangedIsReported'
      BY <1>0, <2>1, <3>1, <3>2, OfferSlots
    <3> QED BY <1>0, <2>1, <3>3 DEF Reloaded
  <2>4. CASE T!Classify(doc, T!Some(active)) # "ACCEPT"
    <3>1. active' = active /\ slots' = slots /\ last'.before = slots
          /\ last'.verdict = T!Classify(doc, T!Some(active))
      BY <2>2, <2>4
    <3>2. SlotsKept'
      BY <2>1, <3>1, SlotsStay
    <3>3. T!ChangedIsReported'
      BY <2>4, <3>1 DEF T!ChangedIsReported
    <3> QED BY <1>0, <2>1, <3>2, <3>3 DEF Reloaded
  <2> QED BY <2>3, <2>4
<1>5. CASE UNCHANGED T!vars
  <2>1. /\ phase' = phase /\ active' = active /\ booted' = booted
        /\ slots' = slots /\ last' = last
    BY <1>5 DEF T!vars
  <2>2. T!ChangedIsReported' = T!ChangedIsReported
    BY <2>1 DEF T!ChangedIsReported
  <2>3. SlotsKept => SlotsKept'
    BY <2>1, SlotsStay
  <2> QED BY <1>0, <2>1, <2>2, <2>3 DEF Reloaded
<1> QED BY <1>1, <1>2, <1>3, <1>4, <1>5 DEF T!Next

\* While the adapters are those of the start, so are the ids of the entries.
LEMMA IdsAlike ==
  ASSUME ReadList(active.instances), ReadList(booted.instances),
         T!Ids(active) = T!Ids(booted), T!Alike(active, booted)
  PROVE  IdsOf(active) = IdsOf(booted)
<1>1. \A doc : ReadList(doc.instances) =>
        IdsOf(doc) = {i.id : i \in {x \in Range(doc.instances) : x.adapter = "mtconnect"}}
  <2> TAKE doc
  <2> HAVE ReadList(doc.instances)
  <2>1. ASSUME NEW c \in Range(EntriesOf(doc))
        PROVE  \E i \in Range(doc.instances) : i.adapter = "mtconnect" /\ c.id = i.id
    BY EntriesAre, EntryIs
  <2>2. \A i \in Range(doc.instances) :
          i.adapter = "mtconnect" => \E c \in Range(EntriesOf(doc)) : c.id = i.id
    BY EntriesAre
  <2> QED BY <2>1, <2>2 DEF IdsOf
<1> DEFINE a == active.instances
           b == booted.instances
<1>2. DOMAIN a = DOMAIN b /\ \A n \in DOMAIN a : a[n].id = b[n].id /\ a[n].adapter = b[n].adapter
  <2>1. DOMAIN T!Ids(active) = DOMAIN a /\ DOMAIN T!Ids(booted) = DOMAIN b
    BY DEF T!Ids
  <2>2. \A n \in DOMAIN a : T!Ids(active)[n] = a[n].id
    BY DEF T!Ids
  <2>3. \A n \in DOMAIN b : T!Ids(booted)[n] = b[n].id
    BY DEF T!Ids
  <2> QED BY <2>1, <2>2, <2>3 DEF T!Alike
<1> HIDE DEF a, b
<1>3. {i.id : i \in {x \in Range(a) : x.adapter = "mtconnect"}} =
      {i.id : i \in {x \in Range(b) : x.adapter = "mtconnect"}}
  BY <1>2 DEF Range
<1> QED BY <1>1, <1>3 DEF a, b

\* Slots that are kept are those of a restart.
LEMMA KeptIsRestart ==
  ASSUME T!DocumentsAreRead, SlotsKept, T!UniqueIds(active), T!Alike(active, booted)
  PROVE  slots = T!Registry(T!CompileWith(active, Room))
<1> DEFINE r == T!Registry(EntriesOf(active))
           ids == IdsOf(active)
<1>1. /\ active \in Documents /\ booted \in Documents /\ T!Ids(active) = T!Ids(booted)
      /\ slots = [id \in IdsOf(booted) |-> slots[id]]
      /\ \A c \in Range(EntriesOf(active)) : c.id \in IdsOf(booted) => slots[c.id] = SlotOf(c)
  BY DEF SlotsKept
<1>2. ReadList(active.instances) /\ ReadList(booted.instances)
  BY <1>1, DocumentsRead
<1>3. IdsOf(booted) = ids
  BY <1>1, <1>2, IdsAlike
<1>4. /\ r = [id \in ids |-> r[id]]
      /\ \A id \in ids : \E c \in Range(EntriesOf(active)) : c.id = id /\ r[id] = SlotOf(c)
  BY <1>2, RegistryOf
<1>5. T!Registry(T!CompileWith(active, Room)) = r
  BY <1>2, EntriesAre
<1> HIDE DEF r, ids
<1>6. \A id \in ids : slots[id] = r[id]
  BY <1>1, <1>3, <1>4
<1>7. slots = [id \in ids |-> slots[id]]
  BY <1>1, <1>3
<1>8. slots = r
  BY <1>4, <1>6, <1>7
<1> QED BY <1>5, <1>8

----------------------------------------------------------------------------
(* Results about start-up and reloads.                                     *)

\* A document the validator accepts starts, but for what it cannot see, and
\* every instance of a known adapter is hosted with its own entry, view,
\* telemetry and slot (main.rs, App::new, supervisor.rs run, MtcBackend).
THEOREM AcceptedAreHosted == T!Spec => []AcceptedIsHosted
<1>1. T!Init => Started
  BY InstancesAreRead DEF T!Init, Started
<1>2. Started /\ [T!Next]_(T!vars) => Started'
  BY StartedStep
<1>3. Started => AcceptedIsHosted
  <2> SUFFICES ASSUME Started PROVE AcceptedIsHosted
    OBVIOUS
  <2>1. phase = "failed" => T!BeyondTheValidator
    BY DEF Started
  <2>2. ASSUME phase = "running", NEW n \in DOMAIN booted.instances,
               booted.instances[n].adapter \in T!Hostable
        PROVE  \E k \in DOMAIN hosted : ServedAs(booted.instances[n], hosted[k])
    BY <2>2 DEF Started, Hosted
  <2> QED BY <2>1, <2>2 DEF AcceptedIsHosted, T!AcceptedIsHosted, ServedAs, T!MTConnect
<1> QED BY <1>1, <1>2, <1>3, PTL DEF T!Spec

\* After any reloads the slots are those a restart with the document in force
\* would make, while the adapters are those of the start, and a reload reports
\* exactly the instances whose signals it changed (SignalRegistry::apply and
\* new, generation_of, classify).
THEOREM ReloadsAreRestarts == T!Spec => []ReloadIsRestart
<1>1. T!Init => Reloaded
  BY InstancesAreRead, GenerationsTell DEF T!Init, T!Silent, Reloaded, T!ChangedIsReported
<1>2. Reloaded /\ [T!Next]_(T!vars) => Reloaded'
  BY ReloadedStep
<1>3. Reloaded => ReloadIsRestart
  BY KeptIsRestart DEF Reloaded, ReloadIsRestart, T!ReloadIsRestart
<1> QED BY <1>1, <1>2, <1>3, PTL DEF T!Spec
=============================================================================
