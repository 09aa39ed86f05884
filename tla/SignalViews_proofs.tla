-------------------------- MODULE SignalViews_proofs --------------------------
(***************************************************************************)
(* Proofs about SignalViews, for any instances, descriptions, signal       *)
(* configurations and candidates: its types, that a reload is whole or     *)
(* nothing, that a browse walk is one view, that a session announces every *)
(* change of its derived ids.                                              *)
(*                                                                         *)
(* The invariant has three parts.  Typing: what is cached, held by a       *)
(* session or fetched by a re-probe is a description its own agent gives,  *)
(* and a session's stage says what it holds.  Whole: a slot is on the      *)
(* configuration in force or still staged for it.  Paged: what the client  *)
(* has is the beginning of one view's entries, of the length its cursor    *)
(* stands at.                                                              *)
(***************************************************************************)
EXTENDS SignalViews, WellFoundedInduction, TLAPS

----------------------------------------------------------------------------
(* Picking.                                                                *)

\* A set of naturals that is not empty has a least element.
LEMMA LeastExists ==
  ASSUME NEW S \in SUBSET Nat, S # {}
  PROVE  \E m \in S : \A i \in S : m <= i
<1>1. PICK m \in S : \A i \in S : ~(<<i, m>> \in OpToRel(<, Nat))
  BY NatLessThanWellFounded, WFMin
<1>2. \A i \in S : ~(i < m)
  BY <1>1 DEF OpToRel
<1>3. \A i \in S : i \in Nat
  OBVIOUS
<1>4. \A i \in S : m <= i
  BY <1>2, <1>3
<1> QED BY <1>4

IsPicking(F, n, s, S) ==
  F = [i \in 0..n |-> IF i = 0 THEN << >>
                      ELSE IF s[i] \in S THEN Append(F[i - 1], s[i]) ELSE F[i - 1]]

\* The prefixes' pickings, of any length, are a function: by the least
\* length that had none.
LEMMA PickingExists ==
  ASSUME NEW s, NEW S, NEW n \in Nat
  PROVE  \E F : IsPicking(F, n, s, S)
<1> DEFINE Bad == {m \in Nat : ~ \E F : IsPicking(F, m, s, S)}
<1> SUFFICES ASSUME n \in Bad PROVE FALSE
  OBVIOUS
<1>1. PICK m \in Bad : \A i \in Bad : m <= i
  BY LeastExists
<1>2. m # 0
  <2>1. IsPicking([i \in 0..0 |-> << >>], 0, s, S)
    BY DEF IsPicking
  <2> QED BY <2>1
<1>3. m - 1 \in Nat /\ m - 1 \notin Bad
  BY <1>1, <1>2
<1>4. PICK F : IsPicking(F, m - 1, s, S)
  BY <1>3
<1> DEFINE G == [i \in 0..m |-> IF i < m THEN F[i]
                  ELSE IF s[m] \in S THEN Append(F[m - 1], s[m]) ELSE F[m - 1]]
<1>5. IsPicking(G, m, s, S)
  <2>1. SUFFICES ASSUME NEW i \in 0..m
        PROVE  G[i] = IF i = 0 THEN << >>
                      ELSE IF s[i] \in S THEN Append(G[i - 1], s[i]) ELSE G[i - 1]
    BY DEF IsPicking
  <2>2. CASE i = 0
    BY <1>2, <1>4, <2>2 DEF IsPicking
  <2>3. CASE i # 0 /\ i < m
    <3>1. i \in 0..(m - 1) /\ i - 1 \in 0..(m - 1) /\ i - 1 \in 0..m /\ i - 1 < m
      BY <1>1, <2>3
    <3>2. G[i] = F[i] /\ G[i - 1] = F[i - 1]
      BY <2>3, <3>1
    <3>3. F[i] = IF s[i] \in S THEN Append(F[i - 1], s[i]) ELSE F[i - 1]
      BY <1>4, <2>3, <3>1 DEF IsPicking
    <3> QED BY <2>3, <3>2, <3>3
  <2>4. CASE i = m
    BY <1>1, <1>2, <2>4
  <2> QED BY <2>2, <2>3, <2>4
<1> QED BY <1>1, <1>5

\* Picked is the last of its prefixes' pickings.
LEMMA PickedUnfolds ==
  ASSUME NEW s, NEW S, Len(s) \in Nat
  PROVE  \E F : IsPicking(F, Len(s), s, S) /\ Picked(s, S) = F[Len(s)]
<1> DEFINE F == CHOOSE f : IsPicking(f, Len(s), s, S)
<1>1. IsPicking(F, Len(s), s, S)
  BY PickingExists
<1>2. Picked(s, S) = F[Len(s)]
  BY DEF Picked, IsPicking
<1> QED BY <1>1, <1>2

Traces(f, p, n, s, S) ==
  /\ f \in [1..Len(p) -> 1..n]
  /\ \A k \in 1..Len(p) : p[k] = s[f[k]] /\ s[f[k]] \in S
  /\ \A j, k \in 1..Len(p) : j < k => f[j] < f[k]
  /\ \A i \in 1..n : s[i] \in S => \E k \in 1..Len(p) : f[k] = i

\* One more element of the source: the trace goes on, with it or without.
LEMMA TraceGrows ==
  ASSUME NEW T, NEW p \in Seq(T), NEW n \in Nat, NEW s, NEW S, NEW f, Traces(f, p, n, s, S),
         s[n + 1] \in T
  PROVE  /\ s[n + 1] \notin S => Traces(f, p, n + 1, s, S)
         /\ s[n + 1] \in S =>
              \E g : Traces(g, Append(p, s[n + 1]), n + 1, s, S)
<1>0. 1..(n + 1) = (1..n) \cup {n + 1} /\ Len(p) \in Nat
  OBVIOUS
<1>1. ASSUME s[n + 1] \notin S PROVE Traces(f, p, n + 1, s, S)
  <2>1. f \in [1..Len(p) -> 1..(n + 1)]
    BY <1>0 DEF Traces
  <2>2. \A i \in 1..(n + 1) : s[i] \in S => \E k \in 1..Len(p) : f[k] = i
    BY <1>0, <1>1 DEF Traces
  <2> QED BY <2>1, <2>2 DEF Traces
<1>2. ASSUME s[n + 1] \in S
      PROVE  \E g : Traces(g, Append(p, s[n + 1]), n + 1, s, S)
  <2> DEFINE l == Len(p)
             q == Append(p, s[n + 1])
             g == [k \in 1..(l + 1) |-> IF k = l + 1 THEN n + 1 ELSE f[k]]
  <2>1. Len(q) = l + 1 /\ q[l + 1] = s[n + 1] /\ \A k \in 1..l : q[k] = p[k]
    OBVIOUS
  <2>2. l \in Nat
    OBVIOUS
  <2>3. f \in [1..l -> 1..n] /\ (\A k \in 1..l : p[k] = s[f[k]] /\ s[f[k]] \in S)
    BY DEF Traces
  <2>4. \A j, k \in 1..l : j < k => f[j] < f[k]
    BY DEF Traces
  <2>5. \A i \in 1..n : s[i] \in S => \E k \in 1..l : f[k] = i
    BY DEF Traces
  <2> HIDE DEF l, q
  <2>6. g[l + 1] = n + 1 /\ \A k \in 1..l : g[k] = f[k] /\ g[k] \in 1..n
    BY <2>2, <2>3
  <2>7. 1..(l + 1) = (1..l) \cup {l + 1}
    BY <2>2
  <2>8. g \in [1..(l + 1) -> 1..(n + 1)]
    <3>1. \A k \in 1..(l + 1) : g[k] \in 1..(n + 1)
      BY <1>0, <2>6, <2>7
    <3> QED BY <3>1
  <2> HIDE DEF g
  <2>9. \A k \in 1..(l + 1) : q[k] = s[g[k]] /\ s[g[k]] \in S
    BY <1>2, <2>1, <2>3, <2>6, <2>7
  <2>10. \A j, k \in 1..(l + 1) : j < k => g[j] < g[k]
    <3> SUFFICES ASSUME NEW j \in 1..(l + 1), NEW k \in 1..(l + 1), j < k PROVE g[j] < g[k]
      OBVIOUS
    <3>1. j \in 1..l
      BY <2>2
    <3>2. CASE k = l + 1
      BY <2>6, <3>1, <3>2
    <3>3. CASE k \in 1..l
      BY <2>4, <2>6, <3>1, <3>3
    <3> QED BY <2>7, <3>2, <3>3
  <2>11. \A i \in 1..(n + 1) : s[i] \in S => \E k \in 1..(l + 1) : g[k] = i
    <3> SUFFICES ASSUME NEW i \in 1..(n + 1), s[i] \in S PROVE \E k \in 1..(l + 1) : g[k] = i
      OBVIOUS
    <3>1. CASE i = n + 1
      BY <2>2, <2>6, <3>1
    <3>2. CASE i \in 1..n
      <4>1. PICK k \in 1..l : f[k] = i
        BY <2>5, <3>2
      <4> QED BY <2>6, <2>7, <4>1
    <3> QED BY <1>0, <3>1, <3>2
  <2>12. Traces(g, q, n + 1, s, S)
    BY <2>1, <2>8, <2>9, <2>10, <2>11 DEF Traces
  <2> QED BY <2>12 DEF q
<1> QED BY <1>1, <1>2

\* What Picked returns for every sequence and set: the elements in the set,
\* each once per occurrence, in their order.
THEOREM PickedIs ==
  ASSUME NEW T, NEW s \in Seq(T), NEW S
  PROVE  /\ Picked(s, S) \in Seq(T)
         /\ \E f : Traces(f, Picked(s, S), Len(s), s, S)
<1>1. PICK F : IsPicking(F, Len(s), s, S) /\ Picked(s, S) = F[Len(s)]
  BY PickedUnfolds
<1> DEFINE z == Len(s)
           Bad == {n \in 0..z : ~ (F[n] \in Seq(T) /\ \E f : Traces(f, F[n], n, s, S))}
<1>2. z \in Nat /\ \A i \in 1..z : s[i] \in T
  OBVIOUS
<1>a. IsPicking(F, z, s, S)
  BY <1>1
<1> HIDE DEF z
<1>3. F[0] = << >> /\ \A i \in 1..z :
        F[i] = IF s[i] \in S THEN Append(F[i - 1], s[i]) ELSE F[i - 1]
  <2>1. \A i \in 0..z : F[i] = IF i = 0 THEN << >>
                      ELSE IF s[i] \in S THEN Append(F[i - 1], s[i]) ELSE F[i - 1]
    BY <1>a DEF IsPicking
  <2>2. 0 \in 0..z /\ \A i \in 1..z : i \in 0..z /\ i # 0
    BY <1>2
  <2> QED BY <2>1, <2>2
<1>4. Bad = {}
  <2> SUFFICES ASSUME Bad # {} PROVE FALSE
    OBVIOUS
  <2>0. Bad \in SUBSET Nat
    BY <1>2
  <2>1. PICK m \in Bad : \A i \in Bad : m <= i
    BY <2>0, LeastExists
  <2>2. m # 0
    <3>1. Traces(<< >>, << >>, 0, s, S)
      BY DEF Traces
    <3>2. << >> \in Seq(T)
      OBVIOUS
    <3> QED BY <1>3, <2>1, <3>1, <3>2
  <2>3. m \in 1..z /\ m - 1 \in 0..z /\ m - 1 \in Nat /\ m - 1 < m /\ (m - 1) + 1 = m
    BY <1>2, <2>1, <2>2
  <2>4. m - 1 \notin Bad
    BY <2>1, <2>3
  <2>5. F[m - 1] \in Seq(T) /\ \E f : Traces(f, F[m - 1], m - 1, s, S)
    BY <2>3, <2>4
  <2>6. PICK f : Traces(f, F[m - 1], m - 1, s, S)
    BY <2>5
  <2>7. s[m] \in T
    BY <1>2, <2>3
  <2>8. /\ s[m] \notin S => Traces(f, F[m - 1], m, s, S)
        /\ s[m] \in S => \E g : Traces(g, Append(F[m - 1], s[m]), m, s, S)
    <3> DEFINE n == m - 1
    <3>1. n \in Nat /\ n + 1 = m
      BY <2>3
    <3> HIDE DEF n
    <3>2. F[n] \in Seq(T) /\ Traces(f, F[n], n, s, S) /\ s[n + 1] \in T
      BY <2>5, <2>6, <2>7, <3>1 DEF n
    <3>3. /\ s[n + 1] \notin S => Traces(f, F[n], n + 1, s, S)
          /\ s[n + 1] \in S => \E g : Traces(g, Append(F[n], s[n + 1]), n + 1, s, S)
      BY <3>1, <3>2, TraceGrows
    <3> QED BY <3>1, <3>3 DEF n
  <2>9. F[m] = IF s[m] \in S THEN Append(F[m - 1], s[m]) ELSE F[m - 1]
    BY <1>3, <2>3
  <2>10. F[m] \in Seq(T)
    BY <2>5, <2>7, <2>9
  <2>11. \E g : Traces(g, F[m], m, s, S)
    BY <2>6, <2>8, <2>9
  <2> QED BY <2>1, <2>10, <2>11
<1>5. z \notin Bad /\ z \in 0..z
  BY <1>2, <1>4
<1>6. F[z] \in Seq(T) /\ \E f : Traces(f, F[z], z, s, S)
  BY <1>5
<1> QED BY <1>1, <1>6 DEF z

\* The same, without the order.
LEMMA PickedFrom ==
  ASSUME NEW T, NEW s \in Seq(T), NEW S
  PROVE  /\ Picked(s, S) \in Seq(T)
         /\ \A k \in 1..Len(Picked(s, S)) : Picked(s, S)[k] \in S \cap T
         /\ \A i \in 1..Len(s) : s[i] \in S => \E k \in 1..Len(Picked(s, S)) : Picked(s, S)[k] = s[i]
<1> DEFINE p == Picked(s, S)
           m == Len(p)
           n == Len(s)
<1>1. PICK f : p \in Seq(T) /\ Traces(f, p, n, s, S)
  BY PickedIs
<1>2. n \in Nat /\ m \in Nat /\ \A i \in 1..n : s[i] \in T
  BY <1>1
<1>3. /\ f \in [1..m -> 1..n]
      /\ \A k \in 1..m : p[k] = s[f[k]] /\ s[f[k]] \in S
      /\ \A i \in 1..n : s[i] \in S => \E k \in 1..m : f[k] = i
  BY <1>1 DEF Traces
<1> HIDE DEF p, m, n
<1>4. \A k \in 1..m : p[k] \in S \cap T
  BY <1>2, <1>3
<1>5. \A i \in 1..n : s[i] \in S => \E k \in 1..m : p[k] = s[i]
  BY <1>3
<1> QED BY <1>1, <1>4, <1>5 DEF p, m, n

----------------------------------------------------------------------------
(* Types.                                                                  *)

States  == {"off", "asked", "probed", "on"}
Session == [at : States, model : Opt(AllDocs), conf : Opt(DOMAIN Signals)]

Shapes ==
  /\ device \in [Instances -> AllDocs] /\ cache \in [Instances -> Opt(AllDocs)]
  /\ restarted \in BOOLEAN
  /\ cycle \in [todo : Seq(Instances), text : Opt(AllDocs)]
  /\ sink \in [Instances -> BOOLEAN] /\ drift \in [Instances -> BOOLEAN]
  /\ slot \in [Instances -> DOMAIN Signals]
  /\ sess \in [Instances -> Session]
  /\ notices \in [Instances -> SUBSET {"set", "cap", "budget"}]
  /\ missed \in [Instances -> BOOLEAN]

OwnProbes ==
  /\ \A i \in Instances : device[i] \in Docs[i] /\ cache[i] \in Opt(Docs[i])
                            /\ sess[i].model \in Opt(Docs[i])
  /\ cycle.text # None => cycle.todo # <<>> /\ cycle.text[1] \in Docs[Head(cycle.todo)]

Attached ==
  \A i \in Instances :
    /\ sess[i].conf # None <=> sess[i].at = "on"
    /\ sess[i].model = None <=> sess[i].at = "off"
    /\ sink[i] <=> sess[i].at = "on"
    /\ drift[i] => sink[i] /\ cache[i] # None

Typing == Shapes /\ OwnProbes /\ Attached

\* Options: an option is None or holds a member.
LEMMA Optional ==
  ASSUME NEW S
  PROVE  /\ None \in Opt(S) /\ \A x \in S : Some(x) \in Opt(S)
         /\ \A x \in Opt(S) : x # None => x = Some(x[1]) /\ x[1] \in S
         /\ \A x : Some(x) # None /\ Some(x)[1] = x
BY DEF Opt, None, Some

\* The configured instances, and what their agents may describe.
LEMMA InstancesAre ==
  /\ Order \in Seq(Instances) /\ Instances # {} /\ Head(Order) \in Instances
  /\ \A i \in Instances : Docs[i] \subseteq AllDocs /\ Docs[i] \subseteq DOMAIN Trees
  /\ \A i \in Instances : \E k \in 1..Len(Order) : Order[k] = i
<1>1. Order \in Seq(Instances) /\ Order # <<>>
  BY OrderAssumption
<1>2. Head(Order) \in Instances
  BY <1>1
<1>3. \A i \in Instances : \E k \in DOMAIN Order : Order[k] = i
  BY DEF Instances, Range
<1>4. DOMAIN Order = 1..Len(Order)
  BY <1>1
<1> QED BY <1>1, <1>2, <1>3, <1>4, ProbesAssumption DEF AllDocs

\* Typing holds at the start.
LEMMA TypingInit == Init => Typing
<1> SUFFICES ASSUME Init PROVE Typing
  OBVIOUS
<1>0. AllDocs = UNION {Docs[i] : i \in Instances}
  BY DEF AllDocs
<1>1. device \in [Instances -> AllDocs] /\ \A i \in Instances : device[i] \in Docs[i]
  BY <1>0 DEF Init
<1>2. <<>> \in Seq(Instances) /\ None \in Opt(AllDocs) /\ None \in Opt(DOMAIN Signals)
  BY Optional
<1>3. Idle \in [todo : Seq(Instances), text : Opt(AllDocs)]
  BY <1>2 DEF Idle
<1>4. Off \in Session
  BY <1>2 DEF Off, Session, States
<1>5. Shapes
  BY <1>1, <1>2, <1>3, <1>4, ConfigurationsAssumption DEF Init, Shapes
<1>6. OwnProbes
  BY <1>1, Optional DEF Init, OwnProbes, Off, Idle
<1>7. Attached
  BY DEF Init, Attached, Off
<1> QED BY <1>5, <1>6, <1>7 DEF Typing

\* refresh_model's store: what it leaves in the cache, and that an event
\* is in the queue of an attached sink whose model is cached.
LEMMA StoreTyped ==
  ASSUME Typing, NEW i \in Instances, NEW text \in Docs[i], StoreModel(i, text)
  PROVE  /\ cache' \in [Instances -> Opt(AllDocs)] /\ drift' \in [Instances -> BOOLEAN]
         /\ missed' \in [Instances -> BOOLEAN]
         /\ \A j \in Instances : cache'[j] \in Opt(Docs[j]) /\ (drift'[j] => sink[j])
         /\ \A j \in Instances : cache[j] # None => cache'[j] # None
         /\ \A j \in Instances : drift'[j] => cache'[j] # None
<1>1. text \in AllDocs /\ Some(text) \in Opt(AllDocs) /\ Some(text) \in Opt(Docs[i]) /\ Some(text) # None
  BY InstancesAre, Optional
<1>2. cache' = [cache EXCEPT ![i] = Some(text)]
  BY DEF StoreModel
<1>3. cache \in [Instances -> Opt(AllDocs)]
  BY DEF Typing, Shapes
<1>4. \A j \in Instances : cache'[j] = IF j = i THEN Some(text) ELSE cache[j]
  BY <1>2, <1>3
<1>5. cache' \in [Instances -> Opt(AllDocs)]
  BY <1>1, <1>2, <1>3
<1>6. drift \in [Instances -> BOOLEAN] /\ sink \in [Instances -> BOOLEAN] /\ missed \in [Instances -> BOOLEAN]
  BY DEF Typing, Shapes
<1>7. drift' = [drift EXCEPT ![i] = drift[i] \/ (Drifted(i, text) /\ sink[i])]
  BY DEF StoreModel
<1>8. drift' \in [Instances -> BOOLEAN]
  BY <1>6, <1>7
<1>9. \A j \in Instances : drift'[j] <=> IF j = i THEN drift[i] \/ (Drifted(i, text) /\ sink[i]) ELSE drift[j]
  BY <1>6, <1>7
<1>10. missed' = [missed EXCEPT ![i] = missed[i] \/ (Drifted(i, text) /\ ~sink[i])]
  BY DEF StoreModel
<1>11. missed' \in [Instances -> BOOLEAN]
  BY <1>6, <1>10
<1>12. \A j \in Instances : cache'[j] \in Opt(Docs[j])
  BY <1>1, <1>4 DEF Typing, OwnProbes
<1>13. \A j \in Instances : drift'[j] => sink[j]
  BY <1>9 DEF Typing, Attached
<1>14. \A j \in Instances : cache[j] # None => cache'[j] # None
  BY <1>1, <1>4
<1>15. \A j \in Instances : drift'[j] => cache'[j] # None
  BY <1>1, <1>4, <1>9, <1>14 DEF Typing, Attached
<1> QED BY <1>5, <1>8, <1>11, <1>12, <1>13, <1>14, <1>15

\* What a recompile announces.
LEMMA NoticesTyped ==
  ASSUME NEW before, NEW now
  PROVE  Notices(before, now) \in SUBSET {"set", "cap", "budget"}
BY DEF Notices

\* A session that adopts stays connected, with a model and a configuration.
LEMMA AdoptTyped ==
  ASSUME Typing, NEW i \in Instances, sess[i].at = "on",
         NEW model \in Opt(Docs[i]), model # None, Adopt(i, model)
  PROVE  /\ sess' \in [Instances -> Session]
         /\ notices' \in [Instances -> SUBSET {"set", "cap", "budget"}]
         /\ \A j \in Instances : sess'[j].model \in Opt(Docs[j])
         /\ \A j \in Instances : /\ sess'[j].at = sess[j].at
                                 /\ sess'[j].conf = None <=> sess[j].conf = None
                                 /\ sess'[j].model = None <=> sess[j].model = None
<1> DEFINE new == [sess[i] EXCEPT !.model = model, !.conf = Some(slot[i])]
<1>1. sess \in [Instances -> Session] /\ slot[i] \in DOMAIN Signals
  BY DEF Typing, Shapes
<1>2. sess' = [sess EXCEPT ![i] = new]
  BY DEF Adopt
<1>3. model \in Opt(AllDocs)
  BY InstancesAre DEF Opt
<1>4. new \in Session /\ new.at = sess[i].at /\ new.model = model /\ new.conf = Some(slot[i])
  <2>1. sess[i] \in Session /\ Some(slot[i]) \in Opt(DOMAIN Signals)
    BY <1>1, Optional
  <2> QED BY <1>3, <2>1 DEF Session
<1>5. new.conf # None /\ new.model # None
  BY <1>4, Optional
<1> HIDE DEF new
<1>6. sess' \in [Instances -> Session]
      /\ \A j \in Instances : sess'[j] = IF j = i THEN new ELSE sess[j]
  BY <1>1, <1>2, <1>4
<1>7. notices' \in [Instances -> SUBSET {"set", "cap", "budget"}]
  <2> DEFINE told == (IF sess[i].conf = Some(slot[i]) THEN {}
                      ELSE Notices(Some(Compiled(sess[i].model, sess[i].conf[1])),
                                   Compiled(sess[i].model, slot[i])))
                     \union (IF model = sess[i].model THEN {}
                             ELSE Notices(Some(Compiled(sess[i].model, slot[i])),
                                          Compiled(model, slot[i])))
  <2>1. told \in SUBSET {"set", "cap", "budget"}
    BY NoticesTyped, Zenon
  <2>2. notices' = [notices EXCEPT ![i] = told]
    BY DEF Adopt
  <2>3. notices \in [Instances -> SUBSET {"set", "cap", "budget"}]
    BY DEF Typing, Shapes
  <2> HIDE DEF told
  <2> QED BY <2>1, <2>2, <2>3
<1>8. \A j \in Instances : sess'[j].model \in Opt(Docs[j])
  BY <1>4, <1>6 DEF Typing, OwnProbes
<1>9. sess[i].conf # None /\ sess[i].model # None
  BY DEF Typing, Attached
<1>10. \A j \in Instances : /\ sess'[j].at = sess[j].at
                            /\ sess'[j].conf = None <=> sess[j].conf = None
                            /\ sess'[j].model = None <=> sess[j].model = None
  BY <1>4, <1>5, <1>6, <1>9
<1> QED BY <1>6, <1>7, <1>8, <1>10

\* A session that is made, in one of its stages.
LEMMA SessTyped ==
  ASSUME Typing, NEW i \in Instances, NEW s \in Session, s.model \in Opt(Docs[i]),
         sess' = [sess EXCEPT ![i] = s]
  PROVE  /\ sess' \in [Instances -> Session]
         /\ \A j \in Instances : sess'[j] = IF j = i THEN s ELSE sess[j]
         /\ \A j \in Instances : sess'[j].model \in Opt(Docs[j])
<1>1. sess \in [Instances -> Session]
  BY DEF Typing, Shapes
<1>2. \A j \in Instances : sess[j].model \in Opt(Docs[j])
  BY DEF Typing, OwnProbes
<1>3. \A j \in Instances : sess'[j] = IF j = i THEN s ELSE sess[j]
  BY <1>1
<1> QED BY <1>1, <1>2, <1>3

\* A restarted agent describes one of its descriptions.
LEMMA RebuildTyped ==
  ASSUME Typing, NEW i \in Instances, Rebuild(i) PROVE Typing'
<1>1. PICK d \in Docs[i] : device' = [device EXCEPT ![i] = d]
  BY DEF Rebuild
<1>2. d \in AllDocs
  BY InstancesAre
<1>3. device' \in [Instances -> AllDocs] /\ \A j \in Instances : device'[j] \in Docs[j]
  BY <1>1, <1>2 DEF Typing, Shapes, OwnProbes
<1>4. restarted' \in BOOLEAN /\ UNCHANGED <<cycle, cache, sink, drift, slot, sess, notices, missed>>
  BY DEF Rebuild
<1>5. Shapes'
  BY <1>3, <1>4 DEF Typing, Shapes
<1>6. OwnProbes'
  BY <1>3, <1>4 DEF Typing, OwnProbes
<1>7. Attached'
  BY <1>4 DEF Typing, Attached
<1> QED BY <1>5, <1>6, <1>7 DEF Typing

\* The re-probe's own steps touch the cycle alone.
LEMMA CycleTyped ==
  ASSUME Typing, BeginReprobe \/ FetchProbe \/ ProbeFailed PROVE Typing'
<1>1. /\ UNCHANGED <<device, cache, sink, drift, slot, sess, notices>>
      /\ restarted' \in BOOLEAN /\ missed' \in [Instances -> BOOLEAN]
  <2>1. CASE BeginReprobe
    BY <2>1 DEF BeginReprobe
  <2>2. CASE FetchProbe
    BY <2>2 DEF FetchProbe, Typing, Shapes
  <2>3. CASE ProbeFailed
    BY <2>3 DEF ProbeFailed, Typing, Shapes
  <2> QED BY <2>1, <2>2, <2>3
<1>2. /\ cycle' \in [todo : Seq(Instances), text : Opt(AllDocs)]
      /\ cycle'.text # None => cycle'.todo # <<>> /\ cycle'.text[1] \in Docs[Head(cycle'.todo)]
  <2>0. cycle \in [todo : Seq(Instances), text : Opt(AllDocs)] /\ None \in Opt(AllDocs)
    BY Optional DEF Typing, Shapes
  <2>1. CASE BeginReprobe
    <3> DEFINE todo == Picked(Order, {i \in Instances : sink[i]})
    <3>1. todo \in Seq(Instances)
      BY PickedFrom, InstancesAre
    <3> HIDE DEF todo
    <3>2. cycle' = [todo |-> todo, text |-> None]
      BY <2>1 DEF BeginReprobe, Idle, todo
    <3> QED BY <2>0, <3>1, <3>2
  <2>2. CASE FetchProbe
    <3> DEFINE d == device[Head(cycle.todo)]
    <3>1. Head(cycle.todo) \in Instances /\ cycle.todo # <<>>
      BY <2>0, <2>2 DEF FetchProbe
    <3>2. d \in Docs[Head(cycle.todo)] /\ d \in AllDocs
      BY <3>1 DEF Typing, OwnProbes, Shapes
    <3>3. cycle' = [cycle EXCEPT !.text = Some(d)]
      BY <2>2 DEF FetchProbe
    <3> HIDE DEF d
    <3>4. Some(d) \in Opt(AllDocs) /\ Some(d)[1] = d
      BY <3>2, Optional
    <3>5. cycle'.text = Some(d) /\ cycle'.todo = cycle.todo
      BY <2>0, <3>3
    <3>6. cycle' \in [todo : Seq(Instances), text : Opt(AllDocs)]
      BY <2>0, <3>3, <3>4
    <3> QED BY <3>1, <3>2, <3>4, <3>5, <3>6
  <2>3. CASE ProbeFailed
    BY <2>0, <2>3 DEF ProbeFailed, Idle
  <2> QED BY <2>1, <2>2, <2>3
<1>3. Shapes'
  BY <1>1, <1>2 DEF Typing, Shapes
<1>4. OwnProbes'
  BY <1>1, <1>2 DEF Typing, OwnProbes
<1>5. Attached'
  BY <1>1 DEF Typing, Attached
<1> QED BY <1>3, <1>4, <1>5 DEF Typing

\* Storing a re-probed model.
LEMMA StoreProbeTyped ==
  ASSUME Typing, StoreProbe PROVE Typing'
<1> DEFINE i == Head(cycle.todo)
           text == cycle.text[1]
<1>0. cycle \in [todo : Seq(Instances), text : Opt(AllDocs)] /\ None \in Opt(AllDocs)
  BY Optional DEF Typing, Shapes
<1>1. cycle.todo # <<>> /\ text \in Docs[i] /\ i \in Instances
  BY <1>0 DEF StoreProbe, Typing, OwnProbes
<1>2. StoreModel(i, text)
  BY DEF StoreProbe
<1>3. cycle' = [todo |-> Tail(cycle.todo), text |-> None]
  BY DEF StoreProbe
<1>4. Tail(cycle.todo) \in Seq(Instances)
  BY <1>0, <1>1
<1>5. cycle' \in [todo : Seq(Instances), text : Opt(AllDocs)] /\ cycle'.text = None
  BY <1>0, <1>3, <1>4
<1>6. UNCHANGED <<device, restarted, sink, slot, sess, notices>>
  BY DEF StoreProbe
<1> HIDE DEF i, text
<1>7. Shapes'
  BY <1>1, <1>2, <1>5, <1>6, StoreTyped DEF Typing, Shapes
<1>8. OwnProbes'
  BY <1>1, <1>2, <1>5, <1>6, StoreTyped DEF Typing, OwnProbes
<1>9. Attached'
  BY <1>1, <1>2, <1>6, StoreTyped DEF Typing, Attached
<1> QED BY <1>7, <1>8, <1>9 DEF Typing

\* connect up to the probed model.
LEMMA ConnectTyped ==
  ASSUME Typing, NEW i \in Instances, EnsureCached(i) \/ EnsureFetch(i) \/ EnsureStore(i)
  PROVE  Typing'
<1>0. /\ sess \in [Instances -> Session] /\ sess[i] \in Session
      /\ None \in Opt(DOMAIN Signals) /\ None \in Opt(AllDocs)
  BY Optional DEF Typing, Shapes
<1>1. CASE EnsureCached(i) \/ EnsureFetch(i)
  <2> DEFINE at == IF cache[i] # None THEN "probed" ELSE "asked"
             model == IF cache[i] # None THEN cache[i] ELSE Some(device[i])
             s == [at |-> at, model |-> model, conf |-> None]
  <2>1. sess' = [sess EXCEPT ![i] = s] /\ sess[i].at = "off"
    BY <1>1 DEF EnsureCached, EnsureFetch, Off
  <2>2. model \in Opt(Docs[i]) /\ model \in Opt(AllDocs) /\ model # None
    BY Optional DEF Typing, OwnProbes, Shapes
  <2>3. s \in Session /\ s.model = model /\ s.conf = None /\ s.at \in {"probed", "asked"}
    BY <1>0, <2>2 DEF Session, States
  <2> HIDE DEF s, model
  <2>4. /\ sess' \in [Instances -> Session]
        /\ \A j \in Instances : sess'[j] = IF j = i THEN s ELSE sess[j]
        /\ \A j \in Instances : sess'[j].model \in Opt(Docs[j])
    BY <2>1, <2>2, <2>3, SessTyped
  <2>5. UNCHANGED <<device, restarted, cycle, cache, sink, drift, slot, notices, missed>>
    BY <1>1 DEF EnsureCached, EnsureFetch
  <2>6. Shapes'
    BY <2>4, <2>5 DEF Typing, Shapes
  <2>7. OwnProbes'
    BY <2>4, <2>5 DEF Typing, OwnProbes
  <2>8. Attached'
    BY <2>1, <2>2, <2>3, <2>4, <2>5 DEF Typing, Attached
  <2> QED BY <2>6, <2>7, <2>8 DEF Typing
<1>2. CASE EnsureStore(i)
  <2> DEFINE s == [sess[i] EXCEPT !.at = "probed"]
             text == sess[i].model[1]
  <2>1. sess' = [sess EXCEPT ![i] = s] /\ sess[i].at = "asked"
    BY <1>2 DEF EnsureStore
  <2>2. sess[i].model # None /\ sess[i].model \in Opt(Docs[i]) /\ sess[i].conf = None /\ ~sink[i]
    BY <2>1 DEF Typing, Attached, OwnProbes
  <2>3. text \in Docs[i] /\ StoreModel(i, text)
    BY <1>2, <2>2, Optional DEF EnsureStore
  <2>4. s \in Session /\ s.model = sess[i].model /\ s.conf = None /\ s.at = "probed"
    BY <1>0, <2>2 DEF Session, States
  <2>5. UNCHANGED <<device, restarted, cycle, sink, slot, notices>>
    BY <1>2 DEF EnsureStore
  <2> HIDE DEF s, text
  <2>6. /\ sess' \in [Instances -> Session]
        /\ \A j \in Instances : sess'[j] = IF j = i THEN s ELSE sess[j]
        /\ \A j \in Instances : sess'[j].model \in Opt(Docs[j])
    BY <2>1, <2>2, <2>4, SessTyped
  <2>7. Shapes'
    BY <2>3, <2>5, <2>6, StoreTyped DEF Typing, Shapes
  <2>8. OwnProbes'
    BY <2>3, <2>5, <2>6, StoreTyped DEF Typing, OwnProbes
  <2>9. Attached'
    BY <2>1, <2>2, <2>3, <2>4, <2>5, <2>6, StoreTyped DEF Typing, Attached
  <2> QED BY <2>7, <2>8, <2>9 DEF Typing
<1> QED BY <1>1, <1>2

\* connect's end: attached, on the live configuration, with a model.
LEMMA AttachTyped ==
  ASSUME Typing, NEW i \in Instances, Attach(i) PROVE Typing'
<1> DEFINE s == [sess[i] EXCEPT !.at = "on", !.conf = Some(slot[i])]
<1>0. sess[i] \in Session /\ Some(slot[i]) \in Opt(DOMAIN Signals) /\ Some(slot[i]) # None
  BY Optional DEF Typing, Shapes
<1>1. sess' = [sess EXCEPT ![i] = s] /\ sess[i].at = "probed"
  BY DEF Attach
<1>2. s \in Session /\ s.model = sess[i].model /\ s.conf = Some(slot[i]) /\ s.at = "on"
  BY <1>0 DEF Session, States
<1>3. s.model \in Opt(Docs[i]) /\ s.model # None
  BY <1>1, <1>2 DEF Typing, OwnProbes, Attached
<1> HIDE DEF s
<1>4. /\ sess' \in [Instances -> Session]
      /\ \A j \in Instances : sess'[j] = IF j = i THEN s ELSE sess[j]
      /\ \A j \in Instances : sess'[j].model \in Opt(Docs[j])
  BY <1>1, <1>2, <1>3, SessTyped
<1>5. notices' \in [Instances -> SUBSET {"set", "cap", "budget"}]
  <2> DEFINE first == Compiled(sess[i].model, Startup.conf[i])
             live  == Compiled(sess[i].model, slot[i])
             told  == Notices(None, first) \union
                        (IF slot[i] = Startup.conf[i] THEN {} ELSE Notices(Some(first), live))
  <2>1. told \in SUBSET {"set", "cap", "budget"}
    BY NoticesTyped, Zenon
  <2>2. notices' = [notices EXCEPT ![i] = told]
    BY DEF Attach
  <2>3. notices \in [Instances -> SUBSET {"set", "cap", "budget"}]
    BY DEF Typing, Shapes
  <2> HIDE DEF told
  <2> QED BY <2>1, <2>2, <2>3
<1>6. sink' = [sink EXCEPT ![i] = TRUE] /\ drift' = [drift EXCEPT ![i] = FALSE]
  BY DEF Attach
<1>7. /\ sink' \in [Instances -> BOOLEAN] /\ drift' \in [Instances -> BOOLEAN]
      /\ \A j \in Instances : sink'[j] <=> (j = i \/ sink[j])
      /\ \A j \in Instances : drift'[j] => drift[j] /\ j # i
  BY <1>6 DEF Typing, Shapes
<1>8. UNCHANGED <<device, restarted, cycle, cache, slot, missed>>
  BY DEF Attach
<1>9. Shapes'
  BY <1>4, <1>5, <1>7, <1>8 DEF Typing, Shapes
<1>10. OwnProbes'
  BY <1>4, <1>8 DEF Typing, OwnProbes
<1>11. Attached'
  BY <1>0, <1>2, <1>3, <1>4, <1>7, <1>8 DEF Typing, Attached
<1> QED BY <1>9, <1>10, <1>11 DEF Typing

\* A read, a named read and a snapshot adopt what is live; a drained
\* drift finds a cached model.
LEMMA ServedTyped ==
  ASSUME Typing, NEW i \in Instances, Read(i) \/ Serve(i) PROVE Typing'
<1> DEFINE model == IF Read(i) /\ drift[i] THEN cache[i] ELSE sess[i].model
<1>1. Adopt(i, model) /\ sess[i].at = "on"
  BY DEF Read, Serve
<1>2. model \in Opt(Docs[i]) /\ model # None
  BY <1>1 DEF Typing, OwnProbes, Attached
<1> HIDE DEF model
<1>3. /\ sess' \in [Instances -> Session]
      /\ notices' \in [Instances -> SUBSET {"set", "cap", "budget"}]
      /\ \A j \in Instances : sess'[j].model \in Opt(Docs[j])
      /\ \A j \in Instances : /\ sess'[j].at = sess[j].at
                              /\ sess'[j].conf = None <=> sess[j].conf = None
                              /\ sess'[j].model = None <=> sess[j].model = None
  BY <1>1, <1>2, AdoptTyped
<1>4. UNCHANGED <<device, restarted, cycle, cache, sink, slot, missed>>
  BY DEF Read, Serve
<1>5. drift' \in [Instances -> BOOLEAN] /\ \A j \in Instances : drift'[j] => drift[j]
  BY DEF Read, Serve, Typing, Shapes
<1>6. Shapes'
  BY <1>3, <1>4, <1>5 DEF Typing, Shapes
<1>7. OwnProbes'
  BY <1>3, <1>4 DEF Typing, OwnProbes
<1>8. Attached'
  BY <1>3, <1>4, <1>5 DEF Typing, Attached
<1> QED BY <1>6, <1>7, <1>8 DEF Typing

\* A closed session is detached and has neither model nor configuration.
LEMMA CloseTyped ==
  ASSUME Typing, NEW i \in Instances, Close(i) PROVE Typing'
<1>1. Off \in Session /\ Off.model = None /\ Off.conf = None /\ Off.at = "off" /\ None \in Opt(Docs[i])
  BY Optional DEF Off, Session, States
<1>2. sess' = [sess EXCEPT ![i] = Off]
  BY DEF Close
<1>3. /\ sess' \in [Instances -> Session]
      /\ \A j \in Instances : sess'[j] = IF j = i THEN Off ELSE sess[j]
      /\ \A j \in Instances : sess'[j].model \in Opt(Docs[j])
  BY <1>1, <1>2, SessTyped
<1>4. sink' = [sink EXCEPT ![i] = FALSE] /\ drift' = [drift EXCEPT ![i] = FALSE]
      /\ notices' = [notices EXCEPT ![i] = {}]
  BY DEF Close
<1>5. /\ sink' \in [Instances -> BOOLEAN] /\ drift' \in [Instances -> BOOLEAN]
      /\ notices' \in [Instances -> SUBSET {"set", "cap", "budget"}]
      /\ \A j \in Instances : sink'[j] <=> (j # i /\ sink[j])
      /\ \A j \in Instances : drift'[j] => drift[j] /\ j # i
  BY <1>4 DEF Typing, Shapes
<1>6. UNCHANGED <<device, restarted, cycle, cache, slot, missed>>
  BY DEF Close
<1>7. Shapes'
  BY <1>3, <1>5, <1>6 DEF Typing, Shapes
<1>8. OwnProbes'
  BY <1>3, <1>6 DEF Typing, OwnProbes
<1>9. Attached'
  BY <1>1, <1>3, <1>5, <1>6 DEF Typing, Attached
<1> QED BY <1>7, <1>8, <1>9 DEF Typing

----------------------------------------------------------------------------
(* Reloads.                                                                *)

Change == [of : Instances, conf : DOMAIN Signals]

Whole ==
  /\ Compiles(config) /\ config.agents = Startup.agents
  /\ config.conf \in [Instances -> DOMAIN Signals]
  /\ staged \in Seq(Change)
  /\ \A k \in 1..Len(staged) : staged[k].conf = config.conf[staged[k].of]
  /\ \A i \in Instances : slot[i] = config.conf[i] \/ \E k \in 1..Len(staged) : staged[k].of = i

\* What a reload stages: for each slot that differs, the candidate's
\* configuration of that instance.
LEMMA StagedIs ==
  ASSUME Typing, NEW candidate, candidate.conf \in [Instances -> DOMAIN Signals]
  PROVE  /\ Staged(candidate) \in Seq(Change)
         /\ \A k \in 1..Len(Staged(candidate)) :
              Staged(candidate)[k].conf = candidate.conf[Staged(candidate)[k].of]
         /\ \A i \in Instances : slot[i] # candidate.conf[i] =>
              \E k \in 1..Len(Staged(candidate)) : Staged(candidate)[k].of = i
<1> DEFINE S == {i \in Instances : slot[i] # candidate.conf[i]}
           changed == Picked(Order, S)
           n == Len(changed)
<1>1. /\ changed \in Seq(Instances) /\ \A k \in 1..n : changed[k] \in Instances
      /\ \A i \in S : \E k \in 1..n : changed[k] = i
  <2>1. /\ changed \in Seq(Instances)
        /\ \A i \in 1..Len(Order) : Order[i] \in S => \E k \in 1..n : changed[k] = Order[i]
    <3>1. Order \in Seq(Instances)
      BY InstancesAre
    <3> HIDE DEF S
    <3> QED BY <3>1, PickedFrom
  <2>2. \A k \in 1..n : changed[k] \in Instances
    BY <2>1
  <2> HIDE DEF changed
  <2> QED BY <2>1, <2>2, InstancesAre
<1>2. n \in Nat
  BY <1>1
<1> DEFINE st == [k \in 1..n |-> [of |-> changed[k], conf |-> candidate.conf[changed[k]]]]
<1>3. Staged(candidate) = st
  BY DEF Staged
<1> HIDE DEF changed, n, S
<1>4. \A k \in 1..n : /\ st[k] \in Change /\ st[k].of = changed[k]
                      /\ st[k].conf = candidate.conf[changed[k]]
  BY <1>1 DEF Change
<1>5. st \in Seq(Change) /\ Len(st) = n
  BY <1>2, <1>4
<1> HIDE DEF st
<1>6. \A i \in S : \E k \in 1..n : st[k].of = i
  BY <1>1, <1>4
<1>7. \A k \in 1..n : st[k].conf = candidate.conf[st[k].of]
  BY <1>4
<1> QED BY <1>3, <1>5, <1>6, <1>7 DEF S

\* The startup configuration is in force and in the slots.
LEMMA WholeInit == Init => Whole
BY ConfigurationsAssumption, StartupAssumption DEF Init, Whole

\* An accepted candidate's agents and instances are the running ones, and
\* what its slots lack is staged.
LEMMA WholeReload ==
  ASSUME Typing, Whole, Reload PROVE Whole'
<1>1. PICK c \in Candidates : Classify(c) = "ACCEPT" /\ config' = c /\ staged' = Staged(c)
  BY DEF Reload
<1>2. c.agents = config.agents /\ DOMAIN c.conf = DOMAIN config.conf /\ Compiles(c)
  BY <1>1 DEF Classify
<1>3. c.conf \in [Instances -> DOMAIN Signals] /\ c.agents = Startup.agents
  BY <1>2, ConfigurationsAssumption DEF Whole
<1>4. slot' = slot
  BY DEF Reload
<1> QED BY <1>1, <1>2, <1>3, <1>4, StagedIs DEF Whole, Compiles

\* Storing the first staged slot leaves one slot fewer to store.
LEMMA WholeStore ==
  ASSUME Typing, Whole, StoreSlot PROVE Whole' /\ Typing'
<1> DEFINE h == Head(staged)
           n == Len(staged)
<1>1. staged # <<>> /\ staged \in Seq(Change) /\ n \in Nat /\ n >= 1 /\ 1 \in 1..n /\ h = staged[1]
  BY DEF StoreSlot, Whole
<1>2. slot' = [slot EXCEPT ![h.of] = h.conf] /\ staged' = Tail(staged)
  BY DEF StoreSlot
<1>3. h \in Change /\ h.of \in Instances /\ h.conf \in DOMAIN Signals /\ h.conf = config.conf[h.of]
  <2>1. h \in Change
    BY <1>1
  <2> QED BY <1>1, <2>1 DEF Whole, Change
<1>4. /\ Tail(staged) \in Seq(Change) /\ Len(Tail(staged)) = n - 1
      /\ \A k \in 1..(n - 1) : Tail(staged)[k] = staged[k + 1]
  BY <1>1
<1>5. slot \in [Instances -> DOMAIN Signals]
  BY DEF Typing, Shapes
<1> HIDE DEF h, n
<1>6. slot' \in [Instances -> DOMAIN Signals]
      /\ \A i \in Instances : slot'[i] = IF i = h.of THEN h.conf ELSE slot[i]
  BY <1>2, <1>3, <1>5
<1>7. \A k \in 1..(n - 1) : k + 1 \in 1..n
  BY <1>1
<1>8. \A i \in Instances : slot'[i] = config.conf[i] \/ \E k \in 1..(n - 1) : Tail(staged)[k].of = i
  <2> SUFFICES ASSUME NEW i \in Instances, slot'[i] # config.conf[i]
               PROVE  \E k \in 1..(n - 1) : Tail(staged)[k].of = i
    OBVIOUS
  <2>1. i # h.of /\ slot[i] # config.conf[i]
    BY <1>3, <1>6
  <2>2. PICK k \in 1..n : staged[k].of = i
    BY <2>1 DEF Whole, n
  <2>3. k # 1 /\ k - 1 \in 1..(n - 1) /\ (k - 1) + 1 = k
    BY <1>1, <2>1, <2>2
  <2> QED BY <1>4, <2>2, <2>3
<1>9. \A k \in 1..(n - 1) : Tail(staged)[k].conf = config.conf[Tail(staged)[k].of]
  BY <1>4, <1>7 DEF Whole, n
<1>10. /\ UNCHANGED <<device, restarted, cycle, cache, sink, drift, sess, notices, missed>>
       /\ UNCHANGED config
  BY DEF StoreSlot
<1>11. Whole'
  BY <1>2, <1>4, <1>8, <1>9, <1>10 DEF Whole, Compiles
<1>12. Shapes'
  BY <1>6, <1>10 DEF Typing, Shapes
<1>13. OwnProbes'
  BY <1>10 DEF Typing, OwnProbes
<1>14. Attached'
  BY <1>10 DEF Typing, Attached
<1> QED BY <1>11, <1>12, <1>13, <1>14 DEF Typing

----------------------------------------------------------------------------
(* Pages.                                                                  *)

\* The smaller and the larger of two.
LEMMA MinMax ==
  ASSUME NEW a \in Int, NEW b \in Int
  PROVE  Min({a, b}) = (IF a <= b THEN a ELSE b) /\ Max({a, b}) = (IF a <= b THEN b ELSE a)
BY DEF Min, Max

\* A page holds at least one entry.
LEMMA ClampIs ==
  \A x \in Nat : Clamp(x, 1, 1000) \in Nat \ {0}
<1> TAKE x \in Nat
<1>1. Min({x, 1000}) = IF x <= 1000 THEN x ELSE 1000
  BY MinMax
<1>2. Min({x, 1000}) \in Int /\ Min({x, 1000}) <= 1000
  BY <1>1
<1>3. Max({1, Min({x, 1000})}) = IF 1 <= Min({x, 1000}) THEN Min({x, 1000}) ELSE 1
  BY <1>2, MinMax
<1> QED BY <1>2, <1>3 DEF Clamp

\* A view has one entry for each node of the tree.
LEMMA EntriesAre ==
  ASSUME NEW N, NEW tree \in Seq(N), NEW set
  PROVE  /\ Entries(tree, set) \in Seq(Range(Entries(tree, set)))
         /\ Len(Entries(tree, set)) = Len(tree)
<1> DEFINE n == Len(tree)
           flags == ConfiguredFlags(tree, ServedItems(set))
           e == [k \in 1..n |-> [node |-> tree[k], configured |-> flags[k]]]
<1>1. n \in Nat /\ Entries(tree, set) = e
  BY DEF Entries
<1> HIDE DEF n
<1>2. DOMAIN e = 1..n /\ \A k \in 1..n : e[k] \in Range(e)
  BY DEF Range
<1> HIDE DEF e
<1>3. e \in Seq(Range(e)) /\ Len(e) = n
  <2>1. e = [k \in 1..n |-> e[k]]
    BY <1>2 DEF e
  <2> QED BY <1>1, <1>2, <2>1
<1> QED BY <1>1, <1>3 DEF n

\* Where a page ends: not before it starts, and after it while entries
\* remain.
LEMMA NextIs ==
  ASSUME NEW n \in Nat, NEW size \in Nat, NEW start \in 0..n
  PROVE  /\ Min({n, start + Clamp(size, 1, 1000)}) \in start..n
         /\ start < n => start < Min({n, start + Clamp(size, 1, 1000)})
<1>1. Clamp(size, 1, 1000) \in Nat \ {0}
  BY ClampIs
<1> DEFINE c == Clamp(size, 1, 1000)
<1> HIDE DEF c
<1>2. c \in Nat \ {0}
  BY <1>1 DEF c
<1>3. Min({n, start + c}) = IF n <= start + c THEN n ELSE start + c
  BY <1>2, MinMax
<1>4. Min({n, start + c}) \in start..n /\ (start < n => start < Min({n, start + c}))
  BY <1>2, <1>3
<1> QED BY <1>4 DEF c

\* The page ends before entry `next` + 1, and its cursor stands there.
EndsAt(tree, set, gen, start, size, next) ==
  LET page == Page(tree, set, gen, start, size)
  IN  /\ start < Len(tree) => start < next
      /\ page.entries = SubSeq(Entries(tree, set), start + 1, next)
      /\ page.cursor = IF next < Len(tree) THEN Some([gen |-> gen, at |-> next]) ELSE None

\* A page of any size from any start.
LEMMA PageIs ==
  ASSUME NEW N, NEW tree \in Seq(N), NEW set, NEW gen, NEW size \in Nat, NEW start \in 0..Len(tree)
  PROVE  \E next \in start..Len(tree) : EndsAt(tree, set, gen, start, size, next)
<1> DEFINE n == Len(tree)
           next == Min({n, start + Clamp(size, 1, 1000)})
<1>1. n \in Nat /\ start \in 0..n
  OBVIOUS
<1>2. /\ Page(tree, set, gen, start, size).entries = SubSeq(Entries(tree, set), start + 1, next)
      /\ Page(tree, set, gen, start, size).cursor =
                IF next < n THEN Some([gen |-> gen, at |-> next]) ELSE None
  BY DEF Page
<1> HIDE DEF n
<1>3. next \in start..n /\ (start < n => start < next)
  BY <1>1, NextIs
<1> HIDE DEF next
<1>4. EndsAt(tree, set, gen, start, size, next)
  BY <1>2, <1>3 DEF EndsAt, n
<1> QED BY <1>3, <1>4 DEF n

\* Two pieces of a sequence that meet make one.
LEMMA PiecesJoin ==
  ASSUME NEW E, NEW s \in Seq(E), NEW m \in 0..Len(s), NEW n \in m..Len(s)
  PROVE  SubSeq(s, 1, m) \o SubSeq(s, m + 1, n) = SubSeq(s, 1, n)
<1> DEFINE l == Len(s)
           a == SubSeq(s, 1, m)
           b == SubSeq(s, m + 1, n)
           c == SubSeq(s, 1, n)
<1>1. l \in Nat /\ m \in Nat /\ n \in Nat /\ m <= n /\ n <= l
  OBVIOUS
<1>2. a \in Seq(E) /\ Len(a) = m /\ \A k \in 1..m : a[k] = s[k]
  BY <1>1
<1>3. b \in Seq(E) /\ Len(b) = n - m /\ \A k \in 1..(n - m) : b[k] = s[m + k]
  BY <1>1
<1>4. c \in Seq(E) /\ Len(c) = n /\ \A k \in 1..n : c[k] = s[k]
  BY <1>1
<1> HIDE DEF a, b, c, l
<1>5. /\ a \o b \in Seq(E) /\ Len(a \o b) = n
      /\ \A k \in 1..n : (a \o b)[k] = IF k <= m THEN a[k] ELSE b[k - m]
  <2>0. a \in Seq(E) /\ b \in Seq(E)
    BY <1>2, <1>3
  <2>1. a \o b \in Seq(E) /\ Len(a \o b) = Len(a) + Len(b)
    BY <2>0
  <2>2. Len(a) + Len(b) = n
    BY <1>1, <1>2, <1>3
  <2>3. \A k \in 1..(Len(a) + Len(b)) : (a \o b)[k] = IF k <= Len(a) THEN a[k] ELSE b[k - Len(a)]
    BY <2>0
  <2> QED BY <1>2, <2>1, <2>2, <2>3
<1>6. \A k \in 1..n : (a \o b)[k] = c[k]
  <2> TAKE k \in 1..n
  <2>1. CASE k <= m
    BY <1>1, <1>2, <1>4, <1>5, <2>1
  <2>2. CASE ~(k <= m)
    <3>1. k - m \in 1..(n - m) /\ m + (k - m) = k
      BY <1>1, <2>2
    <3> QED BY <1>3, <1>4, <1>5, <2>2, <3>1
  <2> QED BY <2>1, <2>2
<1>7. a \o b = c
  BY <1>4, <1>5, <1>6
<1> QED BY <1>7 DEF a, b, c

\* A view's entries are those of its tree, flagged by its served set.
LEMMA BodiesAre ==
  ASSUME NEW v \in Views
  PROVE  /\ Bodies[v] = Entries(Trees[v[1]], Served[v])
         /\ Bodies[v] \in Seq(Range(Bodies[v])) /\ Len(Bodies[v]) = Len(Trees[v[1]])
         /\ Trees[v[1]] \in Seq(Range(Trees[v[1]]))
<1>1. v[1] \in DOMAIN Trees
  BY DEF Views
<1>2. Bodies[v] = Entries(Trees[v[1]], Served[v])
  BY DEF Bodies
<1>3. Trees[v[1]] \in Seq(Range(Trees[v[1]]))
  BY <1>1, ProbesAssumption
<1> QED BY <1>2, <1>3, EntriesAre

\* What the client has of a view, and where its cursor stands.
Reached(v, n) ==
  /\ n \in 0..Len(Bodies[v])
  /\ walk.got = SubSeq(Bodies[v], 1, n)
  /\ walk.cursor = IF n < Len(Bodies[v]) THEN Some([gen |-> v, at |-> n]) ELSE None

Paged ==
  /\ DOMAIN walk = {"model", "cursor", "view", "got"}
  /\ walk = [f \in {"model", "cursor", "view", "got"} |-> walk[f]]
  /\ walk.model \in Opt(Docs[Browsed])
  /\ walk.got = <<>> => walk.cursor = None
  /\ walk.got # <<>> /\ walk.cursor = None => walk.model = None
  /\ walk.got # <<>> => \E v \in Views : walk.view = Some(v) /\ \E n \in Nat : Reached(v, n)

\* A walk that is not begun.
LEMMA PagedInit == Init => Paged
<1> SUFFICES ASSUME Init PROVE Paged
  OBVIOUS
<1>1. walk = Fresh /\ None \in Opt(Docs[Browsed])
  BY Optional DEF Init
<1> QED BY <1>1 DEF Paged, Fresh

\* Loading the cached model leaves what the client has.
LEMMA LoadPaged ==
  ASSUME Typing, Paged, LoadModel PROVE Paged'
<1>1. walk' = [walk EXCEPT !.model = cache[Browsed]] /\ cache[Browsed] \in Opt(Docs[Browsed])
  BY InstancesAre DEF LoadModel, Typing, OwnProbes, Browsed
<1>2. /\ walk'.model = cache[Browsed] /\ walk'.cursor = walk.cursor
      /\ walk'.view = walk.view /\ walk'.got = walk.got
      /\ DOMAIN walk' = {"model", "cursor", "view", "got"}
      /\ walk' = [f \in {"model", "cursor", "view", "got"} |-> walk'[f]]
  BY <1>1 DEF Paged
<1>3. \A v, n : Reached(v, n) => Reached(v, n)'
  BY <1>2 DEF Reached
<1>4. ~(walk.got # <<>> /\ walk.cursor = None)
  BY DEF LoadModel
<1>5. walk'.got # <<>> => \E v \in Views : walk'.view = Some(v) /\ \E n \in Nat : Reached(v, n)'
  BY <1>2, <1>3, Zenon DEF Paged
<1>6. walk'.got = <<>> => walk'.cursor = None
  BY <1>2 DEF Paged
<1> QED BY <1>1, <1>2, <1>4, <1>5, <1>6 DEF Paged

\* Only the empty prefix is empty.
LEMMA NoPiece ==
  ASSUME NEW E, NEW s \in Seq(E)
  PROVE  SubSeq(s, 1, 0) = <<>> /\ \A n \in 0..Len(s) : SubSeq(s, 1, n) = <<>> => n = 0
<1>1. SubSeq(s, 1, 0) = <<>>
  OBVIOUS
<1>2. \A n \in 0..Len(s) : Len(SubSeq(s, 1, n)) = n
  OBVIOUS
<1> QED BY <1>1, <1>2

\* A page appended to the first entries of its view makes more of them.
LEMMA PageAdds ==
  ASSUME NEW v \in Views, NEW at \in 0..Len(Bodies[v])
  PROVE  LET page == Page(Trees[v[1]], Served[v], v, at, PageMax)
         IN  \E next \in at..Len(Bodies[v]) :
               /\ at < Len(Bodies[v]) => at < next
               /\ SubSeq(Bodies[v], 1, at) \o page.entries = SubSeq(Bodies[v], 1, next)
               /\ page.cursor = IF next < Len(Bodies[v])
                                THEN Some([gen |-> v, at |-> next]) ELSE None
<1> DEFINE b == Bodies[v]
           tree == Trees[v[1]]
           set == Served[v]
           l == Len(b)
           page == Page(tree, set, v, at, PageMax)
<1>1. /\ b = Entries(tree, set) /\ b \in Seq(Range(b))
      /\ l = Len(tree) /\ tree \in Seq(Range(tree))
  BY BodiesAre
<1>2. PageMax \in Nat /\ at \in 0..l
  BY PagesAssumption
<1> HIDE DEF b, tree, set
<1>3. PICK next \in at..Len(tree) : EndsAt(tree, set, v, at, PageMax, next)
  <2>1. tree \in Seq(Range(tree)) /\ at \in 0..Len(tree)
    BY <1>1, <1>2
  <2> HIDE DEF l, page
  <2> QED BY <1>2, <2>1, PageIs
<1>0. /\ at < Len(tree) => at < next
      /\ page.entries = SubSeq(Entries(tree, set), at + 1, next)
      /\ page.cursor = IF next < Len(tree) THEN Some([gen |-> v, at |-> next]) ELSE None
  BY <1>3 DEF EndsAt
<1> HIDE DEF page
<1>4. next \in at..l /\ at \in 0..l
  BY <1>1, <1>2, <1>3
<1>5. SubSeq(b, 1, at) \o page.entries = SubSeq(b, 1, next)
  <2>1. page.entries = SubSeq(b, at + 1, next)
    BY <1>0, <1>1
  <2>2. SubSeq(b, 1, at) \o SubSeq(b, at + 1, next) = SubSeq(b, 1, next)
    BY <1>1, <1>4, PiecesJoin
  <2> QED BY <2>1, <2>2
<1>6. page.cursor = IF next < l THEN Some([gen |-> v, at |-> next]) ELSE None
  BY <1>0, <1>1
<1>7. at < l => at < next
  BY <1>0, <1>1
<1> HIDE DEF l
<1>8. \E n \in at..l :
        /\ at < l => at < n
        /\ SubSeq(b, 1, at) \o page.entries = SubSeq(b, 1, n)
        /\ page.cursor = IF n < l THEN Some([gen |-> v, at |-> n]) ELSE None
  BY <1>4, <1>5, <1>6, <1>7
<1> QED BY <1>8 DEF b, l, page, tree, set

\* An answered request stands behind what the client already has of the
\* view it is answered from: the cursor names both.
LEMMA StandsAt ==
  ASSUME Paged, walk.model # None, NEW v \in Views, CursorStart(walk.cursor, v) # None
  PROVE  \E at \in 0..Len(Bodies[v]) :
           /\ CursorStart(walk.cursor, v)[1] = at
           /\ walk.got = SubSeq(Bodies[v], 1, at)
<1>1. Bodies[v] \in Seq(Range(Bodies[v])) /\ 0 \in 0..Len(Bodies[v])
  <2>1. Bodies[v] \in Seq(Range(Bodies[v]))
    BY BodiesAre
  <2> QED BY <2>1
<1>2. CASE walk.cursor = None
  <2>1. CursorStart(walk.cursor, v)[1] = 0
    BY <1>2, Optional DEF CursorStart
  <2>2. walk.got = <<>>
    BY <1>2, Zenon DEF Paged
  <2>3. SubSeq(Bodies[v], 1, 0) = <<>>
    BY <1>1, NoPiece
  <2> QED BY <1>1, <2>1, <2>2, <2>3, Zenon
<1>3. CASE walk.cursor # None
  <2>1. /\ walk.cursor[1].gen = v
        /\ CursorStart(walk.cursor, v) = Some(walk.cursor[1].at)
    BY <1>3 DEF CursorStart
  <2>2. PICK w \in Views, n \in Nat : Reached(w, n)
    BY <1>3 DEF Paged
  <2>3. walk.cursor = Some([gen |-> w, at |-> n])
    BY <1>3, <2>2 DEF Reached
  <2>4. w = v /\ CursorStart(walk.cursor, v)[1] = n
    BY <2>1, <2>3, Optional
  <2> QED BY <2>2, <2>4, Zenon DEF Reached
<1> QED BY <1>2, <1>3

\* A page is a page of the view the walk began in, or the client starts
\* over: a new model or configuration is another generation.
LEMMA AnswerPaged ==
  ASSUME Typing, Paged, Answer PROVE Paged'
<1> DEFINE d == walk.model[1]
           g == slot[Browsed]
           start == CursorStart(walk.cursor, <<d, g>>)
<1>0. Browsed \in Instances /\ Docs[Browsed] \subseteq DOMAIN Trees
  BY InstancesAre DEF Browsed
<1>1. <<d, g>> \in Views
  <2>1. d \in DOMAIN Trees
    BY <1>0, Optional DEF Answer, Paged
  <2>2. g \in DOMAIN Signals
    BY <1>0 DEF Typing, Shapes
  <2> QED BY <2>1, <2>2 DEF Views
<1>2. PICK v \in Views : v = <<d, g>> /\ v[1] = d
  BY <1>1
<1> HIDE DEF d, g
<1>3. walk' = IF CursorStart(walk.cursor, v) = None THEN Fresh
              ELSE LET page == Page(Trees[v[1]], Served[v], v,
                                    CursorStart(walk.cursor, v)[1], PageMax)
                   IN  [model |-> None, cursor |-> page.cursor, view |-> Some(v),
                        got |-> walk.got \o page.entries]
  BY <1>2 DEF Answer, Compiled, d, g
<1>4. None \in Opt(Docs[Browsed])
  BY Optional
<1>5. CASE CursorStart(walk.cursor, v) = None
  BY <1>3, <1>4, <1>5 DEF Paged, Fresh
<1>6. CASE CursorStart(walk.cursor, v) # None
  <2> DEFINE b == Bodies[v]
             l == Len(b)
  <2>1. PICK at \in 0..l : CursorStart(walk.cursor, v)[1] = at /\ walk.got = SubSeq(b, 1, at)
    <3>1. walk.model # None
      BY DEF Answer
    <3> QED BY <1>6, <3>1, StandsAt
  <2> DEFINE page == Page(Trees[v[1]], Served[v], v, at, PageMax)
  <2>2. PICK next \in at..l :
          /\ at < l => at < next
          /\ SubSeq(b, 1, at) \o page.entries = SubSeq(b, 1, next)
          /\ page.cursor = IF next < l THEN Some([gen |-> v, at |-> next]) ELSE None
    BY PageAdds
  <2>3. walk' = [model |-> None, cursor |-> page.cursor, view |-> Some(v),
                 got |-> SubSeq(b, 1, next)]
    BY <1>3, <1>6, <2>1, <2>2, Zenon
  <2>4. b \in Seq(Range(b)) /\ l \in Nat
    <3>1. b \in Seq(Range(b))
      BY BodiesAre
    <3> QED BY <3>1
  <2>5. next \in Nat /\ next \in 0..l
    BY <2>4
  <2> HIDE DEF page
  <2>6. /\ walk'.model = None /\ walk'.cursor = page.cursor /\ walk'.view = Some(v)
        /\ walk'.got = SubSeq(b, 1, next)
        /\ DOMAIN walk' = {"model", "cursor", "view", "got"}
        /\ walk' = [f \in {"model", "cursor", "view", "got"} |-> walk'[f]]
    BY <2>3
  <2>7. Reached(v, next)'
    BY <2>2, <2>5, <2>6, Zenon DEF Reached
  <2>8. walk'.got = <<>> => walk'.cursor = None
    <3> SUFFICES ASSUME walk'.got = <<>> PROVE page.cursor = None
      BY <2>6
    <3>1. next = 0
      BY <2>4, <2>5, <2>6, NoPiece
    <3>2. ~(next < l)
      <4> HIDE DEF l
      <4> QED BY <2>2, <2>4, <3>1
    <3> QED BY <2>2, <3>2, Zenon
  <2>9. \E w \in Views : walk'.view = Some(w) /\ \E n \in Nat : Reached(w, n)'
    BY <2>5, <2>6, <2>7, Zenon
  <2> QED BY <1>4, <2>6, <2>8, <2>9 DEF Paged
<1> QED BY <1>5, <1>6

----------------------------------------------------------------------------
(* The steps together.                                                     *)

\* Every step keeps the types.
LEMMA TypingStep ==
  ASSUME Typing, Whole, [Next]_vars PROVE Typing'
<1>1. CASE BeginReprobe \/ FetchProbe \/ ProbeFailed
  BY <1>1, CycleTyped
<1>2. CASE StoreProbe
  BY <1>2, StoreProbeTyped
<1>3. CASE StoreSlot
  BY <1>3, WholeStore
<1>4. CASE Reload \/ LoadModel \/ Answer \/ UNCHANGED vars
  <2>1. UNCHANGED <<device, restarted, cycle, cache, sink, drift, slot, sess, notices, missed>>
    BY <1>4 DEF Reload, LoadModel, Answer, vars
  <2> QED BY <2>1 DEF Typing, Shapes, OwnProbes, Attached
<1>5. ASSUME NEW i \in Instances, Rebuild(i) \/ Step(i) \/ Serve(i) \/ Close(i) PROVE Typing'
  BY <1>5, RebuildTyped, ConnectTyped, AttachTyped, ServedTyped, CloseTyped DEF Step
<1> QED BY <1>1, <1>2, <1>3, <1>4, <1>5 DEF Next

\* Only a reload and the storing of its slots touch the configuration.
LEMMA WholeStep ==
  ASSUME Typing, Whole, [Next]_vars PROVE Whole'
<1>1. CASE Reload
  BY <1>1, WholeReload
<1>2. CASE StoreSlot
  BY <1>2, WholeStore
<1>3. CASE ~Reload /\ ~StoreSlot
  <2>1. UNCHANGED <<config, staged, slot>>
    <3>1. CASE BeginReprobe \/ FetchProbe \/ ProbeFailed \/ StoreProbe
      BY <3>1 DEF BeginReprobe, FetchProbe, ProbeFailed, StoreProbe
    <3>2. CASE LoadModel \/ Answer \/ UNCHANGED vars
      BY <3>2 DEF LoadModel, Answer, vars
    <3>3. ASSUME NEW i \in Instances, Rebuild(i) \/ Step(i) \/ Serve(i) \/ Close(i)
          PROVE  UNCHANGED <<config, staged, slot>>
      BY <3>3 DEF Rebuild, Step, Serve, Close, EnsureCached, EnsureFetch, EnsureStore, Attach, Read
    <3> QED BY <1>3, <3>1, <3>2, <3>3 DEF Next
  <2> QED BY <2>1 DEF Whole, Compiles
<1> QED BY <1>1, <1>2, <1>3

\* Only the client and its handler touch the walk.
LEMMA PagedStep ==
  ASSUME Typing, Paged, [Next]_vars PROVE Paged'
<1>1. CASE LoadModel
  BY <1>1, LoadPaged
<1>2. CASE Answer
  BY <1>2, AnswerPaged
<1>3. CASE ~LoadModel /\ ~Answer
  <2>1. walk' = walk
    <3>1. CASE BeginReprobe \/ FetchProbe \/ ProbeFailed \/ StoreProbe
      BY <3>1 DEF BeginReprobe, FetchProbe, ProbeFailed, StoreProbe
    <3>2. CASE Reload \/ StoreSlot \/ UNCHANGED vars
      BY <3>2 DEF Reload, StoreSlot, vars
    <3>3. ASSUME NEW i \in Instances, Rebuild(i) \/ Step(i) \/ Serve(i) \/ Close(i)
          PROVE  walk' = walk
      BY <3>3 DEF Rebuild, Step, Serve, Close, EnsureCached, EnsureFetch, EnsureStore, Attach, Read
    <3> QED BY <1>3, <3>1, <3>2, <3>3 DEF Next
  <2>2. \A v, n : Reached(v, n) => Reached(v, n)'
    BY <2>1 DEF Reached
  <2>3. walk'.got # <<>> => \E v \in Views : walk'.view = Some(v) /\ \E n \in Nat : Reached(v, n)'
    BY <2>1, <2>2, Zenon DEF Paged
  <2> QED BY <2>1, <2>3 DEF Paged
<1> QED BY <1>1, <1>2, <1>3

Inv == Typing /\ Whole /\ Paged

\* Every behaviour keeps the invariant: the types, how far a reload is,
\* and what the client of the browse walk holds.
THEOREM Invariance == Spec => []Inv
<1>1. Init => Inv
  BY TypingInit, WholeInit, PagedInit DEF Inv
<1>2. Inv /\ [Next]_vars => Inv'
  BY TypingStep, WholeStep, PagedStep DEF Inv
<1> QED BY <1>1, <1>2, PTL DEF Spec

\* Every state is of its type: a session has a configuration and a sink
\* exactly while it is connected, and an event only while attached
\* (MtcBackend::connect, MtcSession::close, attach and detach).
THEOREM TypesHold == Spec => []TypeOK
<1>1. Inv => TypeOK
  <2> SUFFICES ASSUME Inv PROVE TypeOK
    OBVIOUS
  <2>1. \A i \in Instances : device[i] \in Docs[i] /\ cache[i] \in Opt(Docs[i])
    BY DEF Inv, Typing, OwnProbes
  <2>2. restarted \in BOOLEAN /\ cycle.text \in Opt(AllDocs)
    BY DEF Inv, Typing, Shapes
  <2>3. Range(cycle.todo) \subseteq Instances
    <3>1. cycle.todo \in Seq(Instances)
      BY DEF Inv, Typing, Shapes
    <3>2. DOMAIN cycle.todo = 1..Len(cycle.todo) /\ \A k \in 1..Len(cycle.todo) : cycle.todo[k] \in Instances
      BY <3>1
    <3> QED BY <3>2 DEF Range
  <2>4. \A i \in Instances : sess[i].at \in {"off", "asked", "probed", "on"}
    BY DEF Inv, Typing, Shapes, Session, States
  <2>5. \A i \in Instances :
          /\ sess[i].model \in Opt(Docs[i])
          /\ sess[i].conf # None <=> sess[i].at = "on"
          /\ sink[i] <=> sess[i].at = "on"
          /\ drift[i] => sink[i]
    BY DEF Inv, Typing, OwnProbes, Attached
  <2> QED BY <2>1, <2>2, <2>3, <2>4, <2>5 DEF TypeOK
<1> QED BY <1>1, Invariance, PTL

\* A reload is whole or nothing: the configuration in force compiles, is
\* of the agents and instances the component runs, and is in every slot once
\* its slots are stored (ConfigListener, SignalRegistry::apply).
THEOREM ReloadsAreWhole == Spec => []ReloadWhole
<1>1. Inv => ReloadWhole
  <2> SUFFICES ASSUME Inv PROVE ReloadWhole
    OBVIOUS
  <2>1. Compiles(config) /\ config.agents = Startup.agents /\ DOMAIN config.conf = Instances
    BY DEF Inv, Whole
  <2>2. ASSUME staged = <<>> PROVE slot = config.conf
    <3>1. \A i \in Instances : slot[i] = config.conf[i]
      BY <2>2 DEF Inv, Whole
    <3>2. slot \in [Instances -> DOMAIN Signals] /\ config.conf \in [Instances -> DOMAIN Signals]
      BY DEF Inv, Typing, Shapes, Whole
    <3> QED BY <3>1, <3>2
  <2> QED BY <2>1, <2>2 DEF ReloadWhole
<1> QED BY <1>1, Invariance, PTL

\* A finished browse walk is one view of the tree, each entry once and in
\* order, whatever is re-probed or reloaded between its pages
\* (browse_model_paged, parse_cursor).
THEOREM WalksAreOneView == Spec => []WalkIsOneView
<1>1. Inv => WalkIsOneView
  <2> SUFFICES ASSUME Paged, walk.got # <<>>, walk.cursor = None
               PROVE  walk.got = Bodies[walk.view[1]]
    BY DEF Inv, WalkIsOneView
  <2>1. PICK v \in Views, n \in Nat : walk.view = Some(v) /\ Reached(v, n)
    BY DEF Paged
  <2> DEFINE b == Bodies[v]
  <2>2. b \in Seq(Range(b))
    BY BodiesAre
  <2>3. n \in 0..Len(b) /\ ~(n < Len(b)) /\ walk.got = SubSeq(b, 1, n)
    BY <2>1, Optional DEF Reached
  <2> HIDE DEF b
  <2>4. n = Len(b)
    BY <2>2, <2>3
  <2>5. SubSeq(b, 1, n) = b
    BY <2>2, <2>4
  <2>6. walk.view[1] = v
    BY <2>1, Optional
  <2> QED BY <2>3, <2>5, <2>6 DEF b
<1> QED BY <1>1, Invariance, PTL

\* A session that stays connected adopts, or keeps its view.
LEMMA StaysOrAdopts ==
  ASSUME Typing, [Next]_vars, NEW i \in Instances, sess[i].at = "on", sess'[i].at = "on"
  PROVE  \/ sess'[i] = sess[i]
         \/ \E model \in Opt(Docs[i]) : model # None /\ Adopt(i, model)
<1>0. sess \in [Instances -> Session]
  BY DEF Typing, Shapes
<1>1. CASE UNCHANGED sess
  BY <1>1
<1>2. ASSUME NEW j \in Instances, Step(j) \/ Close(j) \/ Serve(j)
      PROVE  \/ sess'[i] = sess[i]
             \/ \E model \in Opt(Docs[i]) : model # None /\ Adopt(i, model)
  <2>1. CASE j # i
    BY <1>0, <1>2, <2>1 DEF Step, Close, Serve, EnsureCached, EnsureFetch, EnsureStore, Attach, Read, Adopt
  <2>2. CASE j = i /\ ~Read(i) /\ ~Serve(i)
    <3>1. Off.at = "off"
      BY DEF Off
    <3>2. Close(i)
      BY <1>2, <2>2 DEF Step, EnsureCached, EnsureFetch, EnsureStore, Attach
    <3>3. sess'[i] = Off
      BY <1>0, <3>2 DEF Close
    <3> QED BY <3>1, <3>3
  <2>3. CASE Read(i) \/ Serve(i)
    <3> DEFINE model == IF Read(i) /\ drift[i] THEN cache[i] ELSE sess[i].model
    <3>1. Adopt(i, model)
      BY <2>3 DEF Read, Serve
    <3>2. model \in Opt(Docs[i]) /\ model # None
      BY DEF Typing, OwnProbes, Attached
    <3> QED BY <3>1, <3>2
  <2> QED BY <2>1, <2>2, <2>3
<1>3. UNCHANGED sess \/ \E j \in Instances : Step(j) \/ Close(j) \/ Serve(j)
  BY DEF Next, vars, BeginReprobe, FetchProbe, ProbeFailed, StoreProbe, Reload, StoreSlot,
         LoadModel, Answer, Rebuild
<1> QED BY <1>1, <1>2, <1>3

\* A recompile that changes the derived ids announces it.
LEMMA SetNoticed ==
  ASSUME NEW before, NEW now, DerivedIds(before) # DerivedIds(now)
  PROVE  "set" \in Notices(Some(before), now)
<1>1. Some(before) # None /\ Some(before)[1] = before
  BY Optional
<1> QED BY <1>1 DEF Notices

\* A session that stays connected announces every change of its derived
\* ids, whether the configuration, the model or both changed
\* (adopt_current_signals, adopt_current_model, recompile).
THEOREM ChangesAreAnnounced == Spec => ChangeAnnounced
<1> DEFINE Says(i) == sess[i].at = "on" /\ sess'[i].at = "on" =>
             (DerivedIds(Compiled(sess[i].model, sess[i].conf[1]))
                # DerivedIds(Compiled(sess'[i].model, sess'[i].conf[1]))
              => "set" \in notices'[i])
<1>1. Inv /\ [Next]_vars => [\A i \in Instances : Says(i)]_vars
  <2> SUFFICES ASSUME Inv, [Next]_vars, NEW i \in Instances, sess[i].at = "on", sess'[i].at = "on",
                      DerivedIds(Compiled(sess[i].model, sess[i].conf[1]))
                        # DerivedIds(Compiled(sess'[i].model, sess'[i].conf[1]))
               PROVE  "set" \in notices'[i]
    OBVIOUS
  <2>1. sess'[i] # sess[i]
    OBVIOUS
  <2>2. Typing /\ sess \in [Instances -> Session] /\ notices \in [Instances -> SUBSET {"set", "cap", "budget"}]
    BY DEF Inv, Typing, Shapes
  <2>3. PICK model \in Opt(Docs[i]) : model # None /\ Adopt(i, model)
    BY <2>1, <2>2, StaysOrAdopts
  <2> DEFINE old == Compiled(sess[i].model, sess[i].conf[1])
             resigned == Compiled(sess[i].model, slot[i])
             remodelled == Compiled(model, slot[i])
             told == (IF sess[i].conf = Some(slot[i]) THEN {} ELSE Notices(Some(old), resigned))
                     \union (IF model = sess[i].model THEN {} ELSE Notices(Some(resigned), remodelled))
  <2>4. notices'[i] = told
    <3>1. notices' = [notices EXCEPT ![i] = told]
      BY <2>3 DEF Adopt
    <3> HIDE DEF told
    <3> QED BY <2>2, <3>1
  <2>5. sess'[i].model = model /\ sess'[i].conf = Some(slot[i])
    <3>1. sess' = [sess EXCEPT ![i] = [sess[i] EXCEPT !.model = model, !.conf = Some(slot[i])]]
      BY <2>3 DEF Adopt
    <3>2. sess[i] \in Session
      BY <2>2
    <3>3. sess'[i] = [sess[i] EXCEPT !.model = model, !.conf = Some(slot[i])]
      BY <2>2, <3>1
    <3> QED BY <3>2, <3>3 DEF Session
  <2>6. Some(slot[i])[1] = slot[i]
    BY Optional
  <2>7. DerivedIds(old) # DerivedIds(remodelled)
    BY <2>5, <2>6
  <2> HIDE DEF old, resigned, remodelled
  <2>8. CASE sess[i].conf # Some(slot[i]) /\ DerivedIds(old) # DerivedIds(resigned)
    BY <2>4, <2>8, SetNoticed
  <2>9. CASE model # sess[i].model /\ DerivedIds(resigned) # DerivedIds(remodelled)
    BY <2>4, <2>9, SetNoticed
  <2>10. sess[i].conf = Some(slot[i]) => old = resigned
    BY <2>6 DEF old, resigned
  <2>11. model = sess[i].model => resigned = remodelled
    BY DEF remodelled, resigned
  <2> QED BY <2>7, <2>8, <2>9, <2>10, <2>11
<1> QED BY <1>1, Invariance, PTL DEF Spec, ChangeAnnounced
===============================================================================
