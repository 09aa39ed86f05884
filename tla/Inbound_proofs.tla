--------------------------- MODULE Inbound_proofs ---------------------------
(***************************************************************************)
(* Proofs about what comes in and what is counted of it.                   *)
(*                                                                         *)
(* About Wire, for every script an agent may send, every way the transport *)
(* cuts it into chunks, every alphabet and every size of the caps:         *)
(*                                                                         *)
(*   - the parts handed on are the parts sent, whole, in order, each once, *)
(*     and none that is whole waits for the next chunk;                    *)
(*   - a stream is dropped as malformed only for a run of undecodable      *)
(*     parts, for the part it is at, or because more than the cap arrived  *)
(*     behind the last one.                                                *)
(*                                                                         *)
(* The inductive invariant says that the buffer is what arrived after a    *)
(* place of the stream, that this place is the one the splitter's state    *)
(* speaks of in the part after those that are handled (At), and what a     *)
(* loop that waits is waiting for (Waits).  One lemma for each state of    *)
(* the splitter says where a turn takes it.                                *)
(*                                                                         *)
(* About Metrics, for every set of instances, every list of verbs and      *)
(* every budget: the intervals of the rows add up to what was counted, and *)
(* the link's counters to one story.  The inductive invariant (MInv) says  *)
(* what each counter is against what was handed over and what the rows on  *)
(* their way carry (Flight), and ties the link's counters to its state:    *)
(* a row of them is what they still are, because a task that emits does    *)
(* nothing else.                                                           *)
(***************************************************************************)
EXTENDS Inbound, SequenceTheorems, FiniteSetTheorems, WellFoundedInduction, TLAPS

----------------------------------------------------------------------------
(* Sequences and marks.                                                    *)

\* A nonempty set of numbers has a least one.
LEMMA LeastExists ==
  ASSUME NEW S \in SUBSET Nat, S # {}
  PROVE  \E x \in S : \A y \in S : x <= y
<1>1. PICK m \in S : \A i \in S : ~(<<i, m>> \in OpToRel(<, Nat))
  BY NatLessThanWellFounded, WFMin
<1>2. \A i \in S : ~(i < m)
  BY <1>1 DEF OpToRel
<1>3. \A i \in S : i \in Nat
  OBVIOUS
<1> QED BY <1>2, <1>3

\* Where Find finds: at the first place, if there is one.
LEMMA FindAt ==
  ASSUME NEW s \in Seq(Tokens), NEW needle \in Seq(Tokens),
         NEW i \in 1..Len(s) - Len(needle) + 1,
         SubSeq(s, i, i + Len(needle) - 1) = needle,
         \A k \in 1..i - 1 : SubSeq(s, k, k + Len(needle) - 1) # needle
  PROVE  Find(s, needle) = i
<1> DEFINE at == {k \in 1..Len(s) - Len(needle) + 1 : SubSeq(s, k, k + Len(needle) - 1) = needle}
<1>0. Len(s) \in Nat /\ Len(needle) \in Nat
  OBVIOUS
<1>1. i \in at /\ at # {}
  OBVIOUS
<1>a. at \subseteq Int
  BY <1>0
<1>2. \A k \in at : i <= k
  <2> SUFFICES ASSUME NEW k \in at, ~(i <= k) PROVE FALSE
    OBVIOUS
  <2>1. k \in 1..i - 1
    BY <1>0
  <2> QED BY <2>1
<1> HIDE DEF at
<1>3. Min(at) \in at /\ \A y \in at : Min(at) =< y
  BY <1>1, <1>2 DEF Min
<1>4. Min(at) = i
  <2>1. Min(at) \in Int /\ i \in Int
    BY <1>3, <1>a, <1>1
  <2>2. Min(at) <= i /\ i <= Min(at)
    BY <1>1, <1>2, <1>3
  <2> QED BY <2>1, <2>2
<1>5. Find(s, needle) = Min(at)
  BY <1>1 DEF Find, at
<1> QED BY <1>4, <1>5

\* Find gives 0 where the needle is nowhere.
LEMMA FindNone ==
  ASSUME NEW s \in Seq(Tokens), NEW needle \in Seq(Tokens),
         \A k \in 1..Len(s) - Len(needle) + 1 : SubSeq(s, k, k + Len(needle) - 1) # needle
  PROVE  Find(s, needle) = 0
<1> DEFINE at == {k \in 1..Len(s) - Len(needle) + 1 : SubSeq(s, k, k + Len(needle) - 1) = needle}
<1>1. at = {}
  OBVIOUS
<1> HIDE DEF at
<1> QED BY <1>1 DEF Find, at

\* Two tokens at a place of a sequence.
LEMMA PairAt ==
  ASSUME NEW T, NEW s \in Seq(T), NEW a \in T, NEW b \in T, NEW k \in 1..Len(s) - 1
  PROVE  SubSeq(s, k, k + 1) = <<a, b>> <=> s[k] = a /\ s[k + 1] = b
<1>0. \A i \in k..k + 1 : s[i] \in T
  OBVIOUS
<1>1. /\ SubSeq(s, k, k + 1) \in Seq(T) /\ Len(SubSeq(s, k, k + 1)) = 2
      /\ \A i \in 1..2 : SubSeq(s, k, k + 1)[i] = s[k + i - 1]
  BY <1>0, SubSeqProperties
<1>2. <<a, b>> \in Seq(T) /\ Len(<<a, b>>) = 2 /\ <<a, b>>[1] = a /\ <<a, b>>[2] = b
  OBVIOUS
<1>3. SubSeq(s, k, k + 1)[1] = s[k] /\ SubSeq(s, k, k + 1)[2] = s[k + 1]
  BY <1>1
<1>4. ASSUME s[k] = a, s[k + 1] = b PROVE SubSeq(s, k, k + 1) = <<a, b>>
  <2>1. \A i \in 1..2 : SubSeq(s, k, k + 1)[i] = <<a, b>>[i]
    BY <1>2, <1>3, <1>4
  <2> QED BY <2>1, <1>1, <1>2, SeqEqual
<1> QED BY <1>2, <1>3, <1>4

\* Three tokens at a place of a sequence.
LEMMA TripleAt ==
  ASSUME NEW T, NEW s \in Seq(T), NEW a \in T, NEW b \in T, NEW c \in T,
         NEW k \in 1..Len(s) - 2
  PROVE  SubSeq(s, k, k + 2) = <<a, b, c>> <=> s[k] = a /\ s[k + 1] = b /\ s[k + 2] = c
<1>0. \A i \in k..k + 2 : s[i] \in T
  OBVIOUS
<1>1. /\ SubSeq(s, k, k + 2) \in Seq(T) /\ Len(SubSeq(s, k, k + 2)) = 3
      /\ \A i \in 1..3 : SubSeq(s, k, k + 2)[i] = s[k + i - 1]
  BY <1>0, SubSeqProperties
<1>2. /\ <<a, b, c>> \in Seq(T) /\ Len(<<a, b, c>>) = 3
      /\ <<a, b, c>>[1] = a /\ <<a, b, c>>[2] = b /\ <<a, b, c>>[3] = c
  OBVIOUS
<1>3. /\ SubSeq(s, k, k + 2)[1] = s[k] /\ SubSeq(s, k, k + 2)[2] = s[k + 1]
      /\ SubSeq(s, k, k + 2)[3] = s[k + 2]
  BY <1>1
<1>4. ASSUME s[k] = a, s[k + 1] = b, s[k + 2] = c PROVE SubSeq(s, k, k + 2) = <<a, b, c>>
  <2>1. \A i \in 1..3 : SubSeq(s, k, k + 2)[i] = <<a, b, c>>[i]
    BY <1>2, <1>3, <1>4
  <2> QED BY <2>1, <1>1, <1>2, SeqEqual
<1> QED BY <1>2, <1>3, <1>4

\* The tokens that frame a part are different tokens of the alphabet.
LEMMA Alphabet ==
  /\ Break \in Tokens /\ "--" \in Tokens /\ "b" \in Tokens /\ "type" \in Tokens
  /\ Break # "--" /\ Break # "b" /\ "--" # "b" /\ "type" # Break
<1>1. Break # "--" /\ Break # "b" /\ "type" # Break
  BY DEF Break
<1>2. "--" # "b"
  OBVIOUS
<1> QED BY <1>1, <1>2, LinesDeclare

\* The marker, the delimiter and the blank line, token by token.
LEMMA Marks ==
  /\ Marker = <<"--", "b">> /\ Marker \in Seq(Tokens) /\ Len(Marker) = 2
  /\ Delim = <<Break, "--", "b">> /\ Delim \in Seq(Tokens) /\ Len(Delim) = 3
  /\ <<Break, Break>> \in Seq(Tokens) /\ Len(<<Break, Break>>) = 2
<1>0. Break \in Tokens /\ "--" \in Tokens /\ "b" \in Tokens
  BY Alphabet
<1>1. Marker = <<"--", "b">> /\ Marker \in Seq(Tokens) /\ Len(Marker) = 2
  BY <1>0 DEF Marker
<1>2. <<Break>> \in Seq(Tokens) /\ Len(<<Break>>) = 1
  BY <1>0
<1>3. /\ Delim \in Seq(Tokens) /\ Len(Delim) = 3
      /\ Delim[1] = Break /\ Delim[2] = "--" /\ Delim[3] = "b"
  BY <1>0, <1>1, <1>2, ConcatProperties DEF Delim
<1>4. <<Break, "--", "b">> \in Seq(Tokens) /\ Len(<<Break, "--", "b">>) = 3
  BY <1>0
<1>5. \A i \in 1..3 : Delim[i] = <<Break, "--", "b">>[i]
  BY <1>3
<1>6. Delim = <<Break, "--", "b">>
  BY <1>3, <1>4, <1>5, SeqEqual
<1> QED BY <1>0, <1>1, <1>3, <1>6

\* The epilogue, token by token.
LEMMA EpilogueIs ==
  /\ Epilogue \in Seq(Tokens) /\ Len(Epilogue) = 4
  /\ Epilogue[1] = "--" /\ Epilogue[2] = "b" /\ Epilogue[3] = "--" /\ Epilogue[4] = Break
<1>1. <<"--", Break>> \in Seq(Tokens) /\ Len(<<"--", Break>>) = 2
  BY Alphabet
<1> QED BY <1>1, Marks, ConcatProperties DEF Epilogue

\* What is left of a sequence from a place on.
LEMMA RestProperties ==
  ASSUME NEW s \in Seq(Tokens), NEW n \in 0..Len(s)
  PROVE  /\ Rest(s, n) \in Seq(Tokens) /\ Len(Rest(s, n)) = Len(s) - n
         /\ \A j \in 1..Len(s) - n : Rest(s, n)[j] = s[n + j]
<1>0. Len(s) \in Nat /\ \A i \in n + 1..Len(s) : s[i] \in Tokens
  OBVIOUS
<1> QED BY <1>0, SubSeqProperties DEF Rest

----------------------------------------------------------------------------
(* The stream and the places of its parts.                                 *)

\* Where the tokens of a concatenation come from.
LEMMA CatIs ==
  ASSUME NEW T, NEW s \in Seq(T), NEW t \in Seq(T)
  PROVE  /\ s \o t \in Seq(T) /\ Len(s \o t) = Len(s) + Len(t)
         /\ \A j \in 1..Len(s) : (s \o t)[j] = s[j]
         /\ \A j \in 1..Len(t) : (s \o t)[Len(s) + j] = t[j]
<1>1. /\ s \o t \in Seq(T) /\ Len(s \o t) = Len(s) + Len(t) /\ Len(s) \in Nat /\ Len(t) \in Nat
  OBVIOUS
<1>2. \A i \in 1..Len(s) + Len(t) : (s \o t)[i] = IF i <= Len(s) THEN s[i] ELSE t[i - Len(s)]
  BY ConcatProperties
<1>3. ASSUME NEW j \in 1..Len(s) PROVE (s \o t)[j] = s[j]
  <2>1. j \in 1..Len(s) + Len(t) /\ j <= Len(s)
    BY <1>1
  <2> QED BY <2>1, <1>2
<1>4. ASSUME NEW j \in 1..Len(t) PROVE (s \o t)[Len(s) + j] = t[j]
  <2>1. Len(s) + j \in 1..Len(s) + Len(t) /\ ~(Len(s) + j <= Len(s)) /\ (Len(s) + j) - Len(s) = j
    BY <1>1
  <2> QED BY <2>1, <1>2
<1> QED BY <1>1, <1>3, <1>4

\* The types of a script, of its parts and of its stream.
LEMMA PartTypes ==
  ASSUME NEW s \in Scripts
  PROVE  /\ Len(s) \in Nat /\ DOMAIN s = 1..Len(s) /\ StartOf[s][1] = 0
         /\ \A i \in 1..Len(s) : /\ s[i].junk \in Seq(Tokens) /\ s[i].body \in Seq(Tokens)
                                 /\ s[i].declared \in BOOLEAN
                                 /\ Len(s[i].junk) \in Nat /\ Len(s[i].body) \in Nat
                                 /\ s[i].first \in {"type"} \cup BadLines
         /\ \A i \in 1..Len(s) + 1 : StartOf[s][i] \in Nat
         /\ Stream[s] \in Seq(Tokens) /\ Len(Stream[s]) \in Nat
<1>1. s \in Parts /\ Stream[s] \in Seq(Tokens) /\ StartOf[s] \in [1..Len(s) + 1 -> Nat] /\ StartOf[s][1] = 0
  BY StreamIsItsParts
<1>2. Len(s) \in Nat /\ DOMAIN s = 1..Len(s)
  BY <1>1 DEF Parts
<1>3. ASSUME NEW i \in 1..Len(s)
      PROVE  s[i] \in [junk : Seq(Tokens), first : {"type"} \cup BadLines,
                       declared : BOOLEAN, body : Seq(Tokens)]
  BY <1>1, <1>3, ElementOfSeq DEF Parts
<1>4. ASSUME NEW i \in 1..Len(s)
      PROVE  /\ s[i].junk \in Seq(Tokens) /\ s[i].body \in Seq(Tokens) /\ s[i].declared \in BOOLEAN
             /\ Len(s[i].junk) \in Nat /\ Len(s[i].body) \in Nat
             /\ s[i].first \in {"type"} \cup BadLines
  BY <1>3
<1>5. \A i \in 1..Len(s) + 1 : StartOf[s][i] \in Nat
  BY <1>1
<1>6. Len(Stream[s]) \in Nat
  BY <1>1
<1> QED BY <1>1, <1>2, <1>4, <1>5, <1>6

\* The line that declares a length.
LEMMA LineOfLength ==
  ASSUME NEW s \in Scripts, NEW i \in 1..Len(s), s[i].declared
  PROVE  /\ LengthLine(Len(s[i].body)) \in DOMAIN LengthOf
         /\ LengthLine(Len(s[i].body)) \in Tokens \ ({"type", Break} \cup BadLines)
         /\ LengthOf[LengthLine(Len(s[i].body))] = Len(s[i].body)
<1>0. i \in DOMAIN s
  BY PartTypes
<1>1. \E line \in DOMAIN LengthOf : LengthOf[line] = Len(s[i].body)
  BY <1>0, PartsCanBeFramed
<1>2. /\ LengthLine(Len(s[i].body)) \in DOMAIN LengthOf
      /\ LengthOf[LengthLine(Len(s[i].body))] = Len(s[i].body)
  BY <1>1 DEF LengthLine
<1> QED BY <1>2, LinesDeclare

\* The first line of a header block is no line break, and declares no length.
LEMMA FirstIs ==
  ASSUME NEW s \in Scripts, NEW i \in 1..Len(s)
  PROVE  /\ s[i].first \in Tokens /\ s[i].first # Break
         /\ ~IsLength(s[i].first)
<1>1. s[i].first \in {"type"} \cup BadLines
  BY PartTypes
<1>2. "type" # Break
  BY DEF Break
<1> QED BY <1>1, <1>2, LinesDeclare DEF IsLength

HeaderLen(p) == IF p.declared THEN 4 ELSE 2

\* The header block of a part, token by token.
LEMMA HeadersAre ==
  ASSUME NEW s \in Scripts, NEW i \in 1..Len(s)
  PROVE  /\ Headers(s[i]) \in Seq(Tokens) /\ Len(Headers(s[i])) = HeaderLen(s[i])
         /\ Headers(s[i])[1] = s[i].first /\ Headers(s[i])[2] = Break
         /\ s[i].declared => /\ Headers(s[i])[3] = LengthLine(Len(s[i].body))
                             /\ Headers(s[i])[4] = Break
<1>1. CASE s[i].declared
  <2>1. LengthLine(Len(s[i].body)) \in Tokens /\ Break \in Tokens /\ s[i].first \in Tokens
    BY <1>1, LineOfLength, FirstIs, Alphabet
  <2> DEFINE line == LengthLine(Len(s[i].body))
             head == s[i].first
  <2> HIDE DEF line, head
  <2>2. /\ <<head, Break, line, Break>> \in Seq(Tokens) /\ Len(<<head, Break, line, Break>>) = 4
    BY <2>1 DEF line, head
  <2>3. Headers(s[i]) = <<head, Break, line, Break>>
    BY <1>1 DEF Headers, line, head
  <2> QED BY <1>1, <2>2, <2>3 DEF line, head, HeaderLen
<1>2. CASE ~s[i].declared
  <2> DEFINE head == s[i].first
  <2>0. head \in Tokens
    BY FirstIs
  <2> HIDE DEF head
  <2>1. <<head, Break>> \in Seq(Tokens) /\ Len(<<head, Break>>) = 2
    BY <2>0, Alphabet
  <2>2. Headers(s[i]) = <<head, Break>>
    BY <1>2 DEF Headers, head
  <2> QED BY <1>2, <2>1, <2>2 DEF HeaderLen, head
<1> QED BY <1>1, <1>2

\* What a part sends, token by token.
LeadOf(junk, heads) == junk \o Marker \o <<Break>> \o heads \o <<Break>>
SentOf(junk, heads, body) == LeadOf(junk, heads) \o body \o <<Break>>

PiecesLie(lead, sent, junk, heads, body) ==
  /\ Len(lead) = Len(junk) + Len(heads) + 4
  /\ sent \in Seq(Tokens) /\ Len(sent) = Len(junk) + Len(heads) + Len(body) + 5
  /\ \A j \in 1..Len(junk) : sent[j] = junk[j]
  /\ sent[Len(junk) + 1] = "--" /\ sent[Len(junk) + 2] = "b" /\ sent[Len(junk) + 3] = Break
  /\ \A j \in 1..Len(heads) : sent[Len(junk) + 3 + j] = heads[j]
  /\ sent[Len(junk) + Len(heads) + 4] = Break
  /\ \A j \in 1..Len(body) : sent[Len(junk) + Len(heads) + 4 + j] = body[j]
  /\ sent[Len(junk) + Len(heads) + Len(body) + 5] = Break

\* The pieces a part is sent in, and their lengths.
LEMMA PiecesAre ==
  ASSUME NEW junk \in Seq(Tokens), NEW heads \in Seq(Tokens), NEW body \in Seq(Tokens)
  PROVE  PiecesLie(LeadOf(junk, heads), SentOf(junk, heads, body), junk, heads, body)
<1> DEFINE J == Len(junk)
           H == Len(heads)
           B == Len(body)
           c1 == junk \o Marker
           c2 == c1 \o <<Break>>
           c3 == c2 \o heads
           c4 == c3 \o <<Break>>
           c5 == c4 \o body
           c6 == c5 \o <<Break>>
<1>1. <<Break>> \in Seq(Tokens) /\ Len(<<Break>>) = 1 /\ <<Break>>[1] = Break
  BY Alphabet
<1>3. Marker \in Seq(Tokens) /\ Len(Marker) = 2 /\ Marker[1] = "--" /\ Marker[2] = "b"
  BY Marks
<1>e. LeadOf(junk, heads) = c4 /\ SentOf(junk, heads, body) = c6
  BY DEF LeadOf, SentOf
<1>0. /\ J \in Nat /\ H \in Nat /\ B \in Nat
      /\ Len(junk) = J /\ Len(heads) = H /\ Len(body) = B
  OBVIOUS
<1> HIDE DEF J, H, B, c1, c2, c3, c4, c5, c6
<1>4. /\ c1 \in Seq(Tokens) /\ Len(c1) = J + 2
      /\ \A j \in 1..J : c1[j] = junk[j]
      /\ \A j \in 1..2 : c1[J + j] = Marker[j]
  <2>0. junk \in Seq(Tokens) /\ Marker \in Seq(Tokens)
    BY <1>0, <1>3
  <2>1. /\ c1 \in Seq(Tokens) /\ Len(c1) = Len(junk) + Len(Marker)
        /\ \A j \in 1..Len(junk) : c1[j] = junk[j]
        /\ \A j \in 1..Len(Marker) : c1[Len(junk) + j] = Marker[j]
    BY <2>0, CatIs DEF c1
  <2>2. Len(junk) = J /\ Len(Marker) = 2
    BY <1>0, <1>3
  <2> QED BY <1>0, <2>1, <2>2
<1>5. /\ c2 \in Seq(Tokens) /\ Len(c2) = (J + 2) + 1
      /\ \A j \in 1..(J + 2) : c2[j] = c1[j]
      /\ \A j \in 1..1 : c2[(J + 2) + j] = <<Break>>[j]
  <2>0. c1 \in Seq(Tokens) /\ <<Break>> \in Seq(Tokens)
    BY <1>0, <1>1, <1>4
  <2>1. /\ c2 \in Seq(Tokens) /\ Len(c2) = Len(c1) + Len(<<Break>>)
        /\ \A j \in 1..Len(c1) : c2[j] = c1[j]
        /\ \A j \in 1..Len(<<Break>>) : c2[Len(c1) + j] = <<Break>>[j]
    BY <2>0, CatIs DEF c2
  <2>2. Len(c1) = (J + 2) /\ Len(<<Break>>) = 1
    BY <1>0, <1>1, <1>4
  <2> QED BY <1>0, <2>1, <2>2
<1>6. /\ c3 \in Seq(Tokens) /\ Len(c3) = (J + 3) + H
      /\ \A j \in 1..(J + 3) : c3[j] = c2[j]
      /\ \A j \in 1..H : c3[(J + 3) + j] = heads[j]
  <2>0. c2 \in Seq(Tokens) /\ heads \in Seq(Tokens)
    BY <1>0, <1>5
  <2>1. /\ c3 \in Seq(Tokens) /\ Len(c3) = Len(c2) + Len(heads)
        /\ \A j \in 1..Len(c2) : c3[j] = c2[j]
        /\ \A j \in 1..Len(heads) : c3[Len(c2) + j] = heads[j]
    BY <2>0, CatIs DEF c3
  <2>2. Len(c2) = (J + 3) /\ Len(heads) = H
    BY <1>0, <1>5
  <2> QED BY <1>0, <2>1, <2>2
<1>7. /\ c4 \in Seq(Tokens) /\ Len(c4) = (J + 3 + H) + 1
      /\ \A j \in 1..(J + 3 + H) : c4[j] = c3[j]
      /\ \A j \in 1..1 : c4[(J + 3 + H) + j] = <<Break>>[j]
  <2>0. c3 \in Seq(Tokens) /\ <<Break>> \in Seq(Tokens)
    BY <1>0, <1>1, <1>6
  <2>1. /\ c4 \in Seq(Tokens) /\ Len(c4) = Len(c3) + Len(<<Break>>)
        /\ \A j \in 1..Len(c3) : c4[j] = c3[j]
        /\ \A j \in 1..Len(<<Break>>) : c4[Len(c3) + j] = <<Break>>[j]
    BY <2>0, CatIs DEF c4
  <2>2. Len(c3) = (J + 3 + H) /\ Len(<<Break>>) = 1
    BY <1>0, <1>1, <1>6
  <2> QED BY <1>0, <2>1, <2>2
<1>8. /\ c5 \in Seq(Tokens) /\ Len(c5) = (J + 4 + H) + B
      /\ \A j \in 1..(J + 4 + H) : c5[j] = c4[j]
      /\ \A j \in 1..B : c5[(J + 4 + H) + j] = body[j]
  <2>0. c4 \in Seq(Tokens) /\ body \in Seq(Tokens)
    BY <1>0, <1>7
  <2>1. /\ c5 \in Seq(Tokens) /\ Len(c5) = Len(c4) + Len(body)
        /\ \A j \in 1..Len(c4) : c5[j] = c4[j]
        /\ \A j \in 1..Len(body) : c5[Len(c4) + j] = body[j]
    BY <2>0, CatIs DEF c5
  <2>2. Len(c4) = (J + 4 + H) /\ Len(body) = B
    BY <1>0, <1>7
  <2> QED BY <1>0, <2>1, <2>2
<1>9. /\ c6 \in Seq(Tokens) /\ Len(c6) = (J + 4 + H + B) + 1
      /\ \A j \in 1..(J + 4 + H + B) : c6[j] = c5[j]
      /\ \A j \in 1..1 : c6[(J + 4 + H + B) + j] = <<Break>>[j]
  <2>0. c5 \in Seq(Tokens) /\ <<Break>> \in Seq(Tokens)
    BY <1>0, <1>1, <1>8
  <2>1. /\ c6 \in Seq(Tokens) /\ Len(c6) = Len(c5) + Len(<<Break>>)
        /\ \A j \in 1..Len(c5) : c6[j] = c5[j]
        /\ \A j \in 1..Len(<<Break>>) : c6[Len(c5) + j] = <<Break>>[j]
    BY <2>0, CatIs DEF c6
  <2>2. Len(c5) = (J + 4 + H + B) /\ Len(<<Break>>) = 1
    BY <1>0, <1>1, <1>8
  <2> QED BY <1>0, <2>1, <2>2
<1>a. \A j \in 1..J + 4 + H : c6[j] = c4[j]
  BY <1>0, <1>8, <1>9
<1>b. \A j \in 1..J + 3 + H : c6[j] = c3[j]
  BY <1>0, <1>a, <1>7
<1>c. \A j \in 1..J + 3 : c6[j] = c2[j]
  BY <1>0, <1>b, <1>6
<1>d. \A j \in 1..J + 2 : c6[j] = c1[j]
  BY <1>0, <1>c, <1>5
<1>10. \A j \in 1..J : c6[j] = junk[j]
  BY <1>0, <1>4, <1>d
<1>11. c6[J + 1] = "--" /\ c6[J + 2] = "b"
  <2>1. c1[J + 1] = "--" /\ c1[J + 2] = "b"
    BY <1>0, <1>3, <1>4
  <2> QED BY <1>0, <2>1, <1>d
<1>12. c6[J + 3] = Break
  <2>1. c2[(J + 2) + 1] = Break
    BY <1>0, <1>1, <1>5
  <2>2. (J + 2) + 1 = J + 3
    BY <1>0
  <2> QED BY <1>0, <2>1, <2>2, <1>c
<1>13. \A j \in 1..H : c6[J + 3 + j] = heads[j]
  BY <1>0, <1>6, <1>b
<1>14. c6[J + H + 4] = Break
  <2>1. c4[(J + 3 + H) + 1] = Break
    BY <1>0, <1>1, <1>7
  <2>2. (J + 3 + H) + 1 = J + H + 4 /\ J + H + 4 \in 1..J + 4 + H
    BY <1>0
  <2> QED BY <1>0, <2>1, <2>2, <1>a
<1>15. \A j \in 1..B : c6[J + H + 4 + j] = body[j]
  <2> SUFFICES ASSUME NEW j \in 1..B PROVE c6[J + H + 4 + j] = body[j]
    BY <1>0
  <2>1. J + H + 4 + j = (J + 4 + H) + j /\ (J + 4 + H) + j \in 1..J + 4 + H + B
    BY <1>0
  <2> QED BY <1>0, <2>1, <1>8, <1>9
<1>16. c6[J + H + B + 5] = Break
  <2>1. c6[(J + 4 + H + B) + 1] = Break
    BY <1>0, <1>1, <1>9
  <2>2. (J + 4 + H + B) + 1 = J + H + B + 5
    BY <1>0
  <2> QED BY <1>0, <2>1, <2>2
<1>17. Len(c4) = J + H + 4 /\ Len(c6) = J + H + B + 5
  BY <1>0, <1>7, <1>9
<1> QED BY <1>0, <1>9, <1>10, <1>11, <1>12, <1>13, <1>14, <1>15, <1>16, <1>17, <1>e DEF PiecesLie, J, H, B

\* A part as it is sent, token by token.
LEMMA SentIs ==
  ASSUME NEW s \in Scripts, NEW i \in 1..Len(s)
  PROVE  LET J == Len(s[i].junk)  H == HeaderLen(s[i])  B == Len(s[i].body)  sent == Sent(s[i]) IN
         /\ J \in Nat /\ H \in Nat /\ H \in {2, 4} /\ B \in Nat
         /\ Len(Lead(s[i])) = J + H + 4
         /\ sent \in Seq(Tokens) /\ Len(sent) = J + H + B + 5
         /\ \A j \in 1..J : sent[j] = s[i].junk[j]
         /\ sent[J + 1] = "--" /\ sent[J + 2] = "b" /\ sent[J + 3] = Break
         /\ \A j \in 1..H : sent[J + 3 + j] = Headers(s[i])[j]
         /\ sent[J + H + 4] = Break
         /\ \A j \in 1..B : sent[J + H + 4 + j] = s[i].body[j]
         /\ sent[J + H + B + 5] = Break
<1> DEFINE junk == s[i].junk
           body == s[i].body
           heads == Headers(s[i])
           lead == Lead(s[i])
           sent == Sent(s[i])
<1>1. junk \in Seq(Tokens) /\ body \in Seq(Tokens) /\ Len(junk) \in Nat /\ Len(body) \in Nat
  BY PartTypes
<1>2. heads \in Seq(Tokens) /\ Len(heads) = HeaderLen(s[i])
  BY HeadersAre
<1>3. HeaderLen(s[i]) \in Nat /\ HeaderLen(s[i]) \in {2, 4}
  BY DEF HeaderLen
<1>4. lead = LeadOf(junk, heads) /\ sent = SentOf(junk, heads, body)
  BY DEF Lead, Sent, LeadOf, SentOf
<1> HIDE DEF junk, body, heads, lead, sent
<1>5. PiecesLie(lead, sent, junk, heads, body)
  BY <1>1, <1>2, <1>4, PiecesAre
<1> QED BY <1>1, <1>2, <1>3, <1>5, Zenon DEF PiecesLie, lead, sent, junk, body, heads

\* The places of a part in the stream: its marker and its body, as the number
\* of tokens before them.
JunkLen(s, i) == IF i <= Len(s) THEN Len(s[i].junk) ELSE 0
MarkAt(s, i)  == StartOf[s][i] + JunkLen(s, i)
BodyAt(s, i)  == StartOf[s][i] + Len(Lead(s[i]))
BodyEnd(s, i) == BodyAt(s, i) + Len(s[i].body)

\* How the places of a part follow from one another.
LEMMA PlacesAre ==
  ASSUME NEW s \in Scripts, NEW i \in 1..Len(s)
  PROVE  /\ MarkAt(s, i) \in Nat /\ BodyAt(s, i) \in Nat /\ BodyEnd(s, i) \in Nat
         /\ StartOf[s][i] <= MarkAt(s, i)
         /\ MarkAt(s, i) = StartOf[s][i] + Len(s[i].junk)
         /\ BodyAt(s, i) = MarkAt(s, i) + HeaderLen(s[i]) + 4
         /\ BodyEnd(s, i) = BodyAt(s, i) + Len(s[i].body)
         /\ StartOf[s][i + 1] = BodyEnd(s, i) + 1
         /\ BodyEnd(s, i) + 1 <= Len(Stream[s])
<1> DEFINE J == Len(s[i].junk)
           H == HeaderLen(s[i])
           B == Len(s[i].body)
           o == StartOf[s][i]
           n == StartOf[s][i + 1]
           L == Len(Lead(s[i]))
<1>0. i \in DOMAIN s /\ i \in 1..Len(s) + 1
  BY PartTypes
<1>1. J \in Nat /\ H \in Nat /\ B \in Nat /\ L = J + H + 4 /\ Len(Sent(s[i])) = J + H + B + 5
  BY SentIs
<1>2. o \in Nat /\ n = o + Len(Sent(s[i])) /\ o + Len(Sent(s[i])) <= Len(Stream[s])
  BY <1>0, PartTypes, StreamIsItsParts DEF LiesAt
<1>3. i <= Len(s)
  BY PartTypes
<1>4. MarkAt(s, i) = o + J /\ BodyAt(s, i) = o + L /\ BodyEnd(s, i) = BodyAt(s, i) + B
  BY <1>3 DEF MarkAt, JunkLen, BodyAt, BodyEnd
<1>5. Len(Stream[s]) \in Nat
  BY PartTypes
<1> HIDE DEF J, H, B, o, n, L
<1>6. /\ MarkAt(s, i) \in Nat /\ BodyAt(s, i) \in Nat /\ BodyEnd(s, i) \in Nat
      /\ o <= MarkAt(s, i) /\ BodyAt(s, i) = MarkAt(s, i) + H + 4
      /\ n = BodyEnd(s, i) + 1 /\ BodyEnd(s, i) + 1 <= Len(Stream[s])
  BY <1>1, <1>2, <1>4, <1>5
<1> QED BY <1>4, <1>6 DEF J, H, B, o, n

\* The stream at these places.
LEMMA LayoutIs ==
  ASSUME NEW s \in Scripts, NEW i \in 1..Len(s)
  PROVE  LET S == Stream[s]  o == StartOf[s][i]  m == MarkAt(s, i)  b == BodyAt(s, i) IN
         /\ \A j \in 1..Len(s[i].junk) : S[o + j] = s[i].junk[j]
         /\ S[m + 1] = "--" /\ S[m + 2] = "b" /\ S[m + 3] = Break
         /\ \A j \in 1..HeaderLen(s[i]) : S[m + 3 + j] = Headers(s[i])[j]
         /\ S[b] = Break
         /\ \A j \in 1..Len(s[i].body) : S[b + j] = s[i].body[j]
         /\ S[BodyEnd(s, i) + 1] = Break
<1> DEFINE J == Len(s[i].junk)
           H == HeaderLen(s[i])
           B == Len(s[i].body)
           o == StartOf[s][i]
           S == Stream[s]
           sent == Sent(s[i])
           m == MarkAt(s, i)
           b == BodyAt(s, i)
           e == BodyEnd(s, i)
           junk == s[i].junk
           body == s[i].body
           heads == Headers(s[i])
<1>1. /\ J \in Nat /\ H \in Nat /\ B \in Nat
      /\ sent \in Seq(Tokens) /\ Len(sent) = J + H + B + 5
      /\ \A j \in 1..J : sent[j] = junk[j]
      /\ sent[J + 1] = "--" /\ sent[J + 2] = "b" /\ sent[J + 3] = Break
      /\ \A j \in 1..H : sent[J + 3 + j] = heads[j]
      /\ sent[J + H + 4] = Break
      /\ \A j \in 1..B : sent[J + H + 4 + j] = body[j]
      /\ sent[J + H + B + 5] = Break
  BY SentIs, Zenon
<1>2. o \in Nat /\ m = o + J /\ b = m + H + 4 /\ e = b + B
  BY PlacesAre, PartTypes
<1>3. \A j \in DOMAIN sent : S[o + j] = sent[j]
  <2>1. i \in DOMAIN s
    BY PartTypes
  <2> QED BY <2>1, StreamIsItsParts DEF LiesAt
<1> HIDE DEF J, H, B, o, S, sent, m, b, e, junk, body, heads
<1>4. DOMAIN sent = 1..J + H + B + 5
  BY <1>1
<1>5. \A j \in 1..J + H + B + 5 : S[o + j] = sent[j]
  BY <1>3, <1>4
<1>6. \A j \in 1..J : S[o + j] = junk[j]
  BY <1>1, <1>5
<1>7. S[m + 1] = "--" /\ S[m + 2] = "b" /\ S[m + 3] = Break
  <2>1. m + 1 = o + (J + 1) /\ m + 2 = o + (J + 2) /\ m + 3 = o + (J + 3)
    BY <1>1, <1>2
  <2>2. {J + 1, J + 2, J + 3} \subseteq 1..J + H + B + 5
    BY <1>1
  <2> QED BY <2>1, <2>2, <1>1, <1>5
<1>8. \A j \in 1..H : S[m + 3 + j] = heads[j]
  <2> SUFFICES ASSUME NEW j \in 1..H PROVE S[m + 3 + j] = heads[j]
    OBVIOUS
  <2>1. m + 3 + j = o + (J + 3 + j) /\ J + 3 + j \in 1..J + H + B + 5
    BY <1>1, <1>2
  <2> QED BY <2>1, <1>1, <1>5
<1>9. S[b] = Break
  <2>1. b = o + (J + H + 4) /\ J + H + 4 \in 1..J + H + B + 5
    BY <1>1, <1>2
  <2> QED BY <2>1, <1>1, <1>5
<1>10. \A j \in 1..B : S[b + j] = body[j]
  <2> SUFFICES ASSUME NEW j \in 1..B PROVE S[b + j] = body[j]
    OBVIOUS
  <2>1. b + j = o + (J + H + 4 + j) /\ J + H + 4 + j \in 1..J + H + B + 5
    BY <1>1, <1>2
  <2> QED BY <2>1, <1>1, <1>5
<1>11. S[e + 1] = Break
  <2>1. e + 1 = o + (J + H + B + 5) /\ J + H + B + 5 \in 1..J + H + B + 5
    BY <1>1, <1>2
  <2> QED BY <2>1, <1>1, <1>5
<1> QED BY <1>6, <1>7, <1>8, <1>9, <1>10, <1>11, Zenon DEF J, H, B, o, S, m, b, e, junk, body, heads

\* And where the parts end.
LEMMA EpilogueLies ==
  ASSUME NEW s \in Scripts
  PROVE  LET S == Stream[s]  o == StartOf[s][Len(s) + 1] IN
         /\ o \in Nat /\ Len(S) = o + 4 /\ MarkAt(s, Len(s) + 1) = o
         /\ S[o + 1] = "--" /\ S[o + 2] = "b" /\ S[o + 3] = "--"
<1>1. Len(s) \in Nat /\ StartOf[s][Len(s) + 1] \in Nat
  BY PartTypes
<1>2. /\ Len(Stream[s]) = StartOf[s][Len(s) + 1] + Len(Epilogue)
      /\ \A j \in DOMAIN Epilogue : Stream[s][StartOf[s][Len(s) + 1] + j] = Epilogue[j]
  BY StreamIsItsParts DEF LiesAt
<1>3. MarkAt(s, Len(s) + 1) = StartOf[s][Len(s) + 1]
  BY <1>1 DEF MarkAt, JunkLen
<1>4. DOMAIN Epilogue = 1..4
  BY EpilogueIs
<1> QED BY <1>1, <1>2, <1>3, <1>4, EpilogueIs

----------------------------------------------------------------------------
(* Where marks and delimiters are, and where they are not.                 *)

\* A part's marker, or the epilogue's, stands at its place, and what follows it.
LEMMA MarkIs ==
  ASSUME NEW s \in Scripts, NEW i \in 1..Len(s) + 1
  PROVE  LET S == Stream[s]  m == MarkAt(s, i) IN
         /\ m \in Nat /\ StartOf[s][i] \in Nat /\ StartOf[s][i] <= m /\ m + 3 <= Len(S)
         /\ S[m + 1] = "--" /\ S[m + 2] = "b"
         /\ S[m + 3] = IF i <= Len(s) THEN Break ELSE "--"
<1>0. Len(s) \in Nat
  BY PartTypes
<1>1. CASE i \in 1..Len(s)
  <2>1. HeaderLen(s[i]) \in Nat /\ Len(s[i].body) \in Nat /\ Len(Stream[s]) \in Nat /\ StartOf[s][i] \in Nat
    BY <1>1, PartTypes DEF HeaderLen
  <2>2. /\ MarkAt(s, i) \in Nat /\ StartOf[s][i] <= MarkAt(s, i)
        /\ BodyAt(s, i) = MarkAt(s, i) + HeaderLen(s[i]) + 4
        /\ BodyEnd(s, i) = BodyAt(s, i) + Len(s[i].body)
        /\ BodyEnd(s, i) + 1 <= Len(Stream[s])
    BY <1>1, PlacesAre
  <2>3. MarkAt(s, i) + 3 <= Len(Stream[s])
    <3> DEFINE H == HeaderLen(s[i])
               B == Len(s[i].body)
               L == Len(Stream[s])
               m == MarkAt(s, i)
    <3>1. /\ H \in Nat /\ B \in Nat /\ L \in Nat /\ m \in Nat
          /\ BodyEnd(s, i) = m + H + 4 + B /\ BodyEnd(s, i) + 1 <= L
      BY <2>1, <2>2
    <3> HIDE DEF H, B, L, m
    <3>2. m + 3 <= L
      BY <3>1
    <3> QED BY <3>2 DEF m, L
  <2>4. /\ Stream[s][MarkAt(s, i) + 1] = "--" /\ Stream[s][MarkAt(s, i) + 2] = "b"
        /\ Stream[s][MarkAt(s, i) + 3] = Break
    BY <1>1, LayoutIs
  <2>5. i <= Len(s)
    BY <1>0, <1>1
  <2> QED BY <2>1, <2>2, <2>3, <2>4, <2>5
<1>2. CASE i = Len(s) + 1
  <2>1. ~(i <= Len(s))
    BY <1>0, <1>2
  <2> DEFINE o == StartOf[s][Len(s) + 1]
  <2>2. /\ o \in Nat /\ Len(Stream[s]) = o + 4 /\ MarkAt(s, Len(s) + 1) = o
        /\ Stream[s][o + 1] = "--" /\ Stream[s][o + 2] = "b" /\ Stream[s][o + 3] = "--"
    BY EpilogueLies
  <2> HIDE DEF o
  <2>3. o <= o /\ o + 3 <= Len(Stream[s])
    BY <2>2
  <2>4. StartOf[s][i] = o /\ MarkAt(s, i) = o
    BY <1>2, <2>2 DEF o
  <2> QED BY <2>1, <2>2, <2>3, <2>4
<1> QED BY <1>0, <1>1, <1>2

\* There is no marker from a part's start to its own.
LEMMA NoMarkBefore ==
  ASSUME NEW s \in Scripts, NEW i \in 1..Len(s) + 1, NEW k \in Nat \ {0},
         StartOf[s][i] <= k, k <= MarkAt(s, i)
  PROVE  ~(Stream[s][k] = "--" /\ Stream[s][k + 1] = "b")
<1> DEFINE o == StartOf[s][i]
           S == Stream[s]
<1>0. Len(s) \in Nat /\ o \in Nat /\ MarkAt(s, i) \in Nat
  BY PartTypes, MarkIs
<1>1. CASE k = o
  <2>1. i # 1
    BY <1>1, PartTypes
  <2>2. i - 1 \in 1..Len(s) /\ (i - 1) + 1 = i
    BY <1>0, <2>1
  <2>3. StartOf[s][(i - 1) + 1] = BodyEnd(s, i - 1) + 1 /\ S[BodyEnd(s, i - 1) + 1] = Break
    BY <2>2, PlacesAre, LayoutIs
  <2>4. S[k] = Break
    BY <1>1, <2>2, <2>3
  <2> QED BY <2>4, Alphabet
<1>2. CASE k # o
  <2>1. i \in 1..Len(s)
    <3>1. ASSUME i = Len(s) + 1 PROVE FALSE
      <4>1. MarkAt(s, i) = o
        BY <3>1, EpilogueLies
      <4> QED BY <4>1, <1>0, <1>2
    <3> QED BY <3>1, <1>0
  <2> DEFINE junk == s[i].junk
             J == Len(junk)
             both == junk \o Marker
             j == k - o
  <2>2. /\ junk \in Seq(Tokens) /\ J \in Nat /\ MarkAt(s, i) = o + J
        /\ \A n \in 1..J : S[o + n] = junk[n]
        /\ S[MarkAt(s, i) + 1] = "--"
    BY <2>1, PartTypes, PlacesAre, LayoutIs
  <2>3. SubSeq(both, j, j + Len(Marker) - 1) # Marker
    <3>1. j \in DOMAIN junk
      BY <1>0, <1>2, <2>2
    <3>2. Before(junk, Marker)
      <4>1. i \in DOMAIN s
        BY <2>1, PartTypes
      <4> QED BY <4>1, PartsCanBeFramed
    <3> QED BY <3>1, <3>2 DEF Before
  <2> HIDE DEF junk, J, S, o
  <2>4. /\ both \in Seq(Tokens) /\ Len(both) = J + 2
        /\ \A n \in 1..J : both[n] = junk[n]
        /\ both[J + 1] = "--"
    <3>1. Marker \in Seq(Tokens) /\ Len(Marker) = 2 /\ Marker[1] = "--"
      BY Marks
    <3>2. /\ both \in Seq(Tokens) /\ Len(both) = Len(junk) + Len(Marker)
          /\ \A n \in 1..Len(junk) : both[n] = junk[n]
          /\ \A n \in 1..Len(Marker) : both[Len(junk) + n] = Marker[n]
      <4>1. junk \in Seq(Tokens) /\ Marker \in Seq(Tokens)
        BY <2>2, <3>1
      <4> QED BY <4>1, CatIs
    <3> QED BY <3>1, <3>2 DEF J
  <2> HIDE DEF both
  <2>5. j \in 1..J /\ j \in 1..Len(both) - 1 /\ o + j = k /\ j + Len(Marker) - 1 = j + 1
    <3>1. StartOf[s][i] = o
      BY DEF o
    <3>2. k >= o /\ k # o /\ k <= o + J /\ o \in Nat /\ J \in Nat
      BY <1>0, <1>2, <2>2, <3>1
    <3>3. Len(both) = J + 2 /\ Len(Marker) = 2
      BY <2>4, Marks
    <3> QED BY <3>2, <3>3
  <2>6. ~(both[j] = "--" /\ both[j + 1] = "b")
    <3>1. SubSeq(both, j, j + 1) # <<"--", "b">>
      BY <2>3, <2>5, Marks
    <3> HIDE DEF j
    <3> QED BY <3>1, <2>4, <2>5, PairAt, Alphabet
  <2>7. both[j] = S[k]
    BY <2>2, <2>4, <2>5
  <2>8. CASE j + 1 <= J
    <3>1. both[j + 1] = S[k + 1]
      <4>1. j + 1 \in 1..J /\ o + (j + 1) = k + 1
        <5>1. J \in Nat /\ j \in 1..J /\ o \in Nat /\ o + j = k
          BY <2>2, <2>5, <1>0
        <5> QED BY <5>1, <2>8
      <4> QED BY <4>1, <2>2, <2>4
    <3> QED BY <3>1, <2>6, <2>7 DEF S
  <2>9. CASE j = J
    <3>1. S[k + 1] = "--"
      <4>1. k + 1 = MarkAt(s, i) + 1
        BY <2>2, <2>5, <2>9
      <4> QED BY <4>1, <2>2
    <3> QED BY <3>1, Alphabet DEF S
  <2> QED BY <2>2, <2>5, <2>8, <2>9
<1> QED BY <1>1, <1>2

\* A body whose length is not declared ends at the first delimiter.
LEMMA DelimAfter ==
  ASSUME NEW s \in Scripts, NEW i \in 1..Len(s), ~s[i].declared
  PROVE  LET S == Stream[s]  e == BodyEnd(s, i) IN
         /\ MarkAt(s, i + 1) = e + 1
         /\ S[e + 1] = Break /\ S[e + 2] = "--" /\ S[e + 3] = "b"
<1>0. Len(s) \in Nat /\ i \in DOMAIN s /\ i + 1 \in 1..Len(s) + 1
  BY PartTypes
<1>1. BodyEnd(s, i) \in Nat /\ StartOf[s][i + 1] = BodyEnd(s, i) + 1
  BY PlacesAre
<1>2. JunkLen(s, i + 1) = 0
  <2>1. CASE i < Len(s)
    BY <1>0, <2>1, PartsCanBeFramed DEF JunkLen
  <2>2. CASE ~(i < Len(s))
    BY <1>0, <2>2 DEF JunkLen
  <2> QED BY <2>1, <2>2
<1>3. MarkAt(s, i + 1) = BodyEnd(s, i) + 1
  BY <1>1, <1>2 DEF MarkAt
<1>4. Stream[s][MarkAt(s, i + 1) + 1] = "--" /\ Stream[s][MarkAt(s, i + 1) + 2] = "b"
  BY <1>0, MarkIs
<1>5. MarkAt(s, i + 1) + 1 = BodyEnd(s, i) + 2 /\ MarkAt(s, i + 1) + 2 = BodyEnd(s, i) + 3
  BY <1>1, <1>3
<1>6. Stream[s][BodyEnd(s, i) + 1] = Break
  BY LayoutIs
<1> QED BY <1>3, <1>4, <1>5, <1>6

\* There is no delimiter in the body of a part whose length is not declared.
LEMMA NoDelimBefore ==
  ASSUME NEW s \in Scripts, NEW i \in 1..Len(s), ~s[i].declared, NEW k \in 1..Len(s[i].body)
  PROVE  LET S == Stream[s]  b == BodyAt(s, i) IN
         ~(S[b + k] = Break /\ S[b + k + 1] = "--" /\ S[b + k + 2] = "b")
<1> DEFINE S == Stream[s]
           b == BodyAt(s, i)
           body == s[i].body
           B == Len(body)
           e == BodyEnd(s, i)
           both == body \o Delim
<1>1. /\ body \in Seq(Tokens) /\ B \in Nat /\ b \in Nat /\ e = b + B
      /\ \A n \in 1..B : S[b + n] = body[n]
      /\ S[e + 1] = Break /\ S[e + 2] = "--"
  BY PartTypes, PlacesAre, LayoutIs, DelimAfter
<1>2. SubSeq(both, k, k + Len(Delim) - 1) # Delim
  <2>1. i \in DOMAIN s /\ k \in DOMAIN body
    BY <1>1, PartTypes
  <2> QED BY <2>1, PartsCanBeFramed DEF Before
<1> HIDE DEF S, b, body, B, e
<1>k. k \in 1..B
  BY DEF B, body
<1>3. /\ both \in Seq(Tokens) /\ Len(both) = B + 3
      /\ \A n \in 1..B : both[n] = body[n]
      /\ both[B + 1] = Break /\ both[B + 2] = "--"
  <2>1. Delim \in Seq(Tokens) /\ Len(Delim) = 3 /\ Delim[1] = Break /\ Delim[2] = "--"
    BY Marks
  <2>2. /\ both \in Seq(Tokens) /\ Len(both) = Len(body) + Len(Delim)
        /\ \A n \in 1..Len(body) : both[n] = body[n]
        /\ \A n \in 1..Len(Delim) : both[Len(body) + n] = Delim[n]
    <3>1. body \in Seq(Tokens) /\ Delim \in Seq(Tokens)
      BY <1>1, <2>1
    <3> QED BY <3>1, CatIs
  <2> QED BY <2>1, <2>2 DEF B
<1> HIDE DEF both
<1>4. \A n \in 1..B + 2 : S[b + n] = both[n]
  <2> SUFFICES ASSUME NEW n \in 1..B + 2 PROVE S[b + n] = both[n]
    OBVIOUS
  <2>1. CASE n \in 1..B
    BY <2>1, <1>1, <1>3
  <2>2. CASE n = B + 1
    <3>1. b + n = e + 1
      BY <2>2, <1>1
    <3> QED BY <3>1, <2>2, <1>1, <1>3
  <2>3. CASE n = B + 2
    <3>1. b + n = e + 2
      BY <2>3, <1>1
    <3> QED BY <3>1, <2>3, <1>1, <1>3
  <2> QED BY <1>1, <2>1, <2>2, <2>3
<1>5. ~(both[k] = Break /\ both[k + 1] = "--" /\ both[k + 2] = "b")
  <2>1. k \in 1..Len(both) - 2 /\ k + Len(Delim) - 1 = k + 2
    BY <1>k, <1>1, <1>3, Marks
  <2>2. SubSeq(both, k, k + 2) # <<Break, "--", "b">>
    BY <2>1, <1>2, Marks
  <2> QED BY <2>1, <2>2, <1>3, TripleAt, Alphabet
<1>6. both[k] = S[b + k] /\ both[k + 1] = S[b + k + 1]
  <2>1. k \in 1..B + 2 /\ k + 1 \in 1..B + 2 /\ b + (k + 1) = b + k + 1
    BY <1>k, <1>1
  <2> QED BY <2>1, <1>4
<1>7. CASE k + 2 <= B + 2 /\ both[k + 2] = S[b + k + 2]
  BY <1>7, <1>5, <1>6 DEF S, b
<1>8. both[k + 2] = S[b + k + 2]
  <2>1. k + 2 \in 1..B + 2 /\ b + (k + 2) = b + k + 2
    BY <1>k, <1>1
  <2> QED BY <2>1, <1>4
<1>9. k + 2 <= B + 2
  BY <1>k, <1>1
<1> QED BY <1>7, <1>8, <1>9

\* A later part starts no earlier.
LEMMA StartsRise ==
  ASSUME NEW s \in Scripts, NEW i \in 1..Len(s) + 1, NEW k \in i..Len(s) + 1
  PROVE  StartOf[s][i] <= StartOf[s][k]
<1>0. Len(s) \in Nat /\ \A n \in 1..Len(s) + 1 : StartOf[s][n] \in Nat
  BY PartTypes
<1> DEFINE Low == {n \in i..Len(s) + 1 : ~(StartOf[s][i] <= StartOf[s][n])}
<1>1. Low \in SUBSET Nat
  BY <1>0
<1>2. ASSUME Low # {} PROVE FALSE
  <2>1. PICK n \in Low : \A h \in Low : n <= h
    BY <1>1, <1>2, LeastExists
  <2>2. n # i
    BY <1>0, <2>1
  <2>3. n - 1 \in i..Len(s) + 1 /\ n - 1 \notin Low /\ n - 1 \in 1..Len(s) /\ (n - 1) + 1 = n /\ n \in 1..Len(s) + 1
    BY <1>0, <2>1, <2>2
  <2>4. StartOf[s][i] <= StartOf[s][n - 1]
    BY <2>3
  <2>5. StartOf[s][n] = BodyEnd(s, n - 1) + 1 /\ StartOf[s][n - 1] <= BodyEnd(s, n - 1)
    <3>1. /\ StartOf[s][(n - 1) + 1] = BodyEnd(s, n - 1) + 1 /\ MarkAt(s, n - 1) \in Nat
          /\ StartOf[s][n - 1] <= MarkAt(s, n - 1)
          /\ BodyAt(s, n - 1) = MarkAt(s, n - 1) + HeaderLen(s[n - 1]) + 4
          /\ BodyEnd(s, n - 1) = BodyAt(s, n - 1) + Len(s[n - 1].body)
      BY <2>3, PlacesAre
    <3>2. HeaderLen(s[n - 1]) \in Nat /\ Len(s[n - 1].body) \in Nat /\ StartOf[s][n - 1] \in Nat
      BY <2>3, <1>0, PartTypes DEF HeaderLen
    <3>3. StartOf[s][n - 1] <= BodyEnd(s, n - 1)
      <4> DEFINE o == StartOf[s][n - 1]
                 m == MarkAt(s, n - 1)
                 b == BodyAt(s, n - 1)
                 h == HeaderLen(s[n - 1])
                 l == Len(s[n - 1].body)
                 e == BodyEnd(s, n - 1)
      <4>1. o \in Nat /\ m \in Nat /\ h \in Nat /\ l \in Nat
            /\ o <= m /\ b = m + h + 4 /\ e = b + l
        BY <3>1, <3>2
      <4> HIDE DEF o, m, b, h, l, e
      <4>2. o <= e
        BY <4>1
      <4> QED BY <4>2 DEF o, e
    <3> QED BY <3>1, <3>3, <2>3
  <2>6. BodyEnd(s, n - 1) \in Nat /\ StartOf[s][i] \in Nat /\ StartOf[s][n - 1] \in Nat
    BY <1>0, <2>3, PlacesAre
  <2>7. StartOf[s][i] <= StartOf[s][n]
    BY <2>4, <2>5, <2>6
  <2> QED BY <2>1, <2>7
<1> QED BY <1>2

----------------------------------------------------------------------------
(* The invariant, and the turns of Seek, AfterMarker and Headers.          *)

(***************************************************************************)
(* The invariant.  What is buffered is what arrived after a place of the   *)
(* stream, and that place is the one the splitter's state speaks of, in    *)
(* the part after those that are handled.                                  *)
(***************************************************************************)
Suffix(buf, c) ==
  /\ buf \in Seq(Tokens) /\ c \in Nat /\ c + Len(buf) = arrived
  /\ \A j \in 1..Len(buf) : buf[j] = Body[c + j]

Declares(p) == IF p.declared THEN Len(p.body) ELSE Undeclared

At(st, len, i, c) ==
  \/ /\ st = "Seek" /\ len = Undeclared
     /\ StartOf[script][i] <= c + 1 /\ c <= MarkAt(script, i)
  \/ st = "AfterMarker" /\ len = Undeclared /\ c = MarkAt(script, i) + 2
  \/ st = "Headers" /\ len = Undeclared /\ i <= Len(script) /\ c = MarkAt(script, i) + 3
  \/ /\ st = "Body" /\ i <= Len(script) /\ c = BodyAt(script, i)
     /\ len = Declares(script[i]) /\ len <= MaxPart /\ script[i].first \notin BadLines

\* What it waits for in each state.
Waits(st, i, buf) ==
  /\ st = "Seek" => Len(buf) <= 1 /\ arrived <= MarkAt(script, i) + 1
  /\ st = "AfterMarker" => Len(buf) = 0
  /\ st = "Headers" => arrived < BodyAt(script, i)
  /\ st = "Body" => arrived < BodyEnd(script, i) + IF script[i].declared THEN 0 ELSE 3

Current == Len(handled) + 1

Types ==
  /\ script \in Scripts /\ arrived \in Nat /\ arrived <= Len(Body)
  /\ buffer \in Seq(Tokens)
  /\ handled \in Seq(Seq(Tokens)) /\ Len(handled) <= Len(script)
  /\ pc \in {"await", "split"} /\ undecodable \in Nat

Framing ==
  Open => /\ Suffix(buffer, arrived - Len(buffer))
          /\ At(state, need, Current, arrived - Len(buffer))
          /\ pc = "await" => Waits(state, Current, buffer)

Handed ==
  \A k \in 1..Len(handled) : /\ handled[k] = script[k].body /\ Len(handled[k]) <= MaxPart
                              /\ script[k].first \notin BadLines

\* What is left of a suffix of what arrived is one.
LEMMA RestHolds ==
  ASSUME NEW buf, NEW c, Suffix(buf, c), arrived \in Nat, NEW k \in 0..Len(buf)
  PROVE  Suffix(Rest(buf, k), c + k)
<1>1. /\ buf \in Seq(Tokens) /\ c \in Nat /\ c + Len(buf) = arrived /\ Len(buf) \in Nat
      /\ \A j \in 1..Len(buf) : buf[j] = Body[c + j]
  BY DEF Suffix
<1>2. /\ Rest(buf, k) \in Seq(Tokens) /\ Len(Rest(buf, k)) = Len(buf) - k
      /\ \A j \in 1..Len(buf) - k : Rest(buf, k)[j] = buf[k + j]
  BY <1>1, RestProperties
<1>3. c + k \in Nat /\ (c + k) + Len(Rest(buf, k)) = arrived
  <2>1. c \in Nat /\ c + Len(buf) = arrived /\ Len(buf) \in Nat /\ Len(Rest(buf, k)) = Len(buf) - k
    BY <1>1, <1>2
  <2> QED BY <2>1
<1>4. ASSUME NEW j \in 1..Len(Rest(buf, k)) PROVE Rest(buf, k)[j] = Body[(c + k) + j]
  <2>1. j \in 1..Len(buf) - k /\ k + j \in 1..Len(buf) /\ c + (k + j) = (c + k) + j
    BY <1>1, <1>2
  <2> QED BY <2>1, <1>1, <1>2
<1> QED BY <1>2, <1>3, <1>4 DEF Suffix

\* The part the splitter is at.
LEMMA AtPart ==
  ASSUME Types
  PROVE  /\ Current \in 1..Len(script) + 1 /\ Len(script) \in Nat /\ Len(buffer) \in Nat
         /\ Current <= Len(script) => Current \in 1..Len(script)
<1>1. Len(script) \in Nat /\ Len(handled) \in Nat /\ Len(handled) <= Len(script) /\ Len(buffer) \in Nat
  BY PartTypes DEF Types
<1> QED BY <1>1 DEF Current

\* Seek finds the next part's marker, if that has arrived.
LEMMA SeekTurn ==
  ASSUME Types, Suffix(buffer, arrived - Len(buffer)), state = "Seek",
         At(state, need, Current, arrived - Len(buffer))
  PROVE  LET c == arrived - Len(buffer)  m == MarkAt(script, Current) IN
         \/ \E k \in 0..Len(buffer) :
              /\ c + k = m + 2
              /\ Here = More(Turn(Rest(buffer, k), "AfterMarker", Undeclared))
         \/ \E k \in 0..Len(buffer) :
              /\ Len(buffer) - k <= 1 /\ (k = 0 \/ k = Len(buffer) - 1) /\ arrived <= m + 1
              /\ Here = None(Turn(Rest(buffer, k), "Seek", Undeclared))
<1> DEFINE c == arrived - Len(buffer)
           m == MarkAt(script, Current)
           S == Stream[script]
           o == StartOf[script][Current]
<1>1. Current \in 1..Len(script) + 1 /\ script \in Scripts /\ buffer \in Seq(Tokens) /\ arrived \in Nat
  BY AtPart DEF Types
<1>2. o <= c + 1 /\ c <= m
  BY DEF At
<1>3. m \in Nat /\ o \in Nat /\ S[m + 1] = "--" /\ S[m + 2] = "b"
  BY <1>1, MarkIs
<1>4. \A k \in Nat \ {0} : o <= k /\ k <= m => ~(S[k] = "--" /\ S[k + 1] = "b")
  BY <1>1, NoMarkBefore
<1>5. /\ c \in Nat /\ c + Len(buffer) = arrived /\ Len(buffer) \in Nat
      /\ \A j \in 1..Len(buffer) : buffer[j] = S[c + j]
  BY DEF Suffix, Body
<1>6. Here = Seek(Turn(buffer, state, need))
  BY DEF Here, next_part, Turn
<1> DEFINE r == Turn(buffer, state, need)
<1>7. r.buf = buffer
  BY DEF Turn
<1> HIDE DEF c, m, S, o, r
\* A place of the buffer before the marker's.
<1>8. ASSUME NEW k \in 1..Len(buffer) - 1, c + k <= m
      PROVE  SubSeq(buffer, k, k + 1) # Marker
  <2>1. c + k \in Nat \ {0} /\ o <= c + k /\ k \in 1..Len(buffer) /\ k + 1 \in 1..Len(buffer)
        /\ c + (k + 1) = (c + k) + 1
    BY <1>2, <1>3, <1>5
  <2>2. buffer[k] = S[c + k] /\ buffer[k + 1] = S[(c + k) + 1]
    BY <2>1, <1>5
  <2>3. ~(buffer[k] = "--" /\ buffer[k + 1] = "b")
    BY <2>1, <2>2, <1>4, <1>8
  <2> QED BY <2>3, <1>1, PairAt, Alphabet, Marks
<1>9. Marker \in Seq(Tokens) /\ Len(Marker) = 2
  BY Marks
<1>10. CASE arrived >= m + 2
  <2> DEFINE i == m + 1 - c
  <2>1. i \in 1..Len(buffer) - 1 /\ i \in 1..Len(buffer) - Len(Marker) + 1 /\ i + Len(Marker) - 1 = i + 1
        /\ c + i = m + 1 /\ i > 0
    BY <1>2, <1>3, <1>5, <1>9, <1>10
  <2> HIDE DEF i
  <2>2. buffer[i] = "--" /\ buffer[i + 1] = "b"
    <3>1. i \in 1..Len(buffer) /\ i + 1 \in 1..Len(buffer) /\ c + (i + 1) = m + 2
      BY <2>1, <1>3, <1>5
    <3> QED BY <3>1, <2>1, <1>3, <1>5
  <2>3. SubSeq(buffer, i, i + Len(Marker) - 1) = Marker
    <3>1. SubSeq(buffer, i, i + 1) = Marker
      BY <2>1, <2>2, <1>1, PairAt, Alphabet, Marks
    <3> QED BY <3>1, <2>1
  <2>4. \A k \in 1..i - 1 : SubSeq(buffer, k, k + Len(Marker) - 1) # Marker
    <3> SUFFICES ASSUME NEW k \in 1..i - 1 PROVE SubSeq(buffer, k, k + Len(Marker) - 1) # Marker
      OBVIOUS
    <3>1. k \in 1..Len(buffer) - 1 /\ c + k <= m /\ k + Len(Marker) - 1 = k + 1
      BY <2>1, <1>3, <1>5, <1>9
    <3> QED BY <3>1, <1>8
  <2>5. Find(buffer, Marker) = i
    <3>1. buffer \in Seq(Tokens) /\ Marker \in Seq(Tokens)
      BY <1>1, <1>9
    <3>2. i \in 1..Len(buffer) - Len(Marker) + 1
      BY <2>1
    <3> QED BY <3>1, <3>2, <2>3, <2>4, FindAt, ZenonT(60)
  <2>6. Here = More(Turn(Rest(buffer, i + Len(Marker) - 1), "AfterMarker", Undeclared))
    BY <2>1, <2>5, <1>6, <1>7 DEF Seek, r
  <2>7. i + 1 \in 0..Len(buffer) /\ c + (i + 1) = m + 2
    BY <2>1, <1>3, <1>5
  <2> QED BY <2>1, <2>6, <2>7 DEF c, m
<1>11. CASE ~(arrived >= m + 2)
  <2>1. Find(buffer, Marker) = 0
    <3>1. \A k \in 1..Len(buffer) - Len(Marker) + 1 : SubSeq(buffer, k, k + Len(Marker) - 1) # Marker
      <4> SUFFICES ASSUME NEW k \in 1..Len(buffer) - Len(Marker) + 1
                   PROVE  SubSeq(buffer, k, k + Len(Marker) - 1) # Marker
        OBVIOUS
      <4>1. k \in 1..Len(buffer) - 1 /\ c + k <= m /\ k + Len(Marker) - 1 = k + 1
        BY <1>3, <1>5, <1>9, <1>11
      <4> QED BY <4>1, <1>8
    <3> QED BY <3>1, <1>1, <1>9, FindNone
  <2> DEFINE keep == IF Len(Marker) - 1 < Len(buffer) THEN Len(Marker) - 1 ELSE Len(buffer)
             k == Len(buffer) - keep
  <2>2. Here = None(Turn(Rest(buffer, k), "Seek", Undeclared))
    <3>1. Find(r.buf, Marker) = 0 /\ ~(0 > 0)
      BY <2>1, <1>7
    <3>2. Here = Seek(r)
      BY <1>6 DEF r
    <3>3. Seek(r) = None(Turn(Rest(r.buf, Len(r.buf) - IF Len(Marker) - 1 < Len(r.buf)
                                                       THEN Len(Marker) - 1 ELSE Len(r.buf)),
                              "Seek", Undeclared))
      BY <3>1, Zenon DEF Seek
    <3> QED BY <3>2, <3>3, <1>7
  <2>3. k \in 0..Len(buffer) /\ Len(buffer) - k <= 1 /\ (k = 0 \/ k = Len(buffer) - 1)
    BY <1>5, <1>9
  <2>4. arrived <= m + 1
    BY <1>1, <1>3, <1>11
  <2> HIDE DEF k, keep
  <2> QED BY <2>2, <2>3, <2>4 DEF c, m
<1> QED BY <1>10, <1>11

\* After a marker comes a part's line break or the terminator.
LEMMA AfterMarkerTurn ==
  ASSUME Types, Suffix(buffer, arrived - Len(buffer)), state = "AfterMarker",
         At(state, need, Current, arrived - Len(buffer))
  PROVE  \/ Len(buffer) = 0 /\ Here = None(Turn(Rest(buffer, 0), "AfterMarker", Undeclared))
         \/ /\ 1 \in 0..Len(buffer) /\ Current <= Len(script)
            /\ Here = More(Turn(Rest(buffer, 1), "Headers", Undeclared))
         \/ /\ Current = Len(script) + 1
            /\ Here = None(Turn(Rest(buffer, Len(buffer)), "Finished", Undeclared))
<1> DEFINE c == arrived - Len(buffer)
           m == MarkAt(script, Current)
           S == Stream[script]
           r == Turn(buffer, state, need)
<1>1. Current \in 1..Len(script) + 1 /\ script \in Scripts /\ buffer \in Seq(Tokens) /\ arrived \in Nat
      /\ Len(script) \in Nat
  BY AtPart DEF Types
<1>2. c = m + 2 /\ need = Undeclared
  BY DEF At
<1>3. m \in Nat /\ S[m + 3] = IF Current <= Len(script) THEN Break ELSE "--"
  BY <1>1, MarkIs
<1>5. /\ Len(buffer) \in Nat
      /\ \A j \in 1..Len(buffer) : buffer[j] = S[c + j]
  BY DEF Suffix, Body
<1>6. Here = AfterMarker(r)
  BY DEF Here, next_part, Turn
<1>7. r.buf = buffer /\ r = [buf |-> buffer, st |-> "AfterMarker", len |-> Undeclared]
  BY <1>2 DEF Turn
<1> HIDE DEF c, m, S, r
<1>8. CASE buffer = <<>>
  <2>1. Len(buffer) = 0 /\ Rest(buffer, 0) = buffer
    BY <1>1, <1>8, SubSeqEmpty DEF Rest
  <2>2. AfterMarker(r) = None(r)
    BY <1>7, <1>8 DEF AfterMarker
  <2> QED BY <2>1, <2>2, <1>6, <1>7 DEF Turn
<1>9. CASE buffer # <<>>
  <2>1. Len(buffer) > 0 /\ 1 \in 1..Len(buffer) /\ Head(buffer) = buffer[1]
    BY <1>1, <1>5, <1>9
  <2>2. Head(buffer) = S[m + 3]
    <3>1. c + 1 = m + 3
      BY <1>2, <1>3
    <3> QED BY <2>1, <3>1, <1>5
  <2>3. CASE Current <= Len(script)
    <3>1. Head(buffer) = Break
      BY <2>2, <2>3, <1>3
    <3>2. AfterMarker(r) = More(Turn(Tail(r.buf), "Headers", Undeclared))
      BY <3>1, <1>7, <1>9, Alphabet DEF AfterMarker
    <3>3. Tail(buffer) = Rest(buffer, 1)
      BY <1>1, <1>9, TailIsSubSeq DEF Rest
    <3>4. 1 \in 0..Len(buffer)
      BY <2>1, <1>5
    <3> QED BY <2>3, <3>2, <3>3, <3>4, <1>6, <1>7
  <2>4. CASE ~(Current <= Len(script))
    <3>1. Head(buffer) = "--" /\ Current = Len(script) + 1
      BY <2>2, <2>4, <1>1, <1>3
    <3>2. AfterMarker(r) = None(Turn(<<>>, "Finished", Undeclared))
      BY <3>1, <1>7, <1>9, Alphabet DEF AfterMarker
    <3>3. Rest(buffer, Len(buffer)) = <<>>
      BY <1>5, SubSeqEmpty DEF Rest
    <3> QED BY <3>1, <3>2, <3>3, <1>6
  <2> QED BY <2>3, <2>4
<1> QED BY <1>8, <1>9

\* What a part's header block declares, and whether it can be read.
LEMMA DeclaredIs ==
  ASSUME NEW s \in Scripts, NEW i \in 1..Len(s), NEW lines \in Seq(Tokens),
         HeaderLen(s[i]) = Len(lines) + 1,
         \A j \in 1..Len(lines) : lines[j] = Headers(s[i])[j]
  PROVE  /\ DeclaredIn(lines) = Declares(s[i])
         /\ Unreadable(lines) <=> s[i].first \in BadLines
<1> DEFINE at == {k \in DOMAIN lines : IsLength(lines[k])}
<1>0. s[i].first \notin DOMAIN LengthOf /\ Break \notin DOMAIN LengthOf /\ Break \notin BadLines
  BY LinesDeclare, FirstIs DEF IsLength
<1>1. CASE s[i].declared
  <2> DEFINE line == LengthLine(Len(s[i].body))
  <2>1. line \in DOMAIN LengthOf /\ LengthOf[line] = Len(s[i].body)
    BY <1>1, LineOfLength
  <2>b. line \notin BadLines
    BY <1>1, LineOfLength
  <2>2. Len(lines) = 3
    <3> DEFINE n == Len(lines)
    <3>1. n \in Nat /\ n + 1 = 4
      BY <1>1 DEF HeaderLen
    <3> HIDE DEF n
    <3>2. n = 3
      BY <3>1
    <3> QED BY <3>2 DEF n
  <2>3. Headers(s[i])[1] = s[i].first /\ Headers(s[i])[2] = Break /\ Headers(s[i])[3] = line
    BY <1>1, HeadersAre
  <2>4. lines[1] = s[i].first /\ lines[2] = Break /\ lines[3] = line
    <3>1. 1 \in 1..Len(lines) /\ 2 \in 1..Len(lines) /\ 3 \in 1..Len(lines)
      BY <2>2
    <3>2. /\ lines[1] = Headers(s[i])[1] /\ lines[2] = Headers(s[i])[2]
          /\ lines[3] = Headers(s[i])[3]
      BY <3>1
    <3> QED BY <3>2, <2>3
  <2> HIDE DEF line
  <2>5. at = {3}
    <3>1. DOMAIN lines = {1, 2, 3}
      BY <2>2
    <3>2. ~IsLength(lines[1]) /\ ~IsLength(lines[2]) /\ IsLength(lines[3])
      BY <2>1, <2>4, <1>0 DEF IsLength
    <3> QED BY <3>1, <3>2
  <2>6. Max({3}) = 3
    BY DEF Max
  <2> HIDE DEF at
  <2>7. DeclaredIn(lines) = LengthOf[lines[Max(at)]]
    BY <2>5 DEF DeclaredIn, at
  <2>8. Unreadable(lines) <=> s[i].first \in BadLines
    <3>1. DOMAIN lines = {1, 2, 3}
      BY <2>2
    <3> QED BY <3>1, <2>4, <2>b, <1>0 DEF Unreadable
  <2> QED BY <1>1, <2>1, <2>4, <2>5, <2>6, <2>7, <2>8 DEF Declares
<1>2. CASE ~s[i].declared
  <2>1. Len(lines) = 1
    <3> DEFINE n == Len(lines)
    <3>1. n \in Nat /\ n + 1 = 2
      BY <1>2 DEF HeaderLen
    <3> HIDE DEF n
    <3>2. n = 1
      BY <3>1
    <3> QED BY <3>2 DEF n
  <2>2. lines[1] = s[i].first
    BY <2>1, HeadersAre
  <2>3. at = {}
    <3>1. DOMAIN lines = {1}
      BY <2>1
    <3>2. ~IsLength(lines[1])
      BY <2>2, <1>0 DEF IsLength
    <3> QED BY <3>1, <3>2
  <2>4. Unreadable(lines) <=> s[i].first \in BadLines
    <3>1. DOMAIN lines = {1}
      BY <2>1
    <3> QED BY <3>1, <2>2 DEF Unreadable
  <2> HIDE DEF at
  <2> QED BY <2>3, <2>4, <1>2 DEF DeclaredIn, Declares, at
<1> QED BY <1>1, <1>2

\* A header block ends at its blank line.
LEMMA HeadersTurn ==
  ASSUME Types, Suffix(buffer, arrived - Len(buffer)), state = "Headers",
         At(state, need, Current, arrived - Len(buffer))
  PROVE  LET i == Current  c == arrived - Len(buffer) IN
         \/ /\ Here \in {None(Turn(buffer, state, need)), Fail(Turn(buffer, state, need))}
            /\ arrived < BodyAt(script, i)
            /\ Here.gives = "error" => Len(buffer) > MaxPartHeader
         \/ /\ Here = Fail(Turn(buffer, state, need))
            /\ Declares(script[i]) > MaxPart \/ script[i].first \in BadLines
         \/ \E k \in 0..Len(buffer) :
              /\ c + k = BodyAt(script, i) /\ Declares(script[i]) <= MaxPart
              /\ script[i].first \notin BadLines
              /\ Here = More(Turn(Rest(buffer, k), "Body", Declares(script[i])))
<1> DEFINE c == arrived - Len(buffer)
           i == Current
           m == MarkAt(script, i)
           S == Stream[script]
           b == BodyAt(script, i)
           H == HeaderLen(script[i])
           heads == Headers(script[i])
           r == Turn(buffer, state, need)
           blank == <<Break, Break>>
           first == script[i].first
<1>1. i \in 1..Len(script) /\ script \in Scripts /\ buffer \in Seq(Tokens) /\ arrived \in Nat
  BY AtPart DEF Types, At
<1>2. c = m + 3
  BY DEF At
<1>3. /\ m \in Nat /\ b = m + H + 4 /\ H \in Nat /\ H \in {2, 4}
      /\ \A j \in 1..H : S[m + 3 + j] = heads[j]
      /\ S[b] = Break
  BY <1>1, PlacesAre, LayoutIs DEF HeaderLen
<1>4. /\ heads \in Seq(Tokens) /\ Len(heads) = H /\ heads[1] # Break /\ heads[2] = Break
      /\ H = 4 => heads[3] # Break /\ heads[4] = Break
  <2>1. CASE script[i].declared
    <3> DEFINE line == LengthLine(Len(script[i].body))
    <3>1. H = 4
      BY <2>1 DEF HeaderLen
    <3>2. /\ heads \in Seq(Tokens) /\ Len(heads) = H /\ heads[1] = script[i].first /\ heads[2] = Break
          /\ heads[3] = line /\ heads[4] = Break
      BY <2>1, <1>1, HeadersAre
    <3>3. script[i].first # Break
      BY <1>1, FirstIs
    <3>4. line # Break
      BY <2>1, <1>1, LineOfLength
    <3> HIDE DEF H, heads, line
    <3> QED BY <3>1, <3>2, <3>3, <3>4
  <2>2. CASE ~script[i].declared
    <3>1. H = 2
      BY <2>2 DEF HeaderLen
    <3>2. /\ heads \in Seq(Tokens) /\ Len(heads) = H /\ heads[1] # Break /\ heads[2] = Break
      BY <1>1, HeadersAre, FirstIs
    <3> HIDE DEF H, heads
    <3> QED BY <3>1, <3>2
  <2> QED BY <2>1, <2>2
<1>5. /\ Len(buffer) \in Nat /\ c + Len(buffer) = arrived
      /\ \A j \in 1..Len(buffer) : buffer[j] = S[c + j]
  BY DEF Suffix, Body
<1>6. Here = HeaderBlock(r)
  BY DEF Here, next_part, Turn
<1>7. r.buf = buffer
  BY DEF Turn
<1>8. blank \in Seq(Tokens) /\ Len(blank) = 2
  BY Marks
<1>d. \A lines \in Seq(Tokens) : H = Len(lines) + 1 /\ (\A j \in 1..Len(lines) : lines[j] = heads[j])
                                => /\ DeclaredIn(lines) = Declares(script[i])
                                   /\ Unreadable(lines) <=> first \in BadLines
  BY <1>1, DeclaredIs
<1> HIDE DEF c, i, m, S, b, H, heads, r, first
<1>9. /\ \A j \in 1..Len(buffer) : j <= H => buffer[j] = heads[j]
      /\ \A j \in 1..Len(buffer) : j = H + 1 => buffer[j] = Break
  <2> SUFFICES ASSUME NEW j \in 1..Len(buffer)
               PROVE  /\ j <= H => buffer[j] = heads[j]
                      /\ j = H + 1 => buffer[j] = Break
    OBVIOUS
  <2>1. buffer[j] = S[c + j]
    BY <1>5
  <2>2. ASSUME j <= H PROVE buffer[j] = heads[j]
    <3>1. j \in 1..H /\ c + j = m + 3 + j
      BY <1>2, <1>3, <2>2
    <3> QED BY <3>1, <2>1, <1>3
  <2>3. ASSUME j = H + 1 PROVE buffer[j] = Break
    <3>1. c + j = b
      BY <1>2, <1>3, <2>3
    <3> QED BY <3>1, <2>1, <1>3
  <2> QED BY <2>2, <2>3
<1>10. ASSUME NEW k \in 1..Len(buffer) - 1, k < H PROVE SubSeq(buffer, k, k + 1) # blank
  <2>1. k \in 1..Len(buffer) /\ k + 1 \in 1..Len(buffer) /\ k \in 1..3 /\ k + 1 <= H
    BY <1>3, <1>5, <1>10
  <2>2. buffer[k] = heads[k] /\ buffer[k + 1] = heads[k + 1]
    <3>1. k <= H /\ k + 1 <= H
      BY <2>1, <1>3
    <3> QED BY <3>1, <2>1, <1>9
  <2>3. ~(heads[k] = Break /\ heads[k + 1] = Break)
    <3>1. k = 1 \/ (H = 4 /\ k \in {2, 3})
      BY <2>1, <1>3
    <3> QED BY <3>1, <1>4, Alphabet
  <2> QED BY <2>1, <2>2, <2>3, <1>1, PairAt, Alphabet
<1>11. CASE Len(buffer) <= H
  <2>1. Find(buffer, blank) = 0
    <3>1. \A k \in 1..Len(buffer) - Len(blank) + 1 : SubSeq(buffer, k, k + Len(blank) - 1) # blank
      <4> SUFFICES ASSUME NEW k \in 1..Len(buffer) - Len(blank) + 1
                   PROVE  SubSeq(buffer, k, k + Len(blank) - 1) # blank
        OBVIOUS
      <4>1. k \in 1..Len(buffer) - 1 /\ k < H /\ k + Len(blank) - 1 = k + 1
        BY <1>3, <1>5, <1>8, <1>11
      <4> QED BY <4>1, <1>10
    <3> QED BY <3>1, <1>1, <1>8, FindNone
  <2>2. arrived < b
    BY <1>2, <1>3, <1>5, <1>11
  <2>3. HeaderBlock(r) = IF Len(buffer) > MaxPartHeader THEN Fail(r) ELSE None(r)
    BY <2>1, <1>7 DEF HeaderBlock
  <2>4. CASE Len(buffer) > MaxPartHeader
    BY <2>2, <2>3, <2>4, <1>6 DEF b, i, r
  <2>5. CASE ~(Len(buffer) > MaxPartHeader)
    <3>1. None(r).gives # "error"
      BY DEF None
    <3> QED BY <2>2, <2>3, <2>5, <3>1, <1>6 DEF b, i, r
  <2> QED BY <2>4, <2>5
<1>12. CASE ~(Len(buffer) <= H)
  <2>1. H \in 1..Len(buffer) - 1 /\ H \in 1..Len(buffer) - Len(blank) + 1 /\ H + Len(blank) - 1 = H + 1
        /\ H \in 1..Len(buffer) /\ H + 1 \in 1..Len(buffer)
    BY <1>3, <1>5, <1>8, <1>12
  <2>2. buffer[H] = Break /\ buffer[H + 1] = Break
    <3>1. heads[H] = Break
      BY <1>3, <1>4
    <3>2. H <= H
      BY <1>3
    <3>3. buffer[H] = heads[H]
      BY <3>2, <2>1, <1>9
    <3>4. buffer[H + 1] = Break
      BY <2>1, <1>9
    <3> QED BY <3>1, <3>3, <3>4
  <2>3. SubSeq(buffer, H, H + Len(blank) - 1) = blank
    <3>1. SubSeq(buffer, H, H + 1) = blank
      BY <2>1, <2>2, <1>1, PairAt, Alphabet
    <3> QED BY <3>1, <2>1
  <2>4. \A k \in 1..H - 1 : SubSeq(buffer, k, k + Len(blank) - 1) # blank
    <3> SUFFICES ASSUME NEW k \in 1..H - 1 PROVE SubSeq(buffer, k, k + Len(blank) - 1) # blank
      OBVIOUS
    <3>1. k \in 1..Len(buffer) - 1 /\ k < H /\ k + Len(blank) - 1 = k + 1
      BY <2>1, <1>3, <1>5, <1>8
    <3> QED BY <3>1, <1>10
  <2>5. Find(buffer, blank) = H
    <3>1. buffer \in Seq(Tokens) /\ blank \in Seq(Tokens)
      BY <1>1, <1>8
    <3> HIDE DEF blank
    <3>2. H \in 1..Len(buffer) - Len(blank) + 1
      BY <2>1
    <3> QED BY <3>1, <3>2, <2>3, <2>4, FindAt, ZenonT(60)
  <2> DEFINE lines == SubSeq(buffer, 1, H - 1)
  <2>6. DeclaredIn(lines) = Declares(script[i]) /\ (Unreadable(lines) <=> first \in BadLines)
    <3>1. \A j \in 1..H - 1 : buffer[j] \in Tokens /\ buffer[j] = heads[j]
      <4> SUFFICES ASSUME NEW j \in 1..H - 1 PROVE buffer[j] \in Tokens /\ buffer[j] = heads[j]
        OBVIOUS
      <4>1. j \in 1..Len(buffer) /\ j <= H
        BY <2>1, <1>3, <1>5
      <4>2. buffer[j] \in Tokens
        BY <4>1, <1>1
      <4> QED BY <4>1, <4>2, <1>9
    <3>2. 1 <= H - 1 /\ H - 1 \in Int /\ 1 \in Int /\ (H - 1) - 1 + 1 = H - 1
      BY <1>3
    <3>3. /\ lines \in Seq(Tokens) /\ Len(lines) = H - 1
          /\ \A j \in 1..H - 1 : lines[j] = buffer[1 + j - 1]
      BY <3>1, <3>2, SubSeqProperties
    <3>4. \A j \in 1..H - 1 : lines[j] = heads[j]
      BY <3>1, <3>3
    <3>5. H = Len(lines) + 1
      <4> DEFINE n == Len(lines)
      <4>1. n = H - 1
        BY <3>3
      <4> HIDE DEF n
      <4>2. H = n + 1
        BY <4>1, <1>3
      <4> QED BY <4>2 DEF n
    <3> HIDE DEF lines
    <3>6. \A j \in 1..Len(lines) : lines[j] = heads[j]
      BY <3>3, <3>4
    <3> QED BY <3>3, <3>5, <3>6, <1>d
  <2>7. HeaderBlock(r) = IF first \in BadLines \/ Declares(script[i]) > MaxPart THEN Fail(r)
                         ELSE More(Turn(Rest(buffer, H + 1), "Body", Declares(script[i])))
    <3>1. Find(r.buf, <<Break, Break>>) = H /\ H > 0 /\ H # 0
      BY <2>1, <2>5, <1>7
    <3>2. /\ DeclaredIn(SubSeq(r.buf, 1, H - 1)) = Declares(script[i])
          /\ Unreadable(SubSeq(r.buf, 1, H - 1)) <=> first \in BadLines
      BY <2>6, <1>7
    <3> QED BY <3>1, <3>2, <1>7 DEF HeaderBlock
  <2>8. CASE first \in BadLines \/ Declares(script[i]) > MaxPart
    BY <2>7, <2>8, <1>6 DEF i, r, first
  <2>9. CASE ~(first \in BadLines \/ Declares(script[i]) > MaxPart)
    <3>1. Declares(script[i]) <= MaxPart
      <4>1. Declares(script[i]) \in Int /\ MaxPart \in Int
        BY <1>1, PartTypes, SizesNat DEF Declares, Undeclared
      <4> QED BY <4>1, <2>9
    <3>2. H + 1 \in 0..Len(buffer) /\ c + (H + 1) = b
      BY <2>1, <1>2, <1>3, <1>5
    <3>3. Here = More(Turn(Rest(buffer, H + 1), "Body", Declares(script[i])))
      BY <2>7, <2>9, <1>6
    <3> QED BY <3>1, <3>2, <3>3, <2>9 DEF i, b, c, first
  <2> QED BY <2>8, <2>9
<1> QED BY <1>11, <1>12

----------------------------------------------------------------------------
(* The turn of Body, and any turn.                                         *)

\* A body that is whole is handed on, however it ends.
LEMMA BodyTurn ==
  ASSUME Types, Suffix(buffer, arrived - Len(buffer)), state = "Body",
         At(state, need, Current, arrived - Len(buffer))
  PROVE  LET i == Current  c == arrived - Len(buffer)  p == script[i]  e == BodyEnd(script, i) IN
         \/ /\ Here = None(Turn(buffer, state, need))
            /\ arrived < e + IF p.declared THEN 0 ELSE 3
         \/ Here = Fail(Turn(buffer, state, need)) /\ Len(p.body) > MaxPart
         \/ /\ Len(p.body) <= MaxPart
            /\ \E k \in 0..Len(buffer) :
                 /\ c + k = IF p.declared THEN e ELSE e + 1
                 /\ Here = Gives(Turn(Rest(buffer, k), "Seek", Undeclared), p.body)
<1> DEFINE c == arrived - Len(buffer)
           i == Current
           S == Stream[script]
           b == BodyAt(script, i)
           e == BodyEnd(script, i)
           body == script[i].body
           declared == script[i].declared
           B == Len(body)
           r == Turn(buffer, state, need)
<1>1. i \in 1..Len(script) /\ script \in Scripts /\ buffer \in Seq(Tokens) /\ arrived \in Nat
  BY AtPart DEF Types, At
<1>2. c = b /\ need = Declares(script[i]) /\ need <= MaxPart
  BY DEF At
<1>3. /\ b \in Nat /\ B \in Nat /\ e = b + B /\ body \in Seq(Tokens) /\ declared \in BOOLEAN
      /\ \A j \in 1..B : S[b + j] = body[j]
  BY <1>1, PartTypes, PlacesAre, LayoutIs
<1>5. /\ Len(buffer) \in Nat /\ c + Len(buffer) = arrived
      /\ \A j \in 1..Len(buffer) : buffer[j] = S[c + j]
  BY DEF Suffix, Body
<1>6. Here = BodyOf(r)
  BY DEF Here, next_part, Turn
<1>7. r.buf = buffer /\ r.len = need
  BY DEF Turn
<1>8. MaxPart \in Nat
  BY SizesNat
\* As much of the buffer as the body is long is the body.
<1>9. ASSUME B <= Len(buffer) PROVE SubSeq(buffer, 1, B) = body
  <2> HIDE DEF c, i, S, b, e, body, declared, r
  <2>1. \A j \in 1..B : buffer[j] \in Tokens /\ buffer[j] = body[j]
    <3> SUFFICES ASSUME NEW j \in 1..B PROVE buffer[j] \in Tokens /\ buffer[j] = body[j]
      OBVIOUS
    <3>1. j \in 1..Len(buffer)
      BY <1>3, <1>5, <1>9
    <3>2. buffer[j] \in Tokens
      BY <3>1, <1>1
    <3>3. buffer[j] = S[b + j]
      BY <3>1, <1>5, <1>2
    <3> QED BY <3>2, <3>3, <1>3
  <2>2. /\ SubSeq(buffer, 1, B) \in Seq(Tokens)
        /\ Len(SubSeq(buffer, 1, B)) = IF 1 <= B THEN B - 1 + 1 ELSE 0
        /\ \A j \in 1..B - 1 + 1 : SubSeq(buffer, 1, B)[j] = buffer[1 + j - 1]
    <3>1. 1 \in Int /\ B \in Int /\ \A j \in 1..B : buffer[j] \in Tokens
      BY <1>3, <2>1
    <3> QED BY <3>1, SubSeqProperties
  <2> DEFINE first == SubSeq(buffer, 1, B)
             n == Len(first)
  <2>3. n = B
    <3>1. n = IF 1 <= B THEN B - 1 + 1 ELSE 0
      BY <2>2
    <3> HIDE DEF n
    <3> QED BY <3>1, <1>3
  <2>4. \A j \in 1..B : first[j] = body[j]
    <3> SUFFICES ASSUME NEW j \in 1..B PROVE first[j] = body[j]
      OBVIOUS
    <3>1. j \in 1..B - 1 + 1 /\ 1 + j - 1 = j
      BY <1>3
    <3> QED BY <3>1, <2>1, <2>2
  <2> HIDE DEF first
  <2>5. first \in Seq(Tokens) /\ Len(first) = Len(body)
    BY <2>2, <2>3 DEF n, B, first
  <2>6. \A j \in 1..Len(first) : first[j] = body[j]
    BY <2>4, <2>5 DEF B
  <2>7. first = body
    BY <2>5, <2>6, <1>3, SeqEqual
  <2> QED BY <2>7 DEF first
<1>10. CASE declared
  <2>1. need = B /\ need # Undeclared /\ B <= MaxPart
    BY <1>2, <1>3, <1>10 DEF Declares, Undeclared
  <2>2. BodyOf(r) = DeclaredBody(r)
    BY <2>1, <1>7 DEF BodyOf
  <2>3. CASE Len(buffer) < B
    <3>1. Here = None(r)
      BY <2>1, <2>2, <2>3, <1>6, <1>7 DEF DeclaredBody
    <3>2. arrived < e + 0
      BY <2>3, <1>2, <1>3, <1>5
    <3> QED BY <3>1, <3>2, <1>10
  <2>4. CASE ~(Len(buffer) < B)
    <3>1. B <= Len(buffer) /\ B \in 0..Len(buffer)
      BY <2>4, <1>3, <1>5
    <3>2. Here = Gives(Turn(Rest(buffer, B), "Seek", Undeclared), body)
      <4>1. SubSeq(r.buf, 1, r.len) = body
        BY <3>1, <1>7, <1>9, <2>1
      <4> QED BY <4>1, <2>1, <2>2, <2>4, <1>6, <1>7 DEF DeclaredBody
    <3>3. c + B = e
      BY <1>2, <1>3
    <3> QED BY <2>1, <3>1, <3>2, <3>3, <1>10
  <2> QED BY <2>3, <2>4
<1>11. CASE ~declared
  <2>1. need = Undeclared
    BY <1>2, <1>11 DEF Declares
  <2>2. BodyOf(r) = DelimitedBody(r)
    BY <2>1, <1>7 DEF BodyOf
  <2>3. S[e + 1] = Break /\ S[e + 2] = "--" /\ S[e + 3] = "b"
    BY <1>1, <1>11, DelimAfter
  <2>4. \A k \in 1..B : ~(S[b + k] = Break /\ S[b + k + 1] = "--" /\ S[b + k + 2] = "b")
    BY <1>1, <1>11, NoDelimBefore
  <2>5. Delim \in Seq(Tokens) /\ Len(Delim) = 3 /\ Delim = <<Break, "--", "b">>
    BY Marks
  <2> HIDE DEF c, i, S, b, e, body, B, declared, r
  <2>6. ASSUME NEW k \in 1..Len(buffer) - 2, k <= B PROVE SubSeq(buffer, k, k + 2) # Delim
    <3>1. /\ k \in 1..Len(buffer) /\ k + 1 \in 1..Len(buffer) /\ k + 2 \in 1..Len(buffer) /\ k \in 1..B
          /\ c + k = b + k /\ c + (k + 1) = b + k + 1 /\ c + (k + 2) = b + k + 2
      BY <2>6, <1>2, <1>3, <1>5
    <3>2. /\ buffer[k] = S[b + k] /\ buffer[k + 1] = S[b + k + 1] /\ buffer[k + 2] = S[b + k + 2]
      BY <3>1, <1>5
    <3>3. ~(buffer[k] = Break /\ buffer[k + 1] = "--" /\ buffer[k + 2] = "b")
      BY <3>1, <3>2, <2>4
    <3> QED BY <3>3, <2>5, <1>1, TripleAt, Alphabet
  <2>7. CASE Len(buffer) < B + 3
    <3>1. Find(buffer, Delim) = 0
      <4>1. \A k \in 1..Len(buffer) - Len(Delim) + 1 : SubSeq(buffer, k, k + Len(Delim) - 1) # Delim
        <5> SUFFICES ASSUME NEW k \in 1..Len(buffer) - Len(Delim) + 1
                     PROVE  SubSeq(buffer, k, k + Len(Delim) - 1) # Delim
          OBVIOUS
        <5>1. k \in 1..Len(buffer) - 2 /\ k <= B /\ k + Len(Delim) - 1 = k + 2
          BY <2>5, <2>7, <1>3, <1>5
        <5> QED BY <5>1, <2>6
      <4> QED BY <4>1, <1>1, <2>5, FindNone
    <3>2. DelimitedBody(r) = IF Len(buffer) > MaxPart + Len(Delim) THEN Fail(r) ELSE None(r)
      BY <3>1, <1>7 DEF DelimitedBody
    <3>3. arrived < e + 3
      BY <2>7, <1>2, <1>3, <1>5
    <3>4. CASE Len(buffer) > MaxPart + Len(Delim)
      <4>1. B > MaxPart
        BY <3>4, <2>5, <2>7, <1>3, <1>5, <1>8
      <4> QED BY <4>1, <3>2, <3>4, <2>2, <1>6 DEF B, body, i, r
    <3>5. CASE ~(Len(buffer) > MaxPart + Len(Delim))
      BY <3>5, <3>2, <3>3, <2>2, <1>6, <1>11 DEF declared, e, i, r
    <3> QED BY <3>4, <3>5
  <2>8. CASE ~(Len(buffer) < B + 3)
    <3> DEFINE n == Len(buffer)
               d == Len(Delim)
               at == B + 1
    <3>0. n \in Nat /\ d = 3 /\ B \in Nat /\ ~(n < B + 3) /\ at = B + 1 /\ c = b /\ e = b + B /\ b \in Nat
      BY <2>5, <2>8, <1>2, <1>3, <1>5
    <3> HIDE DEF n, d, at
    <3>a. /\ at \in 1..n - 2 /\ at \in 1..n - d + 1 /\ at + d - 1 = at + 2 /\ B <= n
          /\ at \in 1..n /\ at + 1 \in 1..n /\ at + 2 \in 1..n
          /\ c + at = e + 1 /\ c + (at + 1) = e + 2 /\ c + (at + 2) = e + 3
      BY <3>0
    <3>1. /\ at \in 1..Len(buffer) - 2 /\ at \in 1..Len(buffer) - Len(Delim) + 1
          /\ at + Len(Delim) - 1 = at + 2 /\ B <= Len(buffer)
          /\ at \in 1..Len(buffer) /\ at + 1 \in 1..Len(buffer) /\ at + 2 \in 1..Len(buffer)
          /\ c + at = e + 1 /\ c + (at + 1) = e + 2 /\ c + (at + 2) = e + 3
      BY <3>a DEF n, d
    <3>2. buffer[at] = Break /\ buffer[at + 1] = "--" /\ buffer[at + 2] = "b"
      BY <3>1, <2>3, <1>5
    <3>3. SubSeq(buffer, at, at + Len(Delim) - 1) = Delim
      <4>1. SubSeq(buffer, at, at + 2) = Delim
        BY <3>1, <3>2, <2>5, <1>1, TripleAt, Alphabet
      <4> QED BY <4>1, <3>1
    <3>4. \A k \in 1..at - 1 : SubSeq(buffer, k, k + Len(Delim) - 1) # Delim
      <4> SUFFICES ASSUME NEW k \in 1..at - 1 PROVE SubSeq(buffer, k, k + Len(Delim) - 1) # Delim
        OBVIOUS
      <4>1. k \in 1..Len(buffer) - 2 /\ k <= B /\ k + Len(Delim) - 1 = k + 2
        <5>1. k \in 1..B /\ k + d - 1 = k + 2 /\ k \in 1..n - 2
          BY <3>0
        <5> QED BY <5>1, <1>3 DEF n, d
      <4> QED BY <4>1, <2>6
    <3>5. Find(buffer, Delim) = at
      <4>1. /\ buffer \in Seq(Tokens) /\ Delim \in Seq(Tokens)
            /\ at \in 1..Len(buffer) - Len(Delim) + 1
        BY <3>1, <1>1, <2>5
      <4> QED BY <4>1, <3>3, <3>4, FindAt, ZenonT(60)
    <3>6. SubSeq(buffer, 1, at - 1) = body /\ at > 0 /\ at # 0
      <4>1. at - 1 = B /\ at > 0 /\ at # 0
        BY <3>0
      <4> QED BY <4>1, <3>1, <1>9
    <3>7. DelimitedBody(r) = IF Len(body) > MaxPart THEN Fail(r)
                             ELSE Gives(Turn(Rest(buffer, at), "Seek", Undeclared), body)
      BY <3>5, <3>6, <1>7 DEF DelimitedBody
    <3>b. c + at = e + 1
      BY <3>1
    <3>8. CASE B > MaxPart
      BY <3>7, <3>8, <2>2, <1>6 DEF B, body, i, r
    <3>9. CASE ~(B > MaxPart)
      <4>1. B <= MaxPart
        BY <3>9, <1>3, <1>8
      <4>2. Here = Gives(Turn(Rest(buffer, at), "Seek", Undeclared), body)
        BY <3>7, <3>9, <2>2, <1>6 DEF B
      <4>3. at \in 0..Len(buffer)
        BY <3>1, <1>5
      <4> QED BY <4>1, <4>2, <4>3, <3>1, <3>b, <1>11 DEF c, e, body, B, declared, i
    <3> QED BY <3>8, <3>9
  <2> QED BY <2>7, <2>8
<1> QED BY <1>3, <1>10, <1>11

(***************************************************************************)
(* One turn, whatever the state.                                           *)
(***************************************************************************)
Turned(i, k) ==
  /\ k \in 0..Len(buffer) /\ Here.r.buf = Rest(buffer, k)
  /\ At(Here.r.st, Here.r.len, i, arrived - Len(buffer) + k)

\* It goes round, waits, finds the terminator, fails at a part over the cap, or
\* gives the part it is at, and in each case is at the place its new state says.
LEMMA TurnIs ==
  ASSUME Types, Suffix(buffer, arrived - Len(buffer)),
         At(state, need, Current, arrived - Len(buffer))
  PROVE  \/ Here.gives = "more" /\ \E k \in Nat : Turned(Current, k)
         \/ /\ Here.gives = "none"
            /\ \E k \in Nat : Turned(Current, k) /\ Waits(Here.r.st, Current, Here.r.buf)
         \/ /\ Here.gives = "none" /\ Here.r.st = "Finished" /\ Current = Len(script) + 1
            /\ \E k \in 0..Len(buffer) : Here.r.buf = Rest(buffer, k)
         \/ /\ Here.gives = "error" /\ Current \in 1..Len(script)
            /\ \/ Len(script[Current].body) > MaxPart \/ script[Current].first \in BadLines
               \/ /\ Len(buffer) > MaxPartHeader
                  /\ arrived < BodyAt(script, Current)
                  /\ arrived - Len(buffer) = MarkAt(script, Current) + 3
         \/ /\ Here.gives = "part" /\ Current \in 1..Len(script)
            /\ Here.body = script[Current].body /\ Len(Here.body) <= MaxPart
            /\ script[Current].first \notin BadLines
            /\ \E k \in Nat : Turned(Current + 1, k)
<1> DEFINE c == arrived - Len(buffer)
           i == Current
           r == Turn(buffer, state, need)
<1>0. /\ i \in 1..Len(script) + 1 /\ Len(script) \in Nat /\ Len(buffer) \in Nat /\ script \in Scripts
      /\ buffer \in Seq(Tokens) /\ arrived \in Nat
      /\ c \in Nat
      /\ i <= Len(script) => i \in 1..Len(script)
  BY AtPart DEF Types, Suffix
<1>1. \A x, y : Turn(x, y, need).buf = x /\ Turn(x, y, need).st = y
  BY DEF Turn
<1>r. r.buf = buffer /\ r.st = state /\ r.len = need
  BY DEF Turn
<1>s. Rest(buffer, 0) = buffer /\ 0 \in 0..Len(buffer) /\ c + 0 = c
  <2>1. Rest(buffer, 0) = buffer
    <3>1. 0 + 1 = 1
      OBVIOUS
    <3>2. SubSeq(buffer, 1, Len(buffer)) = buffer
      BY <1>0, SubSeqFull
    <3> QED BY <3>1, <3>2 DEF Rest
  <2> QED BY <2>1, <1>0
<1>u. Undeclared \in Int /\ MaxPart \in Nat /\ Undeclared <= MaxPart
  BY SizesNat DEF Undeclared
<1>2. CASE state = "Seek"
  <2>1. CASE \E k \in 0..Len(buffer) :
              /\ c + k = MarkAt(script, i) + 2
              /\ Here = More(Turn(Rest(buffer, k), "AfterMarker", Undeclared))
    <3>1. PICK k \in 0..Len(buffer) :
              /\ c + k = MarkAt(script, i) + 2
              /\ Here = More(Turn(Rest(buffer, k), "AfterMarker", Undeclared))
      BY <2>1
    <3>2. /\ Here.gives = "more" /\ Here.r.buf = Rest(buffer, k) /\ Here.r.st = "AfterMarker"
          /\ Here.r.len = Undeclared
      BY <3>1 DEF More, Turn
    <3>3. Turned(i, k) /\ k \in Nat
      BY <3>1, <3>2, <1>0 DEF Turned, At
    <3> QED BY <3>2, <3>3
  <2>2. CASE \E k \in 0..Len(buffer) :
              /\ Len(buffer) - k <= 1 /\ (k = 0 \/ k = Len(buffer) - 1)
              /\ arrived <= MarkAt(script, i) + 1
              /\ Here = None(Turn(Rest(buffer, k), "Seek", Undeclared))
    <3>1. PICK k \in 0..Len(buffer) :
              /\ Len(buffer) - k <= 1 /\ (k = 0 \/ k = Len(buffer) - 1)
              /\ arrived <= MarkAt(script, i) + 1
              /\ Here = None(Turn(Rest(buffer, k), "Seek", Undeclared))
      BY <2>2
    <3>2. /\ Here.gives = "none" /\ Here.r.buf = Rest(buffer, k) /\ Here.r.st = "Seek"
          /\ Here.r.len = Undeclared
      BY <3>1 DEF None, Turn
    <3>3. StartOf[script][i] <= c + 1 /\ c <= MarkAt(script, i)
      BY <1>2 DEF At
    <3>4. StartOf[script][i] \in Nat /\ MarkAt(script, i) \in Nat /\ c + Len(buffer) = arrived
      <4>1. StartOf[script][i] \in Nat /\ MarkAt(script, i) \in Nat
        BY <1>0, MarkIs
      <4>2. arrived \in Nat /\ Len(buffer) \in Nat
        BY <1>0
      <4>3. c + Len(buffer) = arrived
        BY <4>2
      <4> QED BY <4>1, <4>3
    <3>5. StartOf[script][i] <= (c + k) + 1 /\ c + k <= MarkAt(script, i) /\ k \in Nat
      <4> HIDE DEF c, i
      <4>1. k \in Nat /\ Len(buffer) \in Nat /\ c \in Nat
        BY <1>0
      <4>2. CASE k = 0
        BY <4>1, <4>2, <3>3, <3>4
      <4>3. CASE k = Len(buffer) - 1
        BY <4>1, <4>3, <3>1, <3>3, <3>4
      <4> QED BY <3>1, <4>2, <4>3
    <3>6. Turned(i, k)
      BY <3>2, <3>5 DEF Turned, At
    <3>7. Len(Rest(buffer, k)) = Len(buffer) - k
      BY <1>0, RestProperties
    <3>8. Waits(Here.r.st, i, Here.r.buf)
      BY <3>1, <3>2, <3>7 DEF Waits
    <3> QED BY <3>2, <3>5, <3>6, <3>8
  <2> QED BY <2>1, <2>2, <1>2, SeekTurn
<1>3. CASE state = "AfterMarker"
  <2>0. c = MarkAt(script, i) + 2 /\ need = Undeclared /\ MarkAt(script, i) \in Nat
    BY <1>0, <1>3, MarkIs DEF At
  <2>1. CASE Len(buffer) = 0 /\ Here = None(Turn(Rest(buffer, 0), "AfterMarker", Undeclared))
    <3>1. /\ Here.gives = "none" /\ Here.r.buf = Rest(buffer, 0) /\ Here.r.st = "AfterMarker"
          /\ Here.r.len = Undeclared
      BY <2>1 DEF None, Turn
    <3>2. Turned(i, 0)
      BY <3>1, <2>0, <1>s DEF Turned, At
    <3>3. Waits(Here.r.st, i, Here.r.buf)
      BY <3>1, <2>1, <1>s DEF Waits
    <3> QED BY <3>1, <3>2, <3>3
  <2>2. CASE /\ 1 \in 0..Len(buffer) /\ Current <= Len(script)
             /\ Here = More(Turn(Rest(buffer, 1), "Headers", Undeclared))
    <3>1. /\ Here.gives = "more" /\ Here.r.buf = Rest(buffer, 1) /\ Here.r.st = "Headers"
          /\ Here.r.len = Undeclared
      BY <2>2 DEF More, Turn
    <3>2. c + 1 = MarkAt(script, i) + 3
      BY <2>0
    <3>3. Turned(i, 1)
      BY <3>1, <3>2, <2>2 DEF Turned, At
    <3> QED BY <3>1, <3>3
  <2>3. CASE /\ Current = Len(script) + 1
             /\ Here = None(Turn(Rest(buffer, Len(buffer)), "Finished", Undeclared))
    <3>1. Here.gives = "none" /\ Here.r.buf = Rest(buffer, Len(buffer)) /\ Here.r.st = "Finished"
      BY <2>3 DEF None, Turn
    <3> QED BY <3>1, <2>3, <1>0
  <2> QED BY <2>1, <2>2, <2>3, <1>3, AfterMarkerTurn
<1>4. CASE state = "Headers"
  <2>0. /\ c = MarkAt(script, i) + 3 /\ need = Undeclared /\ i \in 1..Len(script)
    BY <1>0, <1>4 DEF At
  <2>1. CASE /\ Here \in {None(Turn(buffer, state, need)), Fail(Turn(buffer, state, need))}
             /\ arrived < BodyAt(script, i)
             /\ Here.gives = "error" => Len(buffer) > MaxPartHeader
    <3>1. CASE Here = None(r)
      <4>1. /\ Here.gives = "none" /\ Here.r.buf = Rest(buffer, 0) /\ Here.r.st = "Headers"
            /\ Here.r.len = Undeclared
        BY <3>1, <2>0, <1>4, <1>s DEF None, Turn
      <4>2. Turned(i, 0)
        <5>1. i <= Len(script)
          BY <2>0, <1>0
        <5> QED BY <4>1, <5>1, <2>0, <1>s DEF Turned, At
      <4>3. Waits(Here.r.st, i, Here.r.buf)
        BY <4>1, <2>1 DEF Waits
      <4> QED BY <4>1, <4>2, <4>3
    <3>2. CASE Here = Fail(r)
      <4>1. Here.gives = "error"
        BY <3>2 DEF Fail
      <4> QED BY <4>1, <2>0, <2>1
    <3> QED BY <2>1, <3>1, <3>2
  <2>2. CASE /\ Here = Fail(Turn(buffer, state, need))
             /\ Declares(script[i]) > MaxPart \/ script[i].first \in BadLines
    <3>1. Here.gives = "error"
      BY <2>2 DEF Fail
    <3>2. Len(script[i].body) > MaxPart \/ script[i].first \in BadLines
      <4> SUFFICES ASSUME Declares(script[i]) > MaxPart PROVE Len(script[i].body) > MaxPart
        BY <2>2
      <4>1. CASE script[i].declared
        BY <4>1 DEF Declares
      <4>2. CASE ~script[i].declared
        BY <4>2, <1>u DEF Declares, Undeclared
      <4> QED BY <4>1, <4>2
    <3> QED BY <3>1, <3>2, <2>0
  <2>3. CASE \E k \in 0..Len(buffer) :
              /\ c + k = BodyAt(script, i) /\ Declares(script[i]) <= MaxPart
              /\ script[i].first \notin BadLines
              /\ Here = More(Turn(Rest(buffer, k), "Body", Declares(script[i])))
    <3>1. PICK k \in 0..Len(buffer) :
              /\ c + k = BodyAt(script, i) /\ Declares(script[i]) <= MaxPart
              /\ script[i].first \notin BadLines
              /\ Here = More(Turn(Rest(buffer, k), "Body", Declares(script[i])))
      BY <2>3
    <3>2. /\ Here.gives = "more" /\ Here.r.buf = Rest(buffer, k) /\ Here.r.st = "Body"
          /\ Here.r.len = Declares(script[i])
      BY <3>1 DEF More, Turn
    <3>3. i <= Len(script) /\ k \in Nat
      BY <2>0, <1>0
    <3>4. Turned(i, k)
      BY <3>1, <3>2, <3>3 DEF Turned, At
    <3> QED BY <3>2, <3>3, <3>4
  <2> QED BY <2>1, <2>2, <2>3, <1>4, HeadersTurn
<1>5. CASE state = "Body"
  <2>0. /\ c = BodyAt(script, i) /\ need = Declares(script[i]) /\ need <= MaxPart /\ i \in 1..Len(script)
        /\ script[i].first \notin BadLines
    BY <1>0, <1>5 DEF At
  <2>1. CASE /\ Here = None(Turn(buffer, state, need))
             /\ arrived < BodyEnd(script, i) + IF script[i].declared THEN 0 ELSE 3
    <3>1. /\ Here.gives = "none" /\ Here.r.buf = Rest(buffer, 0) /\ Here.r.st = "Body"
          /\ Here.r.len = need
      BY <2>1, <1>5, <1>s DEF None, Turn
    <3>2. Turned(i, 0)
      <4>1. i <= Len(script)
        BY <2>0, <1>0
      <4> QED BY <3>1, <4>1, <2>0, <1>s DEF Turned, At
    <3>3. Waits(Here.r.st, i, Here.r.buf)
      BY <3>1, <2>1 DEF Waits
    <3> QED BY <3>1, <3>2, <3>3
  <2>2. CASE Here = Fail(Turn(buffer, state, need)) /\ Len(script[i].body) > MaxPart
    <3>1. Here.gives = "error"
      BY <2>2 DEF Fail
    <3> QED BY <3>1, <2>0, <2>2
  <2>3. CASE /\ Len(script[i].body) <= MaxPart
             /\ \E k \in 0..Len(buffer) :
                  /\ c + k = IF script[i].declared THEN BodyEnd(script, i) ELSE BodyEnd(script, i) + 1
                  /\ Here = Gives(Turn(Rest(buffer, k), "Seek", Undeclared), script[i].body)
    <3>1. PICK k \in 0..Len(buffer) :
                  /\ c + k = IF script[i].declared THEN BodyEnd(script, i) ELSE BodyEnd(script, i) + 1
                  /\ Here = Gives(Turn(Rest(buffer, k), "Seek", Undeclared), script[i].body)
      BY <2>3
    <3>2. /\ Here.gives = "part" /\ Here.r.buf = Rest(buffer, k) /\ Here.r.st = "Seek"
          /\ Here.r.len = Undeclared /\ Here.body = script[i].body
      BY <3>1 DEF Gives, Turn
    <3>3. StartOf[script][i + 1] = BodyEnd(script, i) + 1 /\ BodyEnd(script, i) \in Nat
      BY <2>0, <1>0, PlacesAre
    <3>4. StartOf[script][i + 1] <= MarkAt(script, i + 1) /\ MarkAt(script, i + 1) \in Nat
      <4>1. i + 1 \in 1..Len(script) + 1
        BY <2>0, <1>0
      <4> QED BY <4>1, <1>0, MarkIs
    <3>5. StartOf[script][i + 1] <= (c + k) + 1 /\ c + k <= MarkAt(script, i + 1) /\ k \in Nat
      <4> HIDE DEF c, i
      <4>1. k \in Nat /\ c + k \in Nat
        BY <1>0
      <4>2. c + k \in {BodyEnd(script, i), BodyEnd(script, i) + 1}
        BY <3>1
      <4> QED BY <4>1, <4>2, <3>3, <3>4
    <3>6. Turned(i + 1, k)
      BY <3>2, <3>5 DEF Turned, At
    <3> QED BY <3>2, <3>5, <3>6, <2>0, <2>3
  <2> QED BY <2>1, <2>2, <2>3, <1>5, BodyTurn
<1>6. state \in {"Seek", "AfterMarker", "Headers", "Body"}
  BY DEF At
<1> QED BY <1>2, <1>3, <1>4, <1>5, <1>6

----------------------------------------------------------------------------
(* The invariant is inductive.                                             *)

IInv == Types /\ Framing /\ Handed

\* A turn that takes k tokens from the buffer.
LEMMA TurnHolds ==
  ASSUME Types, Suffix(buffer, arrived - Len(buffer)), NEW k \in 0..Len(buffer),
         buffer' = Rest(buffer, k), UNCHANGED <<script, arrived>>
  PROVE  /\ Suffix(buffer, arrived - Len(buffer))'
         /\ (arrived - Len(buffer))' = arrived - Len(buffer) + k
         /\ buffer' \in Seq(Tokens)
<1> DEFINE c == arrived - Len(buffer)
<1>0. buffer \in Seq(Tokens) /\ arrived \in Nat /\ Len(buffer) \in Nat /\ k \in Nat
  BY DEF Types
<1>1. Suffix(Rest(buffer, k), c + k)
  BY <1>0, RestHolds
<1>2. Rest(buffer, k) \in Seq(Tokens) /\ Len(Rest(buffer, k)) = Len(buffer) - k
  BY <1>0, RestProperties
<1>3. arrived' - Len(buffer') = c + k
  <2> DEFINE n == Len(buffer)
             m == Len(buffer')
  <2>1. m = n - k /\ n \in Nat /\ arrived' = arrived
    BY <1>0, <1>2
  <2> HIDE DEF n, m
  <2>2. arrived' - m = arrived - n + k
    BY <2>1, <1>0
  <2> QED BY <2>2 DEF n, m
<1>4. Suffix(buffer, arrived - Len(buffer))'
  <2>1. /\ Rest(buffer, k) \in Seq(Tokens) /\ c + k \in Nat /\ c + k + Len(Rest(buffer, k)) = arrived
        /\ \A j \in 1..Len(Rest(buffer, k)) : Rest(buffer, k)[j] = Body[c + k + j]
    BY <1>1 DEF Suffix
  <2>2. Body' = Body
    BY DEF Body
  <2>3. /\ buffer' \in Seq(Tokens) /\ arrived' - Len(buffer') \in Nat
        /\ (arrived' - Len(buffer')) + Len(buffer') = arrived'
        /\ \A j \in 1..Len(buffer') : buffer'[j] = Body'[(arrived' - Len(buffer')) + j]
    BY <2>1, <2>2, <1>3, Zenon
  <2> QED BY <2>3 DEF Suffix
<1> QED BY <1>2, <1>3, <1>4

\* The next n elements of a sequence.
LEMMA CutIs ==
  ASSUME NEW T, NEW s \in Seq(T), NEW a \in Nat, NEW n \in Nat, a + n <= Len(s)
  PROVE  /\ SubSeq(s, a + 1, a + n) \in Seq(T) /\ Len(SubSeq(s, a + 1, a + n)) = n
         /\ \A j \in 1..n : SubSeq(s, a + 1, a + n)[j] = s[a + j]
<1>1. a + 1 \in Int /\ a + n \in Int /\ \A j \in a + 1..a + n : s[j] \in T
  OBVIOUS
<1> DEFINE cut == SubSeq(s, a + 1, a + n)
<1>2. /\ cut \in Seq(T)
      /\ Len(cut) = IF a + 1 <= a + n THEN (a + n) - (a + 1) + 1 ELSE 0
      /\ \A j \in 1..(a + n) - (a + 1) + 1 : cut[j] = s[a + 1 + j - 1]
  BY <1>1, SubSeqProperties
<1> HIDE DEF cut
<1> DEFINE l == Len(cut)
<1>3. l = IF a + 1 <= a + n THEN (a + n) - (a + 1) + 1 ELSE 0
  BY <1>2
<1> HIDE DEF l
<1>4. l = n
  BY <1>3
<1>5. ASSUME NEW j \in 1..n PROVE cut[j] = s[a + j]
  <2>1. j \in 1..(a + n) - (a + 1) + 1 /\ a + 1 + j - 1 = a + j
    OBVIOUS
  <2> QED BY <2>1, <1>2
<1> QED BY <1>2, <1>4, <1>5 DEF cut, l

\* A chunk is appended to what is buffered, and the place stays.
LEMMA ChunkHolds ==
  ASSUME Types, Suffix(buffer, arrived - Len(buffer)), NEW n \in Nat,
         arrived + n <= Len(Body), arrived' = arrived + n, script' = script,
         buffer' = buffer \o SubSeq(Body, arrived + 1, arrived + n)
  PROVE  /\ Suffix(buffer, arrived - Len(buffer))'
         /\ (arrived - Len(buffer))' = arrived - Len(buffer)
         /\ buffer' \in Seq(Tokens)
<1> DEFINE c == arrived - Len(buffer)
           chunk == SubSeq(Body, arrived + 1, arrived + n)
           S == Stream[script]
           b == Len(buffer)
<1>0. /\ buffer \in Seq(Tokens) /\ arrived \in Nat /\ b \in Nat /\ c \in Nat /\ c + b = arrived
      /\ S \in Seq(Tokens) /\ Len(S) \in Nat /\ arrived + n <= Len(S)
      /\ \A j \in 1..b : buffer[j] = S[c + j]
  <2>1. buffer \in Seq(Tokens) /\ arrived \in Nat /\ script \in Scripts
    BY DEF Types
  <2>2. S \in Seq(Tokens) /\ Len(S) \in Nat
    BY <2>1, PartTypes
  <2>3. Body = S
    BY DEF Body
  <2>4. c \in Nat /\ c + Len(buffer) = arrived /\ \A j \in 1..Len(buffer) : buffer[j] = Body[c + j]
    BY DEF Suffix
  <2>5. arrived + n <= Len(S)
    BY <2>3
  <2>6. Len(buffer) \in Nat
    BY <2>1
  <2> HIDE DEF S, c
  <2> QED BY <2>1, <2>2, <2>3, <2>4, <2>5, <2>6
<1>1. /\ chunk \in Seq(Tokens) /\ Len(chunk) = n
      /\ \A j \in 1..n : chunk[j] = S[arrived + j]
  <2>1. S \in Seq(Tokens) /\ arrived \in Nat /\ arrived + n <= Len(S) /\ Body = S
    BY <1>0 DEF Body
  <2> HIDE DEF S
  <2>2. /\ SubSeq(S, arrived + 1, arrived + n) \in Seq(Tokens)
        /\ Len(SubSeq(S, arrived + 1, arrived + n)) = n
        /\ \A j \in 1..n : SubSeq(S, arrived + 1, arrived + n)[j] = S[arrived + j]
    BY <2>1, CutIs, Zenon
  <2> QED BY <2>1, <2>2
<1> HIDE DEF chunk, S, c
<1>2. /\ buffer' \in Seq(Tokens) /\ Len(buffer') = b + Len(chunk)
      /\ \A j \in 1..Len(buffer) : buffer'[j] = buffer[j]
      /\ \A j \in 1..Len(chunk) : buffer'[Len(buffer) + j] = chunk[j]
  <2>1. buffer \in Seq(Tokens) /\ chunk \in Seq(Tokens) /\ buffer' = buffer \o chunk
    BY <1>0, <1>1 DEF chunk
  <2> HIDE DEF b
  <2>2. /\ buffer \o chunk \in Seq(Tokens) /\ Len(buffer \o chunk) = Len(buffer) + Len(chunk)
        /\ \A j \in 1..Len(buffer) : (buffer \o chunk)[j] = buffer[j]
        /\ \A j \in 1..Len(chunk) : (buffer \o chunk)[Len(buffer) + j] = chunk[j]
    BY <2>1, CatIs
  <2> QED BY <2>1, <2>2 DEF b
<1> DEFINE b2 == Len(buffer')
<1>3. b2 = b + n
  BY <1>1, <1>2
<1> HIDE DEF b, b2
<1>4. arrived' - b2 = c /\ c + b2 = arrived'
  BY <1>0, <1>3
<1>5. \A j \in 1..b2 : buffer'[j] = S[c + j]
  <2> SUFFICES ASSUME NEW j \in 1..b2 PROVE buffer'[j] = S[c + j]
    OBVIOUS
  <2>1. CASE j <= b
    <3>1. j \in 1..b
      BY <2>1, <1>0, <1>3
    <3> QED BY <3>1, <1>0, <1>2 DEF b
  <2>2. CASE ~(j <= b)
    <3> DEFINE h == j - b
    <3>1. h \in 1..n /\ b + h = j /\ arrived + h = c + j
      BY <2>2, <1>0, <1>3
    <3> HIDE DEF h
    <3>2. buffer'[b + h] = chunk[h]
      BY <3>1, <1>1, <1>2 DEF b
    <3> QED BY <3>1, <3>2, <1>1
  <2> QED BY <2>1, <2>2
<1>6. Body' = S
  BY DEF Body, S
<1>7. (arrived - Len(buffer))' = c
  BY <1>4 DEF b2
<1>8. Suffix(buffer, arrived - Len(buffer))'
  <2>1. /\ buffer' \in Seq(Tokens) /\ c \in Nat /\ c + Len(buffer') = arrived'
        /\ \A j \in 1..Len(buffer') : buffer'[j] = Body'[c + j]
    BY <1>0, <1>2, <1>4, <1>5, <1>6 DEF b2
  <2>2. arrived' - Len(buffer') = c
    BY <1>7
  <2> QED BY <2>1, <2>2 DEF Suffix
<1> QED BY <1>2, <1>7, <1>8 DEF c

\* The invariant holds before anything arrives.
LEMMA IInvInit == Init => IInv
<1> SUFFICES ASSUME Init PROVE IInv
  OBVIOUS
<1>1. script \in Scripts /\ Len(script) \in Nat /\ Len(Stream[script]) \in Nat /\ StartOf[script][1] = 0
  BY PartTypes DEF Init
<1>2. /\ arrived = 0 /\ buffer = <<>> /\ handled = <<>> /\ Len(buffer) = 0 /\ Len(handled) = 0
      /\ state = "Seek" /\ need = Undeclared /\ pc = "await" /\ undecodable = 0
      /\ buffer \in Seq(Tokens) /\ handled \in Seq(Seq(Tokens))
  BY DEF Init
<1>3. Types
  BY <1>1, <1>2 DEF Types, Body
<1>4. Handed
  BY <1>2 DEF Handed
<1>5. 1 \in 1..Len(script) + 1 /\ Current = 1
  BY <1>1, <1>2 DEF Current
<1>6. MarkAt(script, 1) \in Nat
  BY <1>1, <1>5, MarkIs
<1>7. arrived - Len(buffer) = 0
  <2> DEFINE n == Len(buffer)
  <2>1. n = 0 /\ arrived = 0
    BY <1>2
  <2> HIDE DEF n
  <2>2. arrived - n = 0
    BY <2>1
  <2> QED BY <2>2 DEF n
<1>8. Suffix(buffer, 0)
  BY <1>2 DEF Suffix
<1>9. At(state, need, Current, 0)
  BY <1>1, <1>2, <1>5, <1>6 DEF At
<1>10. Waits(state, Current, buffer)
  BY <1>2, <1>5, <1>6 DEF Waits
<1>11. Framing
  BY <1>7, <1>8, <1>9, <1>10 DEF Framing
<1> QED BY <1>3, <1>4, <1>11 DEF IInv

\* Every step keeps the invariant: one step of the proof for each action.
LEMMA IInvNext == IInv /\ [Next]_vars => IInv'
<1> SUFFICES ASSUME IInv, [Next]_vars PROVE IInv'
  OBVIOUS
<1> DEFINE c == arrived - Len(buffer)
<1>0. Types /\ Framing /\ Handed
  BY DEF IInv
<1>t. /\ script \in Scripts /\ arrived \in Nat /\ arrived <= Len(Body) /\ buffer \in Seq(Tokens)
      /\ handled \in Seq(Seq(Tokens)) /\ Len(handled) <= Len(script)
      /\ pc \in {"await", "split"} /\ undecodable \in Nat
      /\ Len(script) \in Nat /\ Len(handled) \in Nat
  BY <1>0, PartTypes DEF Types
<1>f. ASSUME Open
      PROVE  /\ Suffix(buffer, c) /\ At(state, need, Current, c)
             /\ pc = "await" => Waits(state, Current, buffer)
  BY <1>f, <1>0 DEF Framing
\* What leaves the stream open while nothing of the splitter moves.
<1>n. ASSUME UNCHANGED <<script, arrived, reader, pc, handled>>, undecodable' \in Nat,
             Open' => Open
      PROVE  IInv'
  <2>1. Types' /\ Handed'
    BY <1>n, <1>0, <1>t DEF Types, Handed, Body, reader
  <2>2. ASSUME Open' PROVE /\ Suffix(buffer, c)' /\ At(state, need, Current, c)'
                           /\ pc' = "await" => Waits(state, Current, buffer)'
    BY <2>2, <1>n, <1>f DEF reader, Suffix, At, Waits, Current, Body
  <2> QED BY <2>1, <2>2 DEF IInv, Framing
<1>1. ASSUME NEW n \in 1..MaxChunk, Chunk(n) PROVE IInv'
  <2>0. /\ Open /\ pc = "await" /\ arrived + n <= Len(Body) /\ arrived' = arrived + n
        /\ UNCHANGED <<script, state, need, handled, undecodable>> /\ n \in Nat
    BY <1>1, SizesNat DEF Chunk, loop
  <2>b. Body' = Body /\ arrived' \in Nat /\ arrived' <= Len(Body')
    BY <2>0, <1>t DEF Body
  <2>1. CASE OverCap(n)
    <3>1. exit' = "Malformed" /\ UNCHANGED <<buffer, pc>>
      BY <1>1, <2>1 DEF Chunk, Leave
    <3>2. Types' /\ Handed'
      BY <2>0, <2>b, <3>1, <1>0, <1>t DEF Types, Handed
    <3>3. ~Open'
      BY <3>1 DEF Open
    <3> QED BY <3>2, <3>3 DEF IInv, Framing
  <2>2. CASE ~OverCap(n)
    <3>1. /\ buffer' = buffer \o SubSeq(Body, arrived + 1, arrived + n) /\ pc' = "split"
          /\ UNCHANGED exit
      BY <1>1, <2>2 DEF Chunk
    <3>2. Suffix(buffer, c)' /\ c' = c /\ buffer' \in Seq(Tokens)
      BY <2>0, <3>1, <1>0, <1>f, ChunkHolds
    <3>3. Types' /\ Handed'
      BY <2>0, <2>b, <3>1, <3>2, <1>0, <1>t DEF Types, Handed
    <3>4. At(state, need, Current, c)'
      BY <2>0, <3>2, <1>f DEF At, Current
    <3> QED BY <3>1, <3>2, <3>3, <3>4 DEF IInv, Framing
  <2> QED BY <2>1, <2>2
\* A turn of the splitter.
<1>s. ASSUME Open
      PROVE  \/ Here.gives = "more" /\ \E k \in Nat : Turned(Current, k)
             \/ /\ Here.gives = "none"
                /\ \E k \in Nat : Turned(Current, k) /\ Waits(Here.r.st, Current, Here.r.buf)
             \/ /\ Here.gives = "none" /\ Here.r.st = "Finished" /\ Current = Len(script) + 1
                /\ \E k \in 0..Len(buffer) : Here.r.buf = Rest(buffer, k)
             \/ Here.gives = "error"
             \/ /\ Here.gives = "part" /\ Current \in 1..Len(script)
                /\ Here.body = script[Current].body /\ Len(Here.body) <= MaxPart
                /\ script[Current].first \notin BadLines
                /\ \E k \in Nat : Turned(Current + 1, k)
  BY <1>s, <1>0, <1>f, TurnIs
<1>m. ASSUME Open, After(Here.r), UNCHANGED <<script, arrived>>, NEW i, NEW k \in Nat, Turned(i, k)
      PROVE  /\ Suffix(buffer, c)' /\ buffer' \in Seq(Tokens)
             /\ (Current' = i => At(state, need, Current, c)')
  <2>1. /\ k \in 0..Len(buffer) /\ Here.r.buf = Rest(buffer, k)
        /\ At(Here.r.st, Here.r.len, i, c + k)
    BY <1>m DEF Turned
  <2>2. buffer' = Rest(buffer, k) /\ state' = Here.r.st /\ need' = Here.r.len
    BY <2>1, <1>m DEF After
  <2>3. Suffix(buffer, c)' /\ c' = c + k /\ buffer' \in Seq(Tokens)
    BY <2>1, <2>2, <1>m, <1>0, <1>f, TurnHolds
  <2>4. ASSUME Current' = i PROVE At(state, need, Current, c)'
    BY <2>1, <2>2, <2>3, <2>4, <1>m DEF At
  <2> QED BY <2>3, <2>4
<1>2. ASSUME Split PROVE IInv'
  <2>0. /\ Open /\ pc = "split" /\ Here.gives = "more" /\ After(Here.r)
        /\ UNCHANGED <<script, arrived, pc, exit, handled, undecodable>>
    BY <1>2 DEF Split, Splitting, loop
  <2>1. PICK k \in Nat : Turned(Current, k)
    BY <2>0, <1>s
  <2>2. Current' = Current
    BY <2>0 DEF Current
  <2>3. Suffix(buffer, c)' /\ buffer' \in Seq(Tokens) /\ At(state, need, Current, c)'
    BY <2>0, <2>1, <2>2, <1>m
  <2>4. Types' /\ Handed'
    BY <2>0, <2>3, <1>0, <1>t DEF Types, Handed, Body
  <2> QED BY <2>0, <2>3, <2>4 DEF IInv, Framing
<1>3. ASSUME Unframeable PROVE IInv'
  <2>1. /\ UNCHANGED <<script, arrived, reader, pc, handled, undecodable>> /\ exit' = "Malformed"
    BY <1>3 DEF Unframeable, Leave, loop
  <2> QED BY <2>1, <1>n, <1>t DEF Open
<1>4. ASSUME Starved PROVE IInv'
  <2>0. /\ Open /\ pc = "split" /\ Here.gives = "none" /\ After(Here.r) /\ pc' = "await"
        /\ IF Here.r.st = "Finished" THEN exit' = "EndOfStream" ELSE exit' = exit
        /\ UNCHANGED <<script, arrived, handled, undecodable>>
    BY <1>4 DEF Starved, Splitting, Leave, loop
  <2>1. CASE \E k \in Nat : Turned(Current, k) /\ Waits(Here.r.st, Current, Here.r.buf)
    <3>1. PICK k \in Nat : Turned(Current, k) /\ Waits(Here.r.st, Current, Here.r.buf)
      BY <2>1
    <3>2. Current' = Current
      BY <2>0 DEF Current
    <3>3. Suffix(buffer, c)' /\ buffer' \in Seq(Tokens) /\ At(state, need, Current, c)'
      BY <2>0, <3>1, <3>2, <1>m
    <3>4. Waits(state, Current, buffer)'
      BY <2>0, <3>1, <3>2 DEF After, Waits
    <3>5. Types' /\ Handed'
      BY <2>0, <3>3, <1>0, <1>t DEF Types, Handed, Body
    <3> QED BY <3>3, <3>4, <3>5 DEF IInv, Framing
  <2>2. CASE /\ Here.r.st = "Finished"
             /\ \E k \in 0..Len(buffer) : Here.r.buf = Rest(buffer, k)
    <3>1. ~Open'
      BY <2>0, <2>2 DEF Open
    <3>2. buffer' \in Seq(Tokens)
      BY <2>0, <2>2, <1>t, RestProperties DEF After
    <3>3. Types' /\ Handed'
      BY <2>0, <3>2, <1>0, <1>t DEF Types, Handed, Body
    <3> QED BY <3>1, <3>3 DEF IInv, Framing
  <2> QED BY <2>0, <2>1, <2>2, <1>s
<1>5. ASSUME Handle PROVE IInv'
  <2>0. /\ Open /\ pc = "split" /\ Here.gives = "part" /\ After(Here.r)
        /\ handled' = Append(handled, Here.body) /\ undecodable' \in {0, undecodable + 1}
        /\ UNCHANGED <<script, arrived, pc>>
    BY <1>5 DEF Handle, Splitting, Count
  <2>1. /\ Current \in 1..Len(script)
        /\ Here.body = script[Current].body /\ Len(Here.body) <= MaxPart
        /\ script[Current].first \notin BadLines
    BY <2>0, <1>s
  <2>2. PICK k \in Nat : Turned(Current + 1, k)
    BY <2>0, <1>s
  <2>3. Here.body \in Seq(Tokens)
    BY <2>1, <1>t, PartTypes
  <2>4. /\ handled' \in Seq(Seq(Tokens)) /\ Len(handled') = Len(handled) + 1
        /\ \A n \in 1..Len(handled) : handled'[n] = handled[n]
        /\ handled'[Len(handled) + 1] = Here.body
    BY <2>0, <2>3, <1>t
  <2>5. Current' = Current + 1 /\ Len(handled) + 1 <= Len(script)
    BY <2>1, <2>4, <1>t DEF Current
  <2>6. Suffix(buffer, c)' /\ buffer' \in Seq(Tokens) /\ At(state, need, Current, c)'
    BY <2>0, <2>2, <2>5, <1>m
  <2>7. Types'
    <3>1. undecodable' \in Nat
      BY <2>0, <1>t
    <3> QED BY <2>0, <2>4, <2>5, <2>6, <3>1, <1>t DEF Types, Body
  <2>8. Handed'
    <3> SUFFICES ASSUME NEW n \in 1..Len(handled')
                 PROVE  /\ handled'[n] = script'[n].body /\ Len(handled'[n]) <= MaxPart
                        /\ script'[n].first \notin BadLines
      BY DEF Handed
    <3>1. CASE n \in 1..Len(handled)
      BY <3>1, <2>0, <2>4, <1>0 DEF Handed
    <3>2. CASE n = Len(handled) + 1
      BY <3>2, <2>0, <2>1, <2>4 DEF Current
    <3> QED BY <3>1, <3>2, <2>4, <1>t
  <2> QED BY <2>0, <2>6, <2>7, <2>8 DEF IInv, Framing
<1>6. ASSUME NEW how \in {"TransportLost", "EndOfStream"}, Cut(how) PROVE IInv'
  <2>1. /\ UNCHANGED <<script, arrived, reader, pc, handled, undecodable>> /\ exit' = how
    BY <1>6 DEF Cut, Leave, loop
  <2> QED BY <2>1, <1>n, <1>t DEF Open
<1>7. ASSUME Missed PROVE IInv'
  <2>1. /\ UNCHANGED <<script, arrived, reader, pc, handled, undecodable>> /\ exit' = "HeartbeatMissed"
    BY <1>7 DEF Missed, Leave, loop
  <2> QED BY <2>1, <1>n, <1>t DEF Open
<1>8. ASSUME Tick PROVE IInv'
  <2>1. UNCHANGED <<script, arrived, reader, pc, exit, handled, undecodable>>
    BY <1>8 DEF Tick
  <2> QED BY <2>1, <1>n, <1>t DEF Open
<1>9. ASSUME UNCHANGED vars PROVE IInv'
  <2>1. UNCHANGED <<script, arrived, reader, pc, exit, handled, undecodable>>
    BY <1>9 DEF vars, loop
  <2> QED BY <2>1, <1>n, <1>t DEF Open
<1> QED BY <1>1, <1>2, <1>3, <1>4, <1>5, <1>6, <1>7, <1>8, <1>9 DEF Next

----------------------------------------------------------------------------
(* Parts arrive as sent.                                                   *)

\* The states and counters of the reading loop stay within their types.
THEOREM WireTypes == Spec => []Types
<1>1. Init => IInv
  BY IInvInit
<1>2. IInv /\ [Next]_vars => IInv'
  BY IInvNext
<1>3. IInv => Types
  BY DEF IInv
<1> QED BY <1>1, <1>2, <1>3, PTL DEF Spec

\* Parts that are handed on one for one are a prefix of what was sent.
LEMMA HandedIsPrefix ==
  ASSUME Types, Handed
  PROVE  IsPrefix(handled, Bodies)
<1>1. /\ handled \in Seq(Seq(Tokens)) /\ Len(handled) \in Nat /\ Len(script) \in Nat
      /\ DOMAIN script = 1..Len(script) /\ Len(handled) <= Len(script)
      /\ \A k \in 1..Len(script) : script[k].body \in Seq(Tokens)
  <2>1. /\ script \in Scripts /\ handled \in Seq(Seq(Tokens)) /\ Len(handled) <= Len(script)
    BY DEF Types
  <2>2. /\ Len(script) \in Nat /\ DOMAIN script = 1..Len(script)
        /\ \A k \in 1..Len(script) : script[k].body \in Seq(Tokens)
    BY <2>1, PartTypes
  <2> QED BY <2>1, <2>2
<1>2. Bodies \in Seq(Seq(Tokens)) /\ Len(Bodies) = Len(script)
  BY <1>1 DEF Bodies
<1>3. \A k \in 1..Len(handled) : handled[k] = Bodies[k]
  BY <1>1 DEF Handed, Bodies
<1> DEFINE n == Len(handled)
           p == SubSeq(handled, 1, n)
           q == SubSeq(Bodies, 1, n)
<1>4. /\ p \in Seq(Seq(Tokens)) /\ Len(p) = n /\ \A j \in 1..n : p[j] = handled[j]
  BY <1>1
<1>5. /\ q \in Seq(Seq(Tokens)) /\ Len(q) = n /\ \A j \in 1..n : q[j] = Bodies[j]
  BY <1>1, <1>2
<1> HIDE DEF p, q, n
<1>6. p = q
  <2>1. \A j \in 1..Len(p) : p[j] = q[j]
    BY <1>3, <1>4, <1>5 DEF n
  <2> QED BY <2>1, <1>4, <1>5, SeqEqual
<1>7. Len(handled) <= Len(Bodies)
  BY <1>1, <1>2
<1> QED BY <1>6, <1>7 DEF IsPrefix, p, q, n

\* Where a part is whole, in terms of the places of the stream.
LEMMA WholeIs ==
  ASSUME script \in Scripts, NEW i \in 1..Len(script)
  PROVE  /\ WholeAt(i) = BodyEnd(script, i) + IF script[i].declared THEN 0 ELSE 3
         /\ BodyEnd(script, i) \in Nat /\ WholeAt(i) \in Nat
         /\ BodyEnd(script, i) <= WholeAt(i) /\ WholeAt(i) <= BodyEnd(script, i) + 3
         /\ BodyAt(script, i) <= BodyEnd(script, i)
         /\ StartOf[script][i] + 4 <= BodyAt(script, i)
         /\ MarkAt(script, i) + 4 <= BodyAt(script, i)
<1>1. WholeAt(i) = BodyEnd(script, i) + IF script[i].declared THEN 0 ELSE 3
  BY Marks DEF WholeAt, BodyEnd, BodyAt
<1>2. /\ MarkAt(script, i) \in Nat /\ BodyAt(script, i) \in Nat /\ BodyEnd(script, i) \in Nat
      /\ StartOf[script][i] <= MarkAt(script, i)
      /\ BodyAt(script, i) = MarkAt(script, i) + HeaderLen(script[i]) + 4
      /\ BodyEnd(script, i) = BodyAt(script, i) + Len(script[i].body)
  BY PlacesAre
<1>3. HeaderLen(script[i]) \in Nat /\ Len(script[i].body) \in Nat /\ StartOf[script][i] \in Nat
  BY PartTypes DEF HeaderLen
<1> DEFINE w == WholeAt(i)
           e == BodyEnd(script, i)
           b == BodyAt(script, i)
           m == MarkAt(script, i)
           h == HeaderLen(script[i])
           l == Len(script[i].body)
           o == StartOf[script][i]
<1>4. w = e + IF script[i].declared THEN 0 ELSE 3
  BY <1>1
<1>5. m \in Nat /\ b \in Nat /\ e \in Nat /\ h \in Nat /\ l \in Nat /\ o \in Nat /\ o <= m
      /\ b = m + h + 4 /\ e = b + l
  BY <1>2, <1>3
<1> HIDE DEF w, e, b, m, h, l, o
<1>6. w \in Nat /\ e <= w /\ w <= e + 3 /\ b <= e /\ o + 4 <= b /\ m + 4 <= b
  BY <1>4, <1>5
<1> QED BY <1>1, <1>2, <1>6 DEF w, e, b, m, o

\* The states of the splitter while the stream is open.
LEMMA AtIn ==
  ASSUME NEW st, NEW len, NEW i, NEW c, At(st, len, i, c)
  PROVE  \/ st = "Seek"
         \/ st = "AfterMarker" /\ c = MarkAt(script, i) + 2
         \/ st = "Headers"
         \/ st = "Body"
  BY DEF At

\* A loop that waits has not got the next part whole, nor then any after it.
LEMMA WaitingIsShort ==
  ASSUME Types, At(state, need, Current, arrived - Len(buffer)),
         arrived - Len(buffer) + Len(buffer) = arrived,
         Waits(state, Current, buffer), NEW i \in 1..Len(script), i >= Current
  PROVE  arrived < WholeAt(i)
<1>1. /\ script \in Scripts /\ arrived \in Nat /\ Current \in 1..Len(script) + 1
      /\ Len(script) \in Nat /\ Current \in 1..Len(script) /\ Len(buffer) \in Nat
  BY AtPart DEF Types
<1> DEFINE k == Current
           w == WholeAt(k)
           e == BodyEnd(script, k)
           b == BodyAt(script, k)
           m == MarkAt(script, k)
<1>2. /\ w = e + IF script[k].declared THEN 0 ELSE 3
      /\ e \in Nat /\ w \in Nat /\ e <= w /\ w <= e + 3 /\ b <= e /\ m + 4 <= b
      /\ m \in Nat /\ b \in Nat
  BY <1>1, WholeIs, PlacesAre
<1>3. /\ \/ state = "Seek"
         \/ state = "AfterMarker" /\ arrived - Len(buffer) = m + 2
         \/ state = "Headers"
         \/ state = "Body"
      /\ state = "Seek" => arrived <= m + 1
      /\ state = "AfterMarker" => Len(buffer) = 0
      /\ state = "Headers" => arrived < b
      /\ state = "Body" => arrived < e + IF script[k].declared THEN 0 ELSE 3
  <2>1. \/ state = "Seek"
        \/ state = "AfterMarker" /\ arrived - Len(buffer) = m + 2
        \/ state = "Headers"
        \/ state = "Body"
    BY AtIn, Zenon
  <2>2. /\ state = "Seek" => arrived <= m + 1
        /\ state = "AfterMarker" => Len(buffer) = 0
        /\ state = "Headers" => arrived < b
        /\ state = "Body" => arrived < e + IF script[k].declared THEN 0 ELSE 3
    BY Zenon DEF Waits
  <2> QED BY <2>1, <2>2
<1> HIDE DEF k, w, e, b, m
<1>4. arrived < w
  <2>1. CASE state = "Seek"
    BY <2>1, <1>1, <1>2, <1>3
  <2>2. CASE state = "AfterMarker" /\ arrived - Len(buffer) = m + 2
    <3> DEFINE n == Len(buffer)
    <3>1. n = 0 /\ arrived - n = m + 2
      BY <2>2, <1>3
    <3> HIDE DEF n
    <3>2. arrived = m + 2
      BY <3>1, <1>1
    <3> QED BY <3>2, <1>1, <1>2
  <2>3. CASE state = "Headers"
    BY <2>3, <1>1, <1>2, <1>3
  <2>4. CASE state = "Body"
    BY <2>4, <1>1, <1>2, <1>3
  <2> QED BY <2>1, <2>2, <2>3, <2>4, <1>3
<1>5. CASE i = Current
  BY <1>4, <1>5 DEF w, k
<1>6. CASE i # Current
  <2>1. k + 1 \in 1..Len(script) + 1 /\ i \in k + 1..Len(script) + 1
    BY <1>1, <1>6 DEF k
  <2>2. StartOf[script][k + 1] <= StartOf[script][i]
    BY <1>1, <2>1, StartsRise
  <2>3. StartOf[script][k + 1] = e + 1
    BY <1>1, PlacesAre DEF k, e
  <2>4. StartOf[script][i] \in Nat /\ StartOf[script][i] + 4 <= BodyAt(script, i) /\ BodyAt(script, i) \in Nat
        /\ BodyAt(script, i) <= BodyEnd(script, i) /\ BodyEnd(script, i) <= WholeAt(i)
        /\ BodyEnd(script, i) \in Nat /\ WholeAt(i) \in Nat
    <3>1. i \in 1..Len(script) + 1
      BY <1>1
    <3>2. StartOf[script][i] \in Nat
      BY <1>1, <3>1, PartTypes
    <3>3. BodyAt(script, i) \in Nat
      BY <1>1, PlacesAre
    <3> QED BY <3>2, <3>3, <1>1, WholeIs, Zenon
  <2> QED BY <2>2, <2>3, <2>4, <1>1, <1>2, <1>4
<1> QED BY <1>5, <1>6

\* The parts handed on are the parts the agent sent, whole, in order, each once,
\* wherever the transport cut the stream; and a loop that goes back to waiting has
\* handed on every part that is whole (next_part; the inner loop of drive_stream).
THEOREM PartsArriveAsSent == Spec => []PartsAsSent
<1>1. Init => IInv
  BY IInvInit
<1>2. IInv /\ [Next]_vars => IInv'
  BY IInvNext
<1>3. IInv => PartsAsSent
  <2> SUFFICES ASSUME IInv PROVE PartsAsSent
    OBVIOUS
  <2>0. Types /\ Framing /\ Handed
    BY DEF IInv
  <2>1. IsPrefix(handled, Bodies)
    BY <2>0, HandedIsPrefix
  <2>2. ASSUME pc = "await", Open, NEW i \in DOMAIN script, WholeAt(i) <= arrived
        PROVE  Len(handled) >= i
    <3>1. Suffix(buffer, arrived - Len(buffer)) /\ At(state, need, Current, arrived - Len(buffer))
          /\ Waits(state, Current, buffer)
      BY <2>0, <2>2 DEF Framing
    <3>2. i \in 1..Len(script) /\ script \in Scripts /\ arrived \in Nat /\ Len(handled) \in Nat
      BY <2>0, PartTypes DEF Types
    <3>3. ASSUME i >= Current PROVE FALSE
      <4>1. arrived - Len(buffer) + Len(buffer) = arrived
        BY <3>1 DEF Suffix
      <4>2. arrived < WholeAt(i)
        BY <4>1, <3>1, <3>2, <3>3, <2>0, WaitingIsShort
      <4>3. WholeAt(i) \in Nat
        BY <3>2, WholeIs
      <4> QED BY <4>2, <4>3, <3>2, <2>2
    <3>4. i \in Int /\ ~(i >= Len(handled) + 1)
      BY <3>2, <3>3 DEF Current
    <3> QED BY <3>2, <3>4
  <2> QED BY <2>1, <2>2 DEF PartsAsSent
<1> QED BY <1>1, <1>2, <1>3, PTL DEF Spec

----------------------------------------------------------------------------
(* Streams are dropped for cause.                                          *)

(***************************************************************************)
(* Why a stream is dropped.  The counter is the length of the run of       *)
(* undecodable parts that ends the handled ones, and the loop never goes   *)
(* on with a run that is too long.                                         *)
(***************************************************************************)
Counted ==
  LET n == Len(handled)
  IN  /\ undecodable <= n
      /\ \A k \in n - undecodable + 1..n : ~IsLiveness(handled[k])
      /\ undecodable < n => IsLiveness(handled[n - undecodable])
      /\ undecodable >= MaxUndecodable => exit = "Malformed"

Caused == exit = "Malformed" => \/ undecodable >= MaxUndecodable
                                \/ Unfit(Current) \/ LongHead(Current) \/ Crowded

\* No part is counted before one is handled.
LEMMA CountedInit == Init => Counted
  BY CountsNat DEF Init, Counted

\* Every step keeps the counter true to the run.
LEMMA CountedNext ==
  ASSUME Types, Counted, [Next]_vars
  PROVE  Counted'
<1>0. /\ handled \in Seq(Seq(Tokens)) /\ Len(handled) \in Nat /\ undecodable \in Nat
      /\ MaxUndecodable \in Nat \ {0}
  BY CountsNat DEF Types
<1> DEFINE n == Len(handled)
           u == undecodable
<1>c. /\ u <= n
      /\ \A k \in n - u + 1..n : ~IsLiveness(handled[k])
      /\ u < n => IsLiveness(handled[n - u])
      /\ u >= MaxUndecodable => exit = "Malformed"
  BY DEF Counted
\* Nothing is handled.
<1>n. ASSUME UNCHANGED <<handled, undecodable>>, exit = "Malformed" => exit' = "Malformed"
      PROVE  Counted'
  BY <1>n, <1>c DEF Counted
<1>1. ASSUME NEW j \in 1..MaxChunk, Chunk(j) PROVE Counted'
  BY <1>1, <1>n DEF Chunk, Open, loop
<1>2. ASSUME Split PROVE Counted'
  BY <1>2, <1>n DEF Split, Splitting, Open, loop
<1>3. ASSUME Unframeable PROVE Counted'
  BY <1>3, <1>n DEF Unframeable, Splitting, Open, loop
<1>4. ASSUME Starved PROVE Counted'
  BY <1>4, <1>n DEF Starved, Splitting, Open, loop
<1>5. ASSUME Handle PROVE Counted'
  <2> DEFINE b == Here.body
  <2>1. /\ exit = "none" /\ handled' = Append(handled, b)
        /\ u' = IF IsLiveness(b) THEN 0 ELSE u + 1
        /\ Kind(b) = "html" /\ u' >= MaxUndecodable => exit' = "Malformed"
    <3>1. Open /\ handled' = Append(handled, b) /\ Count(b)
      BY <1>5 DEF Handle, Splitting
    <3>2. (CASE Kind(b) = "restart" -> Leave("InstanceChanged")
            [] Kind(b) = "range"   -> Leave("OutOfRange")
            [] Kind(b) = "html" /\ undecodable' >= MaxUndecodable -> Leave("Malformed")
            [] OTHER -> UNCHANGED exit)
      BY <1>5 DEF Handle
    <3>3. Kind(b) = "html" /\ u' >= MaxUndecodable => exit' = "Malformed"
      BY <3>2 DEF Leave
    <3> QED BY <3>1, <3>3 DEF Open, Count
  <2>2. /\ Len(handled') = n + 1 /\ handled'[n + 1] = b
        /\ \A k \in 1..n : handled'[k] = handled[k]
    BY <2>1, <1>0
  <2> HIDE DEF b, n
  <2>3. CASE IsLiveness(b)
    <3>1. u' = 0
      BY <2>1, <2>3
    <3> DEFINE m == Len(handled')
    <3>2. m = n + 1 /\ n \in Nat
      BY <2>2, <1>0 DEF n
    <3> HIDE DEF m
    <3>3. m - u' = n + 1 /\ u' <= m /\ m - u' + 1..m = {} /\ ~(u' >= MaxUndecodable)
      BY <3>1, <3>2, <1>0
    <3> QED BY <3>3, <2>2, <2>3 DEF Counted, m
  <2>4. CASE ~IsLiveness(b)
    <3>1. u' = u + 1
      BY <2>1, <2>4
    <3> DEFINE m == Len(handled')
    <3>2. m = n + 1 /\ n \in Nat
      BY <2>2, <1>0 DEF n
    <3> HIDE DEF m
    <3>3. m - u' = n - u /\ u' <= m /\ (u' < m => u < n /\ n - u \in 1..n)
      BY <3>1, <3>2, <1>0, <1>c
    <3>4. \A k \in m - u' + 1..m : ~IsLiveness(handled'[k])
      <4> SUFFICES ASSUME NEW k \in m - u' + 1..m PROVE ~IsLiveness(handled'[k])
        OBVIOUS
      <4>1. CASE k = n + 1
        BY <4>1, <2>2, <2>4
      <4>2. CASE k # n + 1
        <5>1. k \in n - u + 1..n /\ k \in 1..n
          BY <4>2, <3>2, <3>3, <1>0, <1>c
        <5> QED BY <5>1, <2>2, <1>c
      <4> QED BY <4>1, <4>2
    <3>5. u' < m => IsLiveness(handled'[m - u'])
      BY <3>3, <2>2, <1>c
    <3>6. u' >= MaxUndecodable => exit' = "Malformed"
      BY <2>1, <2>4 DEF IsLiveness
    <3> QED BY <3>3, <3>4, <3>5, <3>6 DEF Counted, m
  <2> QED BY <2>3, <2>4
<1>6. ASSUME NEW how \in {"TransportLost", "EndOfStream"}, Cut(how) PROVE Counted'
  BY <1>6, <1>n DEF Cut, Open, loop
<1>7. ASSUME Missed PROVE Counted'
  BY <1>7, <1>n DEF Missed, Open, loop
<1>8. ASSUME Tick PROVE Counted'
  BY <1>8, <1>n DEF Tick
<1>9. ASSUME UNCHANGED vars PROVE Counted'
  BY <1>9, <1>n DEF vars, loop
<1> QED BY <1>1, <1>2, <1>3, <1>4, <1>5, <1>6, <1>7, <1>8, <1>9 DEF Next

\* What the counter says of the run.
LEMMA RunIs ==
  ASSUME Types, Counted
  PROVE  ThreeInARow <=> undecodable >= MaxUndecodable
<1>0. /\ Len(handled) \in Nat /\ undecodable \in Nat /\ MaxUndecodable \in Nat \ {0}
  BY CountsNat DEF Types
<1> DEFINE n == Len(handled)
           u == undecodable
           w == MaxUndecodable
<1>c. /\ u <= n
      /\ \A k \in n - u + 1..n : ~IsLiveness(handled[k])
      /\ u < n => IsLiveness(handled[n - u])
  BY DEF Counted
<1>t. ThreeInARow <=> n >= w /\ \A k \in n - w + 1..n : ~IsLiveness(handled[k])
  BY DEF ThreeInARow
<1>n. n \in Nat /\ u \in Nat /\ w \in Nat \ {0}
  BY <1>0
<1> HIDE DEF n, u, w
<1>1. ASSUME u >= w PROVE ThreeInARow
  <2>1. n >= w /\ \A k \in n - w + 1..n : k \in n - u + 1..n
    BY <1>1, <1>n, <1>c
  <2> QED BY <2>1, <1>c, <1>t
<1>2. ASSUME ThreeInARow, ~(u >= w) PROVE FALSE
  <2>1. u < n /\ n - u \in n - w + 1..n
    BY <1>2, <1>n, <1>t
  <2> QED BY <2>1, <1>2, <1>c, <1>t
<1> QED BY <1>1, <1>2 DEF u, w

\* What is held arrived behind the last part, or is the line break that ends it.
LEMMA HeldIsBehind ==
  ASSUME Types, Framing, Open
  PROVE  /\ StartOf[script][Current] \in Nat
         /\ Len(buffer) <= arrived + 1 - StartOf[script][Current]
<1>1. script \in Scripts /\ Current \in 1..Len(script) + 1 /\ Len(buffer) \in Nat /\ arrived \in Nat
  BY AtPart DEF Types
<1> DEFINE o == StartOf[script][Current]
           m == MarkAt(script, Current)
           c == arrived - Len(buffer)
<1>2. o \in Nat /\ m \in Nat /\ o <= m
  BY <1>1, MarkIs
<1>3. At(state, need, Current, c) /\ c \in Nat
  BY DEF Framing, Suffix
<1>4. o <= c + 1
  <2>1. CASE state = "Body"
    <3>1. /\ Current \in 1..Len(script) /\ c = BodyAt(script, Current)
      BY <1>3, <2>1, <1>1, AtPart DEF At
    <3>2. HeaderLen(script[Current]) \in Nat /\ BodyAt(script, Current) = m + HeaderLen(script[Current]) + 4
      BY <3>1, <1>1, PlacesAre DEF HeaderLen
    <3> HIDE DEF o, m, c
    <3> QED BY <3>1, <3>2, <1>2
  <2>2. CASE state # "Body"
    <3>1. o <= c + 1 \/ c = m + 2 \/ c = m + 3
      BY <1>3, <2>2 DEF At
    <3> HIDE DEF o, m, c
    <3> QED BY <3>1, <1>2, <1>3
  <2> QED BY <2>1, <2>2
<1>5. Len(buffer) <= arrived + 1 - o
  <2> DEFINE n == Len(buffer)
  <2>1. n \in Nat /\ c = arrived - n
    BY <1>1
  <2> HIDE DEF n, o, c, m
  <2>2. n <= arrived + 1 - o
    BY <2>1, <1>1, <1>2, <1>4
  <2> QED BY <2>2 DEF n
<1> QED BY <1>2, <1>5

\* A step that drops the stream as malformed has its cause.
LEMMA CausedNext ==
  ASSUME IInv, Counted, Caused, [Next]_vars
  PROVE  Caused'
<1>0. /\ Types /\ Framing /\ Handed
      /\ script \in Scripts /\ Len(buffer) \in Nat /\ Len(script) \in Nat /\ arrived \in Nat
      /\ DOMAIN script = 1..Len(script)
      /\ MaxPart \in Nat /\ MaxPartHeader \in Nat /\ MaxChunk \in Nat
  <2>1. Types /\ Framing /\ Handed
    BY DEF IInv
  <2> QED BY <2>1, PartTypes, SizesNat DEF Types
\* The stream is left for another reason, or not at all.
<1>n. ASSUME exit' # "Malformed" PROVE Caused'
  BY <1>n DEF Caused
<1>s. ASSUME UNCHANGED <<exit, script, arrived, handled, undecodable>> PROVE Caused'
  BY <1>s DEF Caused, Unfit, LongHead, Crowded, Current
<1>1. ASSUME NEW n \in 1..MaxChunk, Chunk(n) PROVE Caused'
  <2>1. CASE ~OverCap(n)
    BY <1>1, <2>1, <1>n DEF Chunk, Open
  <2>2. CASE OverCap(n)
    <3> DEFINE k == Len(buffer)
               o == StartOf[script][Current]
    <3>1. k + n > MaxPart + MaxPartHeader
      BY <2>2 DEF OverCap
    <3>2. o \in Nat /\ k <= arrived + 1 - o
      BY <1>1, <1>0, HeldIsBehind DEF Chunk
    <3>3. k \in Nat /\ n \in Nat /\ arrived \in Nat
      BY <1>0
    <3>4. arrived' = arrived + n /\ UNCHANGED <<script, handled>>
      BY <1>1 DEF Chunk, loop
    <3> HIDE DEF k, o
    <3>5. arrived' + 1 - o > MaxPart + MaxPartHeader
      BY <3>1, <3>2, <3>3, <3>4, <1>0
    <3> QED BY <3>4, <3>5 DEF Caused, Crowded, Current, o
  <2> QED BY <2>1, <2>2
<1>2. ASSUME Split PROVE Caused'
  BY <1>2, <1>n DEF Split, Splitting, Open
<1>3. ASSUME Unframeable PROVE Caused'
  <2>1. Open /\ Here.gives = "error" /\ UNCHANGED <<script, handled>>
    BY <1>3 DEF Unframeable, Splitting, loop
  <2>2. Suffix(buffer, arrived - Len(buffer)) /\ At(state, need, Current, arrived - Len(buffer))
    BY <2>1, <1>0 DEF Framing
  <2>3. /\ Current \in 1..Len(script)
        /\ \/ Len(script[Current].body) > MaxPart \/ script[Current].first \in BadLines
           \/ /\ Len(buffer) > MaxPartHeader
              /\ arrived < BodyAt(script, Current)
              /\ arrived - Len(buffer) = MarkAt(script, Current) + 3
    BY <2>1, <2>2, <1>0, TurnIs
  <2>4. CASE Len(script[Current].body) > MaxPart \/ script[Current].first \in BadLines
    BY <2>1, <2>3, <2>4, <1>0 DEF Caused, Unfit, Current
  <2>5. CASE /\ Len(buffer) > MaxPartHeader
             /\ arrived < BodyAt(script, Current)
             /\ arrived - Len(buffer) = MarkAt(script, Current) + 3
    <3> DEFINE n == Len(buffer)
               H == HeaderLen(script[Current])
               m == MarkAt(script, Current)
    <3>1. m \in Nat /\ H \in Nat /\ BodyAt(script, Current) = m + H + 4
      BY <2>3, <1>0, PlacesAre DEF HeaderLen
    <3>2. Len(Headers(script[Current])) = H
      BY <2>3, <1>0, HeadersAre
    <3>3. n \in Nat /\ n > MaxPartHeader /\ arrived < m + H + 4 /\ arrived - n = m + 3
      BY <2>5, <3>1, <1>0
    <3> HIDE DEF n, H, m
    <3>4. H > MaxPartHeader
      BY <3>1, <3>3, <1>0
    <3>5. LongHead(Current)
      BY <3>2, <3>4, <2>3, <1>0 DEF LongHead
    <3> QED BY <3>5, <2>1 DEF Caused, LongHead, Current
  <2> QED BY <2>3, <2>4, <2>5
<1>4. ASSUME Starved PROVE Caused'
  BY <1>4, <1>n DEF Starved, Splitting, Open, Leave
<1>5. ASSUME Handle PROVE Caused'
  <2>1. CASE exit' # "Malformed"
    BY <2>1, <1>n
  <2>2. CASE exit' = "Malformed"
    <3> DEFINE b == Here.body
    <3>1. (CASE Kind(b) = "restart" -> Leave("InstanceChanged")
            [] Kind(b) = "range"   -> Leave("OutOfRange")
            [] Kind(b) = "html" /\ undecodable' >= MaxUndecodable -> Leave("Malformed")
            [] OTHER -> UNCHANGED exit)
      BY <1>5 DEF Handle
    <3>2. exit = "none"
      BY <1>5 DEF Handle, Splitting, Open
    <3>3. undecodable' >= MaxUndecodable
      BY <3>1, <3>2, <2>2 DEF Leave
    <3> QED BY <3>3 DEF Caused
  <2> QED BY <2>1, <2>2
<1>6. ASSUME NEW how \in {"TransportLost", "EndOfStream"}, Cut(how) PROVE Caused'
  BY <1>6, <1>n DEF Cut, Leave
<1>7. ASSUME Missed PROVE Caused'
  BY <1>7, <1>n DEF Missed, Leave
<1>8. ASSUME Tick PROVE Caused'
  BY <1>8, <1>s DEF Tick
<1>9. ASSUME UNCHANGED vars PROVE Caused'
  BY <1>9, <1>s DEF vars, loop
<1> QED BY <1>1, <1>2, <1>3, <1>4, <1>5, <1>6, <1>7, <1>8, <1>9 DEF Next

\* The loop counts undecodable parts in a row exactly, whatever the chunks: the
\* counter is the length of the run that ends the handled parts, and a run that
\* reached the limit has ended the stream (the undecodable counter of drive_stream).
THEOREM RunIsCounted == Spec => []Counted
<1> DEFINE I == IInv /\ Counted
<1>1. Init => I
  BY IInvInit, CountedInit
<1>2. I /\ [Next]_vars => I'
  BY IInvNext, CountedNext DEF IInv
<1>3. I => Counted
  OBVIOUS
<1> HIDE DEF I
<1> QED BY <1>1, <1>2, <1>3, PTL DEF Spec

\* A stream is dropped as malformed for a run of undecodable parts that reached the
\* limit, for the part it is at (over the cap, or its headers unreadable or too long),
\* or because more than the cap arrived behind the last part; at the limit it is
\* dropped at once; no part over the cap or with unreadable headers is handed on
\* (push, next_part, drive_stream).  This holds for chunks of every size.
THEOREM DropsAreForCause == Spec => []DroppedForCause
<1> DEFINE I == IInv /\ Counted /\ Caused
<1>1. Init => I
  <2> SUFFICES ASSUME Init PROVE I
    OBVIOUS
  <2>1. exit = "none"
    BY DEF Init
  <2> QED BY <2>1, IInvInit, CountedInit DEF Caused
<1>2. I /\ [Next]_vars => I'
  <2> SUFFICES ASSUME I, [Next]_vars PROVE I'
    OBVIOUS
  <2>1. IInv'
    BY IInvNext
  <2>2. Counted'
    BY CountedNext DEF IInv
  <2>3. Caused'
    BY CausedNext
  <2> QED BY <2>1, <2>2, <2>3
<1>3. I => DroppedForCause
  <2> SUFFICES ASSUME I PROVE DroppedForCause
    OBVIOUS
  <2>1. ThreeInARow <=> undecodable >= MaxUndecodable
    BY RunIs DEF IInv
  <2>2. exit = "Malformed" => AtFault \/ Crowded
    BY <2>1 DEF Caused, AtFault, Current
  <2>3. ThreeInARow => exit = "Malformed"
    BY <2>1 DEF Counted
  <2>4. ASSUME NEW i \in DOMAIN handled PROVE ~Unfit(i)
    <3>1. /\ handled \in Seq(Seq(Tokens)) /\ MaxPart \in Nat
          /\ \A k \in 1..Len(handled) : /\ handled[k] = script[k].body
                                        /\ Len(handled[k]) <= MaxPart
                                        /\ script[k].first \notin BadLines
      BY SizesNat DEF IInv, Types, Handed
    <3>2. i \in 1..Len(handled) /\ Len(handled[i]) \in Nat
      BY <3>1
    <3>3. Len(script[i].body) \in Nat /\ Len(script[i].body) <= MaxPart /\ script[i].first \notin BadLines
      BY <3>1, <3>2
    <3> QED BY <3>1, <3>3 DEF Unfit
  <2> QED BY <2>2, <2>3, <2>4 DEF DroppedForCause
<1> HIDE DEF I
<1> QED BY <1>1, <1>2, <1>3, PTL DEF Spec

----------------------------------------------------------------------------
(* Metrics: what an emitter's rows are made of.                            *)

\* The cells an emitter has rows for, and the measures of a cell's row.
CellsOf(e) ==
  IF e = Agent THEN {<<f, <<r>>>> : f \in {"stream", "probe"}, r \in M!Results}
  ELSE UNION {M!Cells(f) : f \in {"health", "connection", "command", "shaping", "parse"}}
Shape(c) ==
  CASE c[1] = "parse"  -> M!ParseOf(c[2][1])
    [] c[1] = "stream" -> M!StreamOf(c[2][1])
    [] c[1] = "probe"  -> M!ProbeOf(c[2][1])
    [] OTHER           -> M!Measures(c[1])

Counts     == [total : Int, interval : Int]
RowsFor(c) == [cell : {c}, values : [Shape(c) -> Counts]]
RowsOf(e)  == UNION {RowsFor(c) : c \in CellsOf(e)}

\* No two rows of a sequence have one cell.
Apart(s) == \A i, j \in DOMAIN s : s[i].cell = s[j].cell => i = j

\* What a sequence of rows carries for a key.
Flight(s, k) ==
  LET at == {i \in DOMAIN s : s[i].cell = k[1]} IN
  IF at = {} THEN 0 ELSE M!Carried(s[CHOOSE i \in at : TRUE], k)

\* A row's totals are what was handed over before it, and its intervals.
TotalsMatch(s, h) ==
  \A i \in DOMAIN s : s[i].cell[1] # "health" =>
    \A n \in DOMAIN s[i].values :
      s[i].values[n].total = h[<<s[i].cell, n>>] + s[i].values[n].interval

----------------------------------------------------------------------------
(* Metrics: the invariant.                                                 *)

RowsTyped ==
  /\ DOMAIN rows = M!Emitters /\ DOMAIN handed = M!Emitters
  /\ \A e \in M!Emitters : /\ rows[e] \in Seq(RowsOf(e)) /\ Apart(rows[e])
                           /\ handed[e] \in [M!Keys(e) -> Int]

CountersTyped ==
  /\ stats \in [M!StatNames \cup M!ParseNames -> Int]
  /\ bumps \in [M!Recorders -> Seq((M!StatNames \cup M!ParseNames) \X Nat)]
  /\ pair \in [Devices -> [M!PairKeys -> Counts]]
  /\ lost \in [Devices -> Int] /\ ever \in [Devices -> BOOLEAN]
  /\ link \in [Devices -> {"idle", "connecting", "polling", "stopped"}]
  /\ parsed \in [Devices -> [M!ParseNames -> Int]]
  /\ previous \in [M!StatNames -> Int]
  /\ DOMAIN plan = M!Emitters

\* An instance's pairs, and the drops its health and its link both count.
PairsAddUp ==
  \A d \in Devices :
    /\ \A k \in M!PairKeys : pair[d][k].total = M!Reported(d, k) + pair[d][k].interval
    /\ pair[d][M!Own("connection", "connectionDrops")].total = M!Reported(d, M!Reconnects) + lost[d]

\* The parse totals of an instance's previous emission.
ParseAddsUp ==
  \A d \in Devices : \A k \in M!ParseSeries :
    parsed[d][k[2]] = M!Reported(d, k) /\ parsed[d][k[2]] <= stats[k[2]]

\* The agent's baseline, and the snapshot that is being loaded.
AgentAddsUp ==
  /\ \A k \in M!AgentSeries :
       previous[k[2]] = M!Reported(Agent, k) /\ previous[k[2]] <= stats[k[2]]
  /\ seen \in Seq(Int) /\ Len(seen) <= Len(M!StatOrder)
  /\ \A i \in 1..Len(seen) : seen[i] <= stats[M!StatOrder[i]]
  /\ seen # << >> => rows[Agent] = << >>

TotalsAddUp == \A e \in M!Emitters : TotalsMatch(rows[e], handed[e])

\* Whether a link is up now, and whether one is being attempted.
One(p) == IF p THEN 1 ELSE 0
LinkTotal(d, name) == pair[d][M!Own("connection", name)].total

\* The link's counters, between any two steps; and a row of them is what they
\* still are, because a task that emits does nothing else.
LinkTotalsAddUp(d) ==
  /\ LinkTotal(d, "connectAttempts") = LinkTotal(d, "connectFailures")
       + LinkTotal(d, "reconnectAttempts") + One(ever[d]) + One(link[d] = "connecting")
  /\ LinkTotal(d, "connectionDrops") = LinkTotal(d, "reconnectAttempts")
       + One(ever[d]) - One(link[d] \in {"polling", "stopped"})
LinkAddsUp(d) ==
  /\ link[d] = "connecting" => M!Idle(d)
  /\ ~M!Idle(d) => ever[d] /\ link[d] \in {"polling", "idle"}
  /\ link[d] \in {"polling", "stopped"} => ever[d]
  /\ LinkTotalsAddUp(d)
  /\ \A i \in DOMAIN rows[d] : rows[d][i].cell[1] = "connection" =>
       \A n \in M!Measures("connection") : rows[d][i].values[n].total = LinkTotal(d, n)
LinksAddUp == \A d \in Devices : LinkAddsUp(d)

MInv == /\ RowsTyped /\ CountersTyped /\ PairsAddUp /\ ParseAddsUp /\ AgentAddsUp
        /\ TotalsAddUp /\ LinksAddUp

\* The measures of each family, and its cells in their order.
LEMMA MeasuresAre ==
  /\ M!Measures("health") = {"reconnects"}
  /\ M!Measures("connection") = {"connectAttempts", "connectFailures",
                                 "reconnectAttempts", "connectionDrops"}
  /\ M!Measures("command") = {"commandRequests", "commandErrors"}
  /\ M!Measures("shaping") = {"published", "coalesced", "deadbandDropped"}
BY DEF M!Measures

\* The cells of each family, in the order its rows go out.
LEMMA CombosAre ==
  /\ M!Combos("health") = <<<< >>>> /\ M!Combos("connection") = <<<< >>>>
  /\ M!Combos("shaping") = <<<< >>>>
  /\ M!Combos("parse") = <<<<"success">>, <<"error">>>>
  /\ M!Combos("command") = [n \in 1..2 * Len(VerbOrder) |->
                              <<VerbOrder[(n + 1) \div 2],
                                IF n % 2 = 1 THEN "error" ELSE "success">>]
BY DEF M!Combos

\* Two places of a doubled list that agree on the entry and on the half are one.
LEMMA Division ==
  ASSUME NEW i \in Int
  PROVE  i = 2 * (i \div 2) + (i % 2) /\ i \div 2 \in Int /\ i % 2 \in {0, 1}
<1>1. i = 2 * (i \div 2) + (i % 2)
  BY Z3
<1>2. i % 2 \in {0, 1} /\ i \div 2 \in Int
  OBVIOUS
<1> QED BY <1>1, <1>2

\* Two places of a doubled list that agree on the entry and on the half are one.
LEMMA Halves ==
  ASSUME NEW i \in Nat, NEW j \in Nat, (i + 1) \div 2 = (j + 1) \div 2,
         (i % 2 = 1) <=> (j % 2 = 1)
  PROVE  i = j
<1> DEFINE p == (i + 1) % 2
           q == (j + 1) % 2
           h == (i + 1) \div 2
<1>1. i % 2 = j % 2
  BY Division
<1>2. i + 1 = 2 * h + p /\ j + 1 = 2 * h + q /\ h \in Int /\ p \in {0, 1} /\ q \in {0, 1}
  BY Division
<1>3. p = q
  BY <1>1, Division
<1> HIDE DEF p, q, h
<1> QED BY <1>2, <1>3

\* A family has each of its cells once.
LEMMA CombosApart ==
  ASSUME NEW f \in {"health", "connection", "command", "shaping", "parse"}
  PROVE  /\ Len(M!Combos(f)) \in Nat /\ DOMAIN M!Combos(f) = 1..Len(M!Combos(f))
         /\ \A i, j \in DOMAIN M!Combos(f) : M!Combos(f)[i] = M!Combos(f)[j] => i = j
<1>1. CASE f # "command"
  BY <1>1, CombosAre
<1>2. CASE f = "command"
  <2>1. VerbOrder \in Seq(M!Verbs) /\ M!IsInjective(VerbOrder)
    BY VerbsAreApart DEF M!VerbsApart
  <2>2. Len(VerbOrder) \in Nat /\ DOMAIN VerbOrder = 1..Len(VerbOrder)
    BY <2>1
  <2>3. \A a, b \in 1..Len(VerbOrder) : VerbOrder[a] = VerbOrder[b] => a = b
    BY <2>1, <2>2 DEF M!IsInjective
  <2> DEFINE c == M!Combos("command")
  <2>4. /\ DOMAIN c = 1..2 * Len(VerbOrder) /\ Len(c) = 2 * Len(VerbOrder)
        /\ 2 * Len(VerbOrder) \in Nat
    <3>1. 2 * Len(VerbOrder) \in Nat
      BY <2>2
    <3>2. DOMAIN c = 1..2 * Len(VerbOrder)
      BY CombosAre
    <3> HIDE DEF c
    <3> QED BY <3>1, <3>2, LenProperties, CombosAre DEF c
  <2>5. ASSUME NEW i \in DOMAIN c, NEW j \in DOMAIN c, c[i] = c[j]
        PROVE  i = j
    <3>1. i \in Nat /\ j \in Nat /\ i \in 1..2 * Len(VerbOrder) /\ j \in 1..2 * Len(VerbOrder)
      BY <2>4, <2>5
    <3>2. VerbOrder[(i + 1) \div 2] = VerbOrder[(j + 1) \div 2]
      BY <2>5, <3>1, CombosAre
    <3>3. (i % 2 = 1) <=> (j % 2 = 1)
      BY <2>5, <3>1, CombosAre
    <3>4. (i + 1) \div 2 \in 1..Len(VerbOrder) /\ (j + 1) \div 2 \in 1..Len(VerbOrder)
      BY <3>1, <2>2
    <3>5. (i + 1) \div 2 = (j + 1) \div 2
      BY <2>3, <3>2, <3>4
    <3> QED BY <3>1, <3>3, <3>5, Halves
  <2> QED BY <1>2, <2>4, <2>5
<1> QED BY <1>1, <1>2

\* Whose keys and cells are whose.
LEMMA KeysAre ==
  /\ M!Keys(Agent) = M!AgentKeys
  /\ \A d \in Devices : d # Agent /\ d \in M!Emitters /\ M!Keys(d) = M!DeviceKeys
                        /\ CellsOf(d) = UNION {M!Cells(f) : f \in {"health", "connection",
                                                            "command", "shaping", "parse"}}
  /\ Agent \in M!Emitters
  /\ CellsOf(Agent) = {<<f, <<r>>>> : f \in {"stream", "probe"}, r \in M!Results}
BY AgentIsApart DEF M!Keys, M!Emitters, CellsOf, M!AgentApart

\* A cell, its family and its dimensions.
LEMMA CellIs ==
  ASSUME NEW f, NEW c
  PROVE  c \in M!Cells(f) <=> \E n \in DOMAIN M!Combos(f) : c = <<f, M!Combos(f)[n]>>
BY DEF M!Cells, M!Range

\* The measures of a cell's row, family by family.
LEMMA ShapeIs ==
  /\ \A f \in {"health", "connection", "command", "shaping"} : \A x : Shape(<<f, x>>) = M!Measures(f)
  /\ \A r : Shape(<<"parse", <<r>>>>) = M!ParseOf(r)
  /\ \A r : Shape(<<"stream", <<r>>>>) = M!StreamOf(r)
  /\ \A r : Shape(<<"probe", <<r>>>>) = M!ProbeOf(r)
BY DEF Shape

\* The series of an outcome are counters of the agent.
LEMMA SeriesAreNames ==
  ASSUME NEW r \in M!Results
  PROVE  /\ M!ParseOf(r) \subseteq M!ParseNames
         /\ M!StreamOf(r) \subseteq M!StatNames /\ M!ProbeOf(r) \subseteq M!StatNames
<1>1. M!ParseOf(r) \subseteq M!ParseNames
  BY DEF M!ParseNames
<1>2. M!StreamOf(r) \subseteq M!StatNames /\ M!ProbeOf(r) \subseteq M!StatNames
  BY DEF M!StatNames, M!StatOrder, M!Range, M!StreamOf, M!ProbeOf
<1> QED BY <1>1, <1>2

\* What a row has a value for is a key of its emitter.
LEMMA RowKeys ==
  ASSUME NEW e \in M!Emitters, NEW c \in CellsOf(e), NEW n \in Shape(c)
  PROVE  <<c, n>> \in M!Keys(e)
<1>1. CASE e = Agent
  <2>1. PICK f \in {"stream", "probe"}, r \in M!Results : c = <<f, <<r>>>>
    BY <1>1, KeysAre
  <2>2. n \in M!StatNames
    BY <2>1, ShapeIs, SeriesAreNames
  <2> QED BY <1>1, <2>1, <2>2, KeysAre DEF M!AgentKeys
<1>2. CASE e \in Devices
  <2>1. PICK f \in {"health", "connection", "command", "shaping", "parse"} : c \in M!Cells(f)
    BY <1>2, KeysAre
  <2>2. PICK i \in DOMAIN M!Combos(f) : c = <<f, M!Combos(f)[i]>>
    BY <2>1, CellIs
  <2>3. CASE f \in {"connection", "command", "shaping"}
    <3>1. n \in M!Measures(f)
      BY <2>2, <2>3, ShapeIs
    <3>2. <<c, n>> \in M!PairKeys
      BY <2>1, <2>3, <3>1 DEF M!PairKeys
    <3> QED BY <1>2, <3>2, KeysAre DEF M!DeviceKeys
  <2>4. CASE f = "health"
    <3>1. c = <<"health", << >>>> /\ n = "reconnects"
      BY <2>2, <2>4, ShapeIs, CombosAre, MeasuresAre
    <3> QED BY <1>2, <3>1, KeysAre DEF M!DeviceKeys, M!Reconnects
  <2>5. CASE f = "parse"
    <3>1. PICK r \in M!Results : c = <<"parse", <<r>>>>
      BY <2>2, <2>5, CombosAre DEF M!Results
    <3>2. n \in M!ParseNames
      BY <3>1, ShapeIs, SeriesAreNames
    <3> QED BY <1>2, <3>1, <3>2, KeysAre DEF M!DeviceKeys, M!ParseKeys
  <2> QED BY <2>1, <2>3, <2>4, <2>5
<1> QED BY <1>1, <1>2 DEF M!Emitters

----------------------------------------------------------------------------
(* Metrics: what a sequence of rows carries.                               *)

LEMMA NothingCarried ==
  ASSUME NEW k
  PROVE  Flight(<< >>, k) = 0
BY DEF Flight

\* Rows of other cells carry nothing for a key.
LEMMA NoneCarried ==
  ASSUME NEW s, NEW k, \A i \in DOMAIN s : s[i].cell # k[1]
  PROVE  Flight(s, k) = 0
BY DEF Flight

\* Of rows that are apart, the one with the key's cell carries it.
LEMMA OneCarries ==
  ASSUME NEW s, NEW k, Apart(s), NEW i \in DOMAIN s, s[i].cell = k[1]
  PROVE  Flight(s, k) = M!Carried(s[i], k)
<1> DEFINE at == {j \in DOMAIN s : s[j].cell = k[1]}
<1>1. at = {i}
  BY DEF Apart
<1>2. (CHOOSE j \in at : TRUE) = i
  BY <1>1
<1> QED BY <1>1, <1>2 DEF Flight

\* A row's values are counts, of its cell's measures.
LEMMA RowIs ==
  ASSUME NEW e, NEW row \in RowsOf(e)
  PROVE  /\ row.cell \in CellsOf(e) /\ DOMAIN row.values = Shape(row.cell)
         /\ \A n \in Shape(row.cell) : row.values[n].total \in Int /\ row.values[n].interval \in Int
         /\ \A k : M!Carried(row, k) \in Int
<1>1. PICK c \in CellsOf(e) : row \in RowsFor(c)
  BY DEF RowsOf
<1>2. row.cell = c /\ row.values \in [Shape(c) -> Counts]
  BY <1>1 DEF RowsFor
<1>3. \A n \in Shape(c) : row.values[n].total \in Int /\ row.values[n].interval \in Int
  BY <1>2 DEF Counts
<1>4. \A k : M!Carried(row, k) \in Int
  BY <1>2, <1>3 DEF M!Carried
<1> QED BY <1>2, <1>3, <1>4

\* What an emitter's rows carry for a key is a number.
LEMMA FlightIsInt ==
  ASSUME NEW e, NEW s \in Seq(RowsOf(e)), NEW k
  PROVE  Flight(s, k) \in Int
<1> DEFINE at == {j \in DOMAIN s : s[j].cell = k[1]}
<1>1. CASE at = {}
  BY <1>1 DEF Flight
<1>2. CASE at # {}
  <2>1. (CHOOSE j \in at : TRUE) \in at
    BY <1>2
  <2>2. s[CHOOSE j \in at : TRUE] \in RowsOf(e)
    BY <2>1
  <2>3. M!Carried(s[CHOOSE j \in at : TRUE], k) \in Int
    BY <2>2, RowIs
  <2> QED BY <1>2, <2>3 DEF Flight
<1> QED BY <1>1, <1>2

\* A sequence carries what its first row does and what its others do.
LEMMA FirstAndOthers ==
  ASSUME NEW e, NEW s \in Seq(RowsOf(e)), s # << >>, Apart(s)
  PROVE  /\ Tail(s) \in Seq(RowsOf(e)) /\ Apart(Tail(s)) /\ Head(s) \in RowsOf(e)
         /\ \A i \in DOMAIN Tail(s) : /\ i + 1 \in DOMAIN s /\ Tail(s)[i] = s[i + 1]
                                      /\ s[i + 1].cell # Head(s).cell
         /\ \A k : Flight(s, k) = M!Carried(Head(s), k) + Flight(Tail(s), k)
<1> DEFINE t == Tail(s)
<1>1. /\ Len(s) \in Nat /\ Len(s) > 0 /\ DOMAIN s = 1..Len(s) /\ Head(s) = s[1]
      /\ t \in Seq(RowsOf(e)) /\ DOMAIN t = 1..Len(s) - 1
      /\ \A i \in DOMAIN t : t[i] = s[i + 1]
  OBVIOUS
<1>2. Head(s) \in RowsOf(e)
  BY <1>1
<1> HIDE DEF t
<1>3. ASSUME NEW i \in DOMAIN t
      PROVE  i + 1 \in DOMAIN s /\ t[i] = s[i + 1] /\ s[i + 1].cell # Head(s).cell
  <2>1. i + 1 \in DOMAIN s /\ i + 1 # 1 /\ 1 \in DOMAIN s
    BY <1>1
  <2> QED BY <1>1, <2>1 DEF Apart
<1>4. Apart(t)
  <2> SUFFICES ASSUME NEW i \in DOMAIN t, NEW j \in DOMAIN t, t[i].cell = t[j].cell
               PROVE  i = j
    BY DEF Apart
  <2>1. s[i + 1].cell = s[j + 1].cell /\ i + 1 \in DOMAIN s /\ j + 1 \in DOMAIN s
    BY <1>3
  <2>2. i + 1 = j + 1
    BY <2>1 DEF Apart
  <2> QED BY <2>2, <1>1
<1>5. ASSUME NEW k PROVE Flight(s, k) = M!Carried(Head(s), k) + Flight(t, k)
  <2>1. /\ M!Carried(Head(s), k) \in Int /\ Flight(t, k) \in Int
    BY <1>1, <1>2, RowIs, FlightIsInt
  <2>2. CASE Head(s).cell = k[1]
    <3>1. \A i \in DOMAIN t : t[i].cell # k[1]
      BY <1>3, <2>2
    <3>2. Flight(t, k) = 0
      BY <3>1, NoneCarried
    <3>3. 1 \in DOMAIN s /\ s[1].cell = k[1]
      BY <1>1, <2>2
    <3>4. Flight(s, k) = M!Carried(s[1], k)
      BY <3>3, OneCarries
    <3> QED BY <1>1, <2>1, <3>2, <3>4
  <2>3. CASE Head(s).cell # k[1]
    <3>1. M!Carried(Head(s), k) = 0
      BY <2>3 DEF M!Carried
    <3>2. CASE \E i \in DOMAIN t : t[i].cell = k[1]
      <4>1. PICK i \in DOMAIN t : t[i].cell = k[1]
        BY <3>2
      <4>2. i + 1 \in DOMAIN s /\ s[i + 1].cell = k[1] /\ s[i + 1] = t[i]
        BY <1>3, <4>1
      <4>3. Flight(s, k) = M!Carried(s[i + 1], k)
        BY <4>2, OneCarries
      <4>4. Flight(t, k) = M!Carried(t[i], k)
        BY <1>4, <4>1, OneCarries
      <4> QED BY <2>1, <3>1, <4>2, <4>3, <4>4
    <3>3. CASE \A i \in DOMAIN t : t[i].cell # k[1]
      <4>1. \A i \in DOMAIN s : s[i].cell # k[1]
        <5> SUFFICES ASSUME NEW i \in DOMAIN s, s[i].cell = k[1] PROVE FALSE
          OBVIOUS
        <5>1. i # 1
          BY <2>3, <1>1
        <5>2. i - 1 \in DOMAIN t /\ i = (i - 1) + 1
          BY <5>1, <1>1
        <5>3. t[i - 1] = s[i]
          BY <5>2, <1>1
        <5> QED BY <3>3, <5>2, <5>3
      <4>2. Flight(s, k) = 0 /\ Flight(t, k) = 0
        BY <3>3, <4>1, NoneCarried
      <4> QED BY <3>1, <4>2
    <3> QED BY <3>2, <3>3
  <2> QED BY <2>2, <2>3
<1> QED BY <1>1, <1>2, <1>3, <1>4, <1>5 DEF t

\* What an emitter has reported, in these terms, before a step and after it.
LEMMA ReportedIs ==
  ASSUME NEW e, NEW k
  PROVE  /\ M!Reported(e, k) = handed[e][k] + Flight(rows[e], k)
         /\ M!Reported(e, k)' = handed'[e][k] + Flight(rows'[e], k)
BY DEF M!Reported, M!InFlight, Flight

----------------------------------------------------------------------------
(* Metrics: the rows a drain makes.                                        *)

CellAt(f, n) == <<f, M!Combos(f)[n]>>
FamilyRows(f, v) == [n \in DOMAIN M!Combos(f) |-> M!Row(CellAt(f, n), v[n])]

\* A cell and counts of its measures are a row.
LEMMA RowFits ==
  ASSUME NEW e, NEW c \in CellsOf(e), NEW v \in [Shape(c) -> Counts]
  PROVE  M!Row(c, v) \in RowsOf(e)
<1>1. M!Row(c, v) \in RowsFor(c)
  BY DEF M!Row, RowsFor
<1> QED BY <1>1 DEF RowsOf

\* A family's rows, one for each of its cells, carry the values of each and
\* nothing for the cells of others.
LEMMA FamilyRowsAre ==
  ASSUME NEW f \in {"health", "connection", "command", "shaping", "parse"}, NEW d \in Devices,
         NEW v, \A n \in DOMAIN M!Combos(f) : v[n] \in [Shape(CellAt(f, n)) -> Counts]
  PROVE  LET s == FamilyRows(f, v) IN
         /\ s \in Seq(RowsOf(d)) /\ Apart(s) /\ DOMAIN s = DOMAIN M!Combos(f)
         /\ \A n \in DOMAIN s : s[n].cell = CellAt(f, n) /\ s[n].values = v[n]
         /\ \A k : (\A n \in DOMAIN s : k[1] # CellAt(f, n)) => Flight(s, k) = 0
         /\ \A n \in DOMAIN s : \A k :
              k[1] = CellAt(f, n) /\ k[2] \in Shape(CellAt(f, n)) =>
                Flight(s, k) = v[n][k[2]].interval
<1> DEFINE s == FamilyRows(f, v)
<1>0. Len(M!Combos(f)) \in Nat /\ DOMAIN M!Combos(f) = 1..Len(M!Combos(f))
  BY CombosApart
<1>1. DOMAIN s = DOMAIN M!Combos(f) /\ \A n \in DOMAIN s : s[n] = M!Row(CellAt(f, n), v[n])
  BY DEF FamilyRows
<1>2. s = [n \in 1..Len(M!Combos(f)) |-> M!Row(CellAt(f, n), v[n])]
  BY <1>0 DEF FamilyRows
<1> HIDE DEF s
<1>3. \A n \in DOMAIN s : s[n].cell = CellAt(f, n) /\ s[n].values = v[n]
  BY <1>1 DEF M!Row
<1>4. ASSUME NEW n \in 1..Len(M!Combos(f)) PROVE M!Row(CellAt(f, n), v[n]) \in RowsOf(d)
  <2>1. CellAt(f, n) \in M!Cells(f)
    BY <1>0, CellIs DEF CellAt
  <2>2. CellAt(f, n) \in CellsOf(d)
    BY <2>1, KeysAre
  <2>3. v[n] \in [Shape(CellAt(f, n)) -> Counts]
    BY <1>0
  <2> QED BY <2>2, <2>3, RowFits
<1>5. s \in Seq(RowsOf(d))
  BY <1>0, <1>2, <1>4
<1>6. Apart(s)
  BY <1>1, <1>3, CombosApart DEF Apart, CellAt
<1>7. ASSUME NEW k, \A n \in DOMAIN s : k[1] # CellAt(f, n) PROVE Flight(s, k) = 0
  BY <1>3, <1>7, NoneCarried
<1>8. ASSUME NEW n \in DOMAIN s, NEW k, k[1] = CellAt(f, n), k[2] \in Shape(CellAt(f, n))
      PROVE  Flight(s, k) = v[n][k[2]].interval
  <2>1. Flight(s, k) = M!Carried(s[n], k)
    BY <1>3, <1>6, <1>8, OneCarries
  <2>2. DOMAIN s[n].values = Shape(CellAt(f, n))
    BY <1>1, <1>3
  <2> QED BY <1>3, <1>8, <2>1, <2>2 DEF M!Carried
<1> QED BY <1>1, <1>3, <1>5, <1>6, <1>7, <1>8 DEF s

\* A key of a pair is a cell of its family and one of the family's measures.
LEMMA PairKeyIs ==
  ASSUME NEW k \in M!PairKeys
  PROVE  /\ k[1][1] \in {"connection", "command", "shaping"}
         /\ k[2] \in M!Measures(k[1][1]) /\ k = <<k[1], k[2]>>
         /\ \E n \in DOMAIN M!Combos(k[1][1]) : k[1] = CellAt(k[1][1], n)
<1>1. PICK f \in {"connection", "command", "shaping"} : k \in M!Cells(f) \X M!Measures(f)
  BY DEF M!PairKeys
<1>2. k[1] \in M!Cells(f) /\ k[2] \in M!Measures(f) /\ k = <<k[1], k[2]>>
  BY <1>1
<1>3. PICK n \in DOMAIN M!Combos(f) : k[1] = <<f, M!Combos(f)[n]>>
  BY <1>2, CellIs
<1>4. k[1][1] = f
  BY <1>3
<1> QED BY <1>2, <1>3, <1>4 DEF CellAt

\* What the pairs of a family go out as.
PairRows(p, f) == FamilyRows(f, [n \in DOMAIN M!Combos(f) |-> M!Values(p, CellAt(f, n))])

\* The rows DrainPairs makes are well formed and apart, show the pairs as they
\* were, and carry the family's intervals and nothing for another family.
LEMMA PairRowsAre ==
  ASSUME NEW f \in {"connection", "command", "shaping"}, NEW d \in Devices,
         NEW p \in [M!PairKeys -> Counts]
  PROVE  LET s == PairRows(p, f) IN
         /\ s \in Seq(RowsOf(d)) /\ Apart(s)
         /\ \A n \in DOMAIN s :
              /\ s[n].cell[1] = f
              /\ \A m \in M!Measures(f) : /\ <<s[n].cell, m>> \in M!PairKeys
                                          /\ s[n].values[m] = p[<<s[n].cell, m>>]
              /\ DOMAIN s[n].values = M!Measures(f)
         /\ \A k \in M!PairKeys : Flight(s, k) = IF k[1][1] = f THEN p[k].interval ELSE 0
         /\ \A k : k[1][1] # f => Flight(s, k) = 0
<1> DEFINE v == [n \in DOMAIN M!Combos(f) |-> M!Values(p, CellAt(f, n))]
           s == FamilyRows(f, v)
<1>1. \A n \in DOMAIN M!Combos(f) : Shape(CellAt(f, n)) = M!Measures(f) /\ CellAt(f, n)[1] = f
  BY ShapeIs DEF CellAt
<1>2. ASSUME NEW n \in DOMAIN M!Combos(f), NEW m \in M!Measures(f)
      PROVE  <<CellAt(f, n), m>> \in M!PairKeys /\ v[n][m] = p[<<CellAt(f, n), m>>]
  <2>1. CellAt(f, n) \in M!Cells(f)
    BY CellIs DEF CellAt
  <2>2. v[n] = M!Values(p, CellAt(f, n))
    OBVIOUS
  <2> QED BY <1>1, <2>1, <2>2 DEF M!PairKeys, M!Values
<1>3. ASSUME NEW n \in DOMAIN M!Combos(f) PROVE v[n] \in [Shape(CellAt(f, n)) -> Counts]
  <2>1. v[n] = [m \in M!Measures(f) |-> p[<<CellAt(f, n), m>>]]
    BY <1>1 DEF M!Values
  <2>2. \A m \in M!Measures(f) : p[<<CellAt(f, n), m>>] \in Counts
    BY <1>2
  <2> QED BY <1>1, <2>1, <2>2
<1> HIDE DEF v
<1>4. /\ s \in Seq(RowsOf(d)) /\ Apart(s) /\ DOMAIN s = DOMAIN M!Combos(f)
      /\ \A n \in DOMAIN s : s[n].cell = CellAt(f, n) /\ s[n].values = v[n]
      /\ \A k : (\A n \in DOMAIN s : k[1] # CellAt(f, n)) => Flight(s, k) = 0
      /\ \A n \in DOMAIN s : \A k :
           k[1] = CellAt(f, n) /\ k[2] \in Shape(CellAt(f, n)) =>
             Flight(s, k) = v[n][k[2]].interval
  BY <1>3, FamilyRowsAre
<1> HIDE DEF s
<1>5. ASSUME NEW n \in DOMAIN s
      PROVE  /\ s[n].cell[1] = f /\ DOMAIN s[n].values = M!Measures(f)
             /\ \A m \in M!Measures(f) : /\ <<s[n].cell, m>> \in M!PairKeys
                                         /\ s[n].values[m] = p[<<s[n].cell, m>>]
  BY <1>1, <1>2, <1>3, <1>4
<1>6. ASSUME NEW k, k[1][1] # f PROVE Flight(s, k) = 0
  <2>1. \A n \in DOMAIN s : k[1] # CellAt(f, n)
    BY <1>1, <1>4, <1>6
  <2> QED BY <1>4, <2>1
<1>7. ASSUME NEW k \in M!PairKeys, k[1][1] = f PROVE Flight(s, k) = p[k].interval
  <2>1. PICK n \in DOMAIN M!Combos(f) : k[1] = CellAt(f, n)
    BY <1>7, PairKeyIs
  <2>2. k[2] \in M!Measures(f) /\ k = <<k[1], k[2]>>
    BY <1>7, PairKeyIs
  <2>3. Flight(s, k) = v[n][k[2]].interval
    BY <1>1, <1>4, <2>1, <2>2
  <2> QED BY <1>2, <2>1, <2>2, <2>3
<1> QED BY <1>4, <1>5, <1>6, <1>7 DEF s, v, PairRows

\* What an instance's losses go out as.
HealthRows(n) ==
  <<M!Row(<<"health", << >>>>,
          [m \in M!Measures("health") |-> [total |-> 0, interval |-> n]])>>

\* The row DrainHealth makes carries the drops that were swapped out.
LEMMA HealthRowsAre ==
  ASSUME NEW n \in Int, NEW d \in Devices
  PROVE  LET s == HealthRows(n) IN
         /\ s \in Seq(RowsOf(d)) /\ Apart(s)
         /\ \A i \in DOMAIN s : s[i].cell[1] = "health"
         /\ Flight(s, M!Reconnects) = n
         /\ \A k : k[1][1] # "health" => Flight(s, k) = 0
<1> DEFINE v == <<[m \in M!Measures("health") |-> [total |-> 0, interval |-> n]]>>
           s == FamilyRows("health", v)
<1>1. DOMAIN M!Combos("health") = {1} /\ CellAt("health", 1) = <<"health", << >>>>
  BY CombosAre DEF CellAt
<1>2. Shape(CellAt("health", 1)) = M!Measures("health")
  BY <1>1, ShapeIs
<1>3. v[1] \in [M!Measures("health") -> Counts]
  BY DEF Counts
<1>4. HealthRows(n) = s
  <2>1. s = [i \in {1} |-> M!Row(CellAt("health", i), v[i])]
    BY <1>1 DEF FamilyRows
  <2>2. \A x : <<x>> = [i \in {1} |-> x]
    OBVIOUS
  <2>3. s = [i \in {1} |-> M!Row(<<"health", << >>>>, v[1])]
    BY <1>1, <2>1
  <2> QED BY <2>2, <2>3 DEF HealthRows
<1>5. "reconnects" \in M!Measures("health") /\ v[1]["reconnects"].interval = n
  BY MeasuresAre
<1> HIDE DEF v
<1>6. /\ s \in Seq(RowsOf(d)) /\ Apart(s) /\ DOMAIN s = {1}
      /\ \A i \in DOMAIN s : s[i].cell = CellAt("health", i) /\ s[i].values = v[i]
      /\ \A k : (\A i \in DOMAIN s : k[1] # CellAt("health", i)) => Flight(s, k) = 0
      /\ \A i \in DOMAIN s : \A k :
           k[1] = CellAt("health", i) /\ k[2] \in Shape(CellAt("health", i)) =>
             Flight(s, k) = v[i][k[2]].interval
  BY <1>1, <1>2, <1>3, FamilyRowsAre
<1> HIDE DEF s
<1>7. Flight(s, M!Reconnects) = n
  BY <1>1, <1>2, <1>5, <1>6 DEF M!Reconnects
<1>8. ASSUME NEW k, k[1][1] # "health" PROVE Flight(s, k) = 0
  BY <1>1, <1>6, <1>8
<1> QED BY <1>1, <1>4, <1>6, <1>7, <1>8

\* Differences are counts, measure by measure.
LEMMA DifferenceIs ==
  ASSUME NEW N, NEW names \in SUBSET N, NEW total \in [N -> Int], NEW before \in [N -> Int]
  PROVE  LET v == M!Difference(total, before, names) IN
         /\ v \in [names -> Counts] /\ DOMAIN v = names
         /\ \A n \in names : v[n] = [total |-> total[n], interval |-> total[n] - before[n]]
<1>1. \A n \in names : total[n] \in Int /\ before[n] \in Int
  OBVIOUS
<1>2. M!Difference(total, before, names) =
        [n \in names |-> [total |-> total[n], interval |-> total[n] - before[n]]]
  BY DEF M!Difference
<1>3. \A n \in names : [total |-> total[n], interval |-> total[n] - before[n]] \in Counts
  BY <1>1 DEF Counts
<1> QED BY <1>2, <1>3

\* The parse totals against those of the emission before.
ParseRows(total, before) ==
  FamilyRows("parse", [n \in DOMAIN M!Combos("parse") |->
                         M!Difference(total, before, M!ParseOf(M!Combos("parse")[n][1]))])

\* The rows DrainParse makes carry what the agent's parse totals have grown by
\* since the instance's previous emission, and nothing for another family.
LEMMA ParseRowsAre ==
  ASSUME NEW total \in [M!ParseNames -> Int], NEW before \in [M!ParseNames -> Int],
         NEW d \in Devices
  PROVE  LET s == ParseRows(total, before) IN
         /\ s \in Seq(RowsOf(d)) /\ Apart(s)
         /\ \A i \in DOMAIN s : \E r \in M!Results :
              /\ s[i].cell = <<"parse", <<r>>>> /\ DOMAIN s[i].values = M!ParseOf(r)
              /\ \A n \in M!ParseOf(r) :
                   s[i].values[n] = [total |-> total[n], interval |-> total[n] - before[n]]
         /\ \A k \in M!ParseSeries : Flight(s, k) = total[k[2]] - before[k[2]]
         /\ \A k : k[1][1] # "parse" => Flight(s, k) = 0
<1> DEFINE v == [n \in DOMAIN M!Combos("parse") |->
                   M!Difference(total, before, M!ParseOf(M!Combos("parse")[n][1]))]
           s == FamilyRows("parse", v)
           of == <<"success", "error">>
<1>1. /\ DOMAIN M!Combos("parse") = 1..2
      /\ \A i \in 1..2 : /\ M!Combos("parse")[i] = <<of[i]>> /\ of[i] \in M!Results
                         /\ CellAt("parse", i) = <<"parse", <<of[i]>>>>
      /\ \A r \in M!Results : \E i \in 1..2 : r = of[i]
  BY CombosAre DEF CellAt, M!Results
<1>2. \A i \in 1..2 : Shape(CellAt("parse", i)) = M!ParseOf(of[i])
  BY <1>1, ShapeIs
<1>3. \A i \in 1..2 : v[i] = M!Difference(total, before, M!ParseOf(of[i]))
  <2>1. \A i \in 1..2 : M!Combos("parse")[i][1] = of[i]
    BY <1>1
  <2> QED BY <1>1, <2>1
<1>4. ASSUME NEW i \in 1..2
      PROVE  /\ v[i] \in [Shape(CellAt("parse", i)) -> Counts]
             /\ DOMAIN v[i] = M!ParseOf(of[i])
             /\ \A n \in M!ParseOf(of[i]) :
                  v[i][n] = [total |-> total[n], interval |-> total[n] - before[n]]
  <2>1. M!ParseOf(of[i]) \subseteq M!ParseNames
    BY <1>1, SeriesAreNames
  <2> DEFINE w == M!Difference(total, before, M!ParseOf(of[i]))
  <2>2. /\ w \in [M!ParseOf(of[i]) -> Counts] /\ DOMAIN w = M!ParseOf(of[i])
        /\ \A n \in M!ParseOf(of[i]) :
             w[n] = [total |-> total[n], interval |-> total[n] - before[n]]
    BY <2>1, DifferenceIs
  <2>3. v[i] = w /\ Shape(CellAt("parse", i)) = M!ParseOf(of[i])
    BY <1>2, <1>3
  <2> HIDE DEF v, of, w
  <2> QED BY <2>2, <2>3
<1> HIDE DEF v, of
<1>a. \A n \in DOMAIN M!Combos("parse") : v[n] \in [Shape(CellAt("parse", n)) -> Counts]
  BY <1>1, <1>4
<1>5. /\ s \in Seq(RowsOf(d)) /\ Apart(s) /\ DOMAIN s = 1..2
      /\ \A i \in DOMAIN s : s[i].cell = CellAt("parse", i) /\ s[i].values = v[i]
      /\ \A k : (\A i \in DOMAIN s : k[1] # CellAt("parse", i)) => Flight(s, k) = 0
      /\ \A i \in DOMAIN s : \A k :
           k[1] = CellAt("parse", i) /\ k[2] \in Shape(CellAt("parse", i)) =>
             Flight(s, k) = v[i][k[2]].interval
  BY <1>1, <1>a, FamilyRowsAre
<1> HIDE DEF s
<1>6. ASSUME NEW k \in M!ParseSeries PROVE Flight(s, k) = total[k[2]] - before[k[2]]
  <2>1. PICK r \in M!Results, n \in M!ParseNames :
           n \in M!ParseOf(r) /\ k = <<<<"parse", <<r>>>>, n>>
    BY SeriesAreNames DEF M!ParseSeries
  <2>2. PICK i \in 1..2 : r = of[i]
    BY <1>1
  <2>3. k[1] = CellAt("parse", i) /\ k[2] = n /\ n \in M!ParseOf(of[i])
    BY <1>1, <2>1, <2>2
  <2>4. n \in Shape(CellAt("parse", i)) /\ i \in DOMAIN s
    BY <1>2, <1>5, <2>3
  <2>5. Flight(s, k) = v[i][n].interval
    BY <1>5, <2>3, <2>4
  <2>6. v[i][n] = [total |-> total[n], interval |-> total[n] - before[n]]
    BY <1>4, <2>3
  <2> QED BY <2>3, <2>5, <2>6
<1>7. ASSUME NEW k, k[1][1] # "parse" PROVE Flight(s, k) = 0
  BY <1>1, <1>5, <1>7
<1>8. ASSUME NEW i \in DOMAIN s
      PROVE  \E r \in M!Results :
               /\ s[i].cell = <<"parse", <<r>>>> /\ DOMAIN s[i].values = M!ParseOf(r)
               /\ \A n \in M!ParseOf(r) :
                    s[i].values[n] = [total |-> total[n], interval |-> total[n] - before[n]]
  <2>1. of[i] \in M!Results /\ s[i].cell = <<"parse", <<of[i]>>>>
    BY <1>1, <1>5
  <2>2. DOMAIN s[i].values = M!ParseOf(of[i])
    BY <1>4, <1>5
  <2>3. \A n \in M!ParseOf(of[i]) :
          s[i].values[n] = [total |-> total[n], interval |-> total[n] - before[n]]
    BY <1>4, <1>5
  <2> QED BY <2>1, <2>2, <2>3
<1> QED BY <1>5, <1>6, <1>7, <1>8 DEF s, v, ParseRows

\* The agent's differences.
LEMMA AgentRowsAre ==
  ASSUME NEW total \in [M!StatNames -> Int], NEW before \in [M!StatNames -> Int]
  PROVE  LET s == M!AgentRows(total, before) IN
         /\ s \in Seq(RowsOf(Agent)) /\ Apart(s)
         /\ \A i \in DOMAIN s : \A n \in DOMAIN s[i].values :
              /\ <<s[i].cell, n>> \in M!AgentSeries
              /\ s[i].values[n] = [total |-> total[n], interval |-> total[n] - before[n]]
         /\ \A k \in M!AgentSeries : Flight(s, k) = total[k[2]] - before[k[2]]
<1> DEFINE s == M!AgentRows(total, before)
           fam == <<"stream", "probe", "stream", "probe">>
           res == <<"success", "success", "error", "error">>
           cell(i) == <<fam[i], <<res[i]>>>>
           of(i) == IF fam[i] = "stream" THEN M!StreamOf(res[i]) ELSE M!ProbeOf(res[i])
<1>1. /\ DOMAIN s = 1..4 /\ Len(s) = 4
      /\ \A i \in 1..4 : s[i] = M!Row(cell(i), M!Difference(total, before, of(i)))
  BY DEF M!AgentRows
<1>2. \A i \in 1..4 : fam[i] \in {"stream", "probe"} /\ res[i] \in M!Results
  BY DEF M!Results
<1>3. \A i, j \in 1..4 : cell(i) = cell(j) => i = j
  OBVIOUS
<1>4. \A f \in {"stream", "probe"}, r \in M!Results : \E i \in 1..4 : f = fam[i] /\ r = res[i]
  <2>1. fam[1] = "stream" /\ res[1] = "success" /\ fam[2] = "probe" /\ res[2] = "success"
    OBVIOUS
  <2>2. fam[3] = "stream" /\ res[3] = "error" /\ fam[4] = "probe" /\ res[4] = "error"
    OBVIOUS
  <2> QED BY <2>1, <2>2 DEF M!Results
<1>5. s = [i \in 1..4 |-> s[i]]
  BY DEF M!AgentRows
<1> HIDE DEF s, fam, res
<1>6. \A i \in 1..4 : s[i].cell = cell(i) /\ s[i].values = M!Difference(total, before, of(i))
  BY <1>1 DEF M!Row
<1>7. ASSUME NEW i \in 1..4
      PROVE  /\ cell(i) \in CellsOf(Agent) /\ Shape(cell(i)) = of(i)
             /\ of(i) \subseteq M!StatNames
  BY <1>2, KeysAre, ShapeIs, SeriesAreNames
<1>8. ASSUME NEW i \in 1..4
      PROVE  /\ s[i].values \in [of(i) -> Counts] /\ DOMAIN s[i].values = of(i)
             /\ \A n \in of(i) :
                  s[i].values[n] = [total |-> total[n], interval |-> total[n] - before[n]]
  <2>0. PICK names : names = of(i)
    OBVIOUS
  <2> DEFINE w == M!Difference(total, before, names)
  <2>a. names \in SUBSET M!StatNames
    BY <1>7, <2>0
  <2>1. /\ w \in [names -> Counts] /\ DOMAIN w = names
        /\ \A n \in names : w[n] = [total |-> total[n], interval |-> total[n] - before[n]]
    BY <2>a, DifferenceIs
  <2>2. s[i].values = w
    BY <1>6, <2>0
  <2> HIDE DEF w
  <2> QED BY <2>0, <2>1, <2>2
<1>9. ASSUME NEW i \in 1..4 PROVE s[i] \in RowsOf(Agent)
  <2>1. s[i] = M!Row(cell(i), s[i].values) /\ cell(i) \in CellsOf(Agent)
    BY <1>1, <1>6, <1>7
  <2>2. s[i].values \in [Shape(cell(i)) -> Counts]
    BY <1>7, <1>8
  <2> QED BY <2>1, <2>2, RowFits
<1>10. s \in Seq(RowsOf(Agent))
  BY <1>5, <1>9
<1>11. Apart(s)
  BY <1>1, <1>3, <1>6 DEF Apart
<1>12. ASSUME NEW i \in 1..4, NEW n \in of(i)
       PROVE  /\ <<cell(i), n>> \in M!AgentSeries
              /\ s[i].values[n] = [total |-> total[n], interval |-> total[n] - before[n]]
  <2>1. <<cell(i), n>> \in M!AgentSeries
    BY <1>2 DEF M!AgentSeries
  <2> QED BY <1>8, <2>1
<1>13. ASSUME NEW k \in M!AgentSeries PROVE Flight(s, k) = total[k[2]] - before[k[2]]
  <2>1. PICK f \in {"stream", "probe"}, r \in M!Results, n \in M!StatNames :
           /\ k = <<<<f, <<r>>>>, n>>
           /\ n \in IF f = "stream" THEN M!StreamOf(r) ELSE M!ProbeOf(r)
    BY SeriesAreNames DEF M!AgentSeries
  <2>2. PICK i \in 1..4 : f = fam[i] /\ r = res[i]
    BY <1>4
  <2>3. k[1] = cell(i) /\ k[2] = n /\ n \in of(i)
    BY <2>1, <2>2
  <2>4. Flight(s, k) = M!Carried(s[i], k)
    BY <1>1, <1>6, <1>11, <2>3, OneCarries
  <2>5. DOMAIN s[i].values = of(i) /\ s[i].cell = k[1]
    BY <1>6, <1>8, <2>3
  <2>6. M!Carried(s[i], k) = s[i].values[k[2]].interval
    BY <2>3, <2>5 DEF M!Carried
  <2>7. s[i].values[k[2]] = [total |-> total[k[2]], interval |-> total[k[2]] - before[k[2]]]
    BY <1>12, <2>3
  <2> QED BY <2>4, <2>6, <2>7
<1>14. \A i \in DOMAIN s : \A n \in DOMAIN s[i].values :
              /\ <<s[i].cell, n>> \in M!AgentSeries
              /\ s[i].values[n] = [total |-> total[n], interval |-> total[n] - before[n]]
  BY <1>1, <1>6, <1>8, <1>12
<1> QED BY <1>10, <1>11, <1>13, <1>14 DEF s

----------------------------------------------------------------------------
(* Metrics: the rows, step by step.                                        *)

\* Rows that stay where they are say what they said.
LEMMA RowsStay ==
  ASSUME RowsTyped, TotalsAddUp, UNCHANGED <<rows, handed>>
  PROVE  /\ RowsTyped' /\ TotalsAddUp'
         /\ \A e, k : M!Reported(e, k)' = M!Reported(e, k)
BY DEF RowsTyped, TotalsAddUp, M!Reported, M!InFlight

\* A row that is handed over is no longer on its way, and no other moves.
LEMMA EmitKeeps ==
  ASSUME RowsTyped, TotalsAddUp, NEW e \in M!Emitters, M!Emit(e)
  PROVE  /\ RowsTyped' /\ TotalsAddUp'
         /\ \A x \in M!Emitters : \A k \in M!Keys(x) : M!Reported(x, k)' = M!Reported(x, k)
         /\ \A x \in M!Emitters : \A i \in DOMAIN rows'[x] :
              \E j \in DOMAIN rows[x] : rows'[x][i] = rows[x][j]
         /\ \A x \in M!Emitters : rows[x] = << >> => rows'[x] = << >>
<1> DEFINE row == Head(rows[e])
           K == M!Keys(e)
<1>1. /\ DOMAIN rows = M!Emitters /\ DOMAIN handed = M!Emitters
      /\ rows[e] \in Seq(RowsOf(e)) /\ Apart(rows[e]) /\ rows[e] # << >>
      /\ handed[e] \in [K -> Int]
  BY DEF RowsTyped, M!Emit
<1>2. /\ Tail(rows[e]) \in Seq(RowsOf(e)) /\ Apart(Tail(rows[e])) /\ row \in RowsOf(e)
      /\ \A i \in DOMAIN Tail(rows[e]) : /\ i + 1 \in DOMAIN rows[e]
                                         /\ Tail(rows[e])[i] = rows[e][i + 1]
                                         /\ rows[e][i + 1].cell # row.cell
      /\ \A k : Flight(rows[e], k) = M!Carried(row, k) + Flight(Tail(rows[e]), k)
  BY <1>1, FirstAndOthers
<1>3. /\ DOMAIN rows' = M!Emitters /\ rows'[e] = Tail(rows[e])
      /\ \A x \in M!Emitters : x # e => rows'[x] = rows[x]
  BY <1>1 DEF M!Emit
<1>4. /\ DOMAIN handed' = M!Emitters /\ \A x \in M!Emitters : x # e => handed'[x] = handed[x]
      /\ handed'[e] = [k \in K |-> IF k[1] = row.cell /\ k[2] \in DOMAIN row.values
                                   THEN handed[e][k] + row.values[k[2]].interval
                                   ELSE handed[e][k]]
  <2>1. handed' = [handed EXCEPT ![e] =
                     [k \in DOMAIN handed[e] |-> IF k[1] = row.cell /\ k[2] \in DOMAIN row.values
                                   THEN handed[e][k] + row.values[k[2]].interval
                                   ELSE handed[e][k]]]
    BY DEF M!Emit
  <2>2. DOMAIN handed[e] = K
    BY <1>1
  <2> QED BY <1>1, <2>1, <2>2
<1>5. ASSUME NEW k \in K
      PROVE  /\ handed'[e][k] = handed[e][k] + M!Carried(row, k)
             /\ handed'[e][k] \in Int /\ M!Carried(row, k) \in Int /\ handed[e][k] \in Int
  <2>1. M!Carried(row, k) \in Int /\ handed[e][k] \in Int
    BY <1>1, <1>2, RowIs
  <2>2. handed'[e][k] = IF k[1] = row.cell /\ k[2] \in DOMAIN row.values
                        THEN handed[e][k] + row.values[k[2]].interval
                        ELSE handed[e][k]
    BY <1>4
  <2> HIDE DEF row, K
  <2>3. handed'[e][k] = handed[e][k] + M!Carried(row, k)
    BY <2>1, <2>2 DEF M!Carried
  <2> QED BY <2>1, <2>3
<1> HIDE DEF row, K
<1>6. RowsTyped'
  <2>1. DOMAIN handed'[e] = K /\ \A k \in K : handed'[e][k] \in Int
    BY <1>4, <1>5
  <2>2. handed'[e] \in [K -> Int]
    BY <1>4, <2>1
  <2>3. ASSUME NEW x \in M!Emitters
        PROVE  /\ rows'[x] \in Seq(RowsOf(x)) /\ Apart(rows'[x])
               /\ handed'[x] \in [M!Keys(x) -> Int]
    <3>1. CASE x = e
      BY <3>1, <1>2, <1>3, <2>2 DEF K
    <3>2. CASE x # e
      BY <3>2, <1>3, <1>4 DEF RowsTyped
    <3> QED BY <3>1, <3>2
  <2> QED BY <1>3, <1>4, <2>3 DEF RowsTyped
<1>7. ASSUME NEW x \in M!Emitters, NEW k \in M!Keys(x)
      PROVE  M!Reported(x, k)' = M!Reported(x, k)
  <2>1. CASE x # e
    BY <2>1, <1>3, <1>4, ReportedIs
  <2>2. CASE x = e
    <3>1. k \in K
      BY <2>2 DEF K
    <3>2. Flight(Tail(rows[e]), k) \in Int
      BY <1>2, FlightIsInt
    <3>3. Flight(rows[e], k) = M!Carried(row, k) + Flight(Tail(rows[e]), k)
      BY <1>2
    <3>4. M!Reported(e, k)' = handed'[e][k] + Flight(Tail(rows[e]), k)
      BY <1>3, ReportedIs
    <3>5. M!Reported(e, k) = handed[e][k] + Flight(rows[e], k)
      BY ReportedIs
    <3> QED BY <2>2, <1>5, <3>1, <3>2, <3>3, <3>4, <3>5
  <2> QED BY <2>1, <2>2
<1>8. ASSUME NEW x \in M!Emitters, NEW i \in DOMAIN rows'[x]
      PROVE  \E j \in DOMAIN rows[x] : rows'[x][i] = rows[x][j] /\ (x = e => rows[x][j].cell # row.cell)
  BY <1>2, <1>3
<1>9. ASSUME NEW x \in M!Emitters, rows[x] = << >> PROVE rows'[x] = << >>
  BY <1>1, <1>3, <1>9
<1>10. TotalsAddUp'
  <2> SUFFICES ASSUME NEW x \in M!Emitters, NEW i \in DOMAIN rows'[x],
                      rows'[x][i].cell[1] # "health", NEW n \in DOMAIN rows'[x][i].values
               PROVE  rows'[x][i].values[n].total =
                        handed'[x][<<rows'[x][i].cell, n>>] + rows'[x][i].values[n].interval
    BY DEF TotalsAddUp, TotalsMatch
  <2>1. PICK j \in DOMAIN rows[x] :
          rows'[x][i] = rows[x][j] /\ (x = e => rows[x][j].cell # row.cell)
    BY <1>8
  <2>2. rows[x][j].values[n].total =
          handed[x][<<rows[x][j].cell, n>>] + rows[x][j].values[n].interval
    BY <2>1 DEF TotalsAddUp, TotalsMatch
  <2>3. CASE x # e
    BY <2>1, <2>2, <2>3, <1>4
  <2>4. CASE x = e
    <3> DEFINE k == <<rows[x][j].cell, n>>
    <3>1. rows[e][j] \in RowsOf(e)
      BY <1>1, <2>1, <2>4
    <3>2. k \in K
      BY <2>1, <2>4, <3>1, RowIs, RowKeys DEF K
    <3>3. M!Carried(row, k) = 0
      BY <2>1, <2>4 DEF M!Carried
    <3>4. handed'[e][k] = handed[e][k]
      BY <1>5, <3>2, <3>3
    <3> QED BY <2>1, <2>2, <2>4, <3>4
  <2> QED BY <2>3, <2>4
<1> QED BY <1>6, <1>7, <1>8, <1>9, <1>10

\* New rows where there were none carry what they carry.
LEMMA RowsAppear ==
  ASSUME RowsTyped, TotalsAddUp, NEW e \in M!Emitters, rows[e] = << >>,
         NEW s \in Seq(RowsOf(e)), Apart(s), TotalsMatch(s, handed[e]),
         rows' = [rows EXCEPT ![e] = s], handed' = handed
  PROVE  /\ RowsTyped' /\ TotalsAddUp' /\ rows'[e] = s
         /\ \A x \in M!Emitters : x # e => rows'[x] = rows[x]
         /\ \A x \in M!Emitters : \A k : x # e => M!Reported(x, k)' = M!Reported(x, k)
         /\ \A k \in M!Keys(e) : /\ M!Reported(e, k) = handed[e][k]
                                 /\ M!Reported(e, k)' = handed[e][k] + Flight(s, k)
                                 /\ handed[e][k] \in Int /\ Flight(s, k) \in Int
<1>1. /\ DOMAIN rows = M!Emitters /\ DOMAIN handed = M!Emitters
      /\ handed[e] \in [M!Keys(e) -> Int]
  BY DEF RowsTyped
<1>2. /\ DOMAIN rows' = M!Emitters /\ rows'[e] = s
      /\ \A x \in M!Emitters : x # e => rows'[x] = rows[x]
  BY <1>1
<1>3. RowsTyped'
  BY <1>1, <1>2 DEF RowsTyped
<1>4. TotalsAddUp'
  BY <1>2 DEF TotalsAddUp
<1>5. \A x \in M!Emitters : \A k : x # e => M!Reported(x, k)' = M!Reported(x, k)
  BY <1>2, ReportedIs
<1>6. ASSUME NEW k \in M!Keys(e)
      PROVE  /\ M!Reported(e, k) = handed[e][k]
             /\ M!Reported(e, k)' = handed[e][k] + Flight(s, k)
             /\ handed[e][k] \in Int /\ Flight(s, k) \in Int
  <2>1. handed[e][k] \in Int /\ Flight(s, k) \in Int
    BY <1>1, FlightIsInt
  <2>2. Flight(rows[e], k) = 0
    BY NothingCarried
  <2>3. M!Reported(e, k) = handed[e][k] + 0
    BY <2>2, ReportedIs
  <2>4. M!Reported(e, k)' = handed[e][k] + Flight(s, k)
    BY <1>2, ReportedIs
  <2> QED BY <2>1, <2>3, <2>4
<1> QED BY <1>2, <1>3, <1>4, <1>5, <1>6

----------------------------------------------------------------------------
(* Metrics: recording.                                                     *)

\* The series are of keys, and the link's counters are pairs.
LEMMA SeriesAreKeys ==
  /\ \A d \in Devices : M!PairKeys \subseteq M!Keys(d) /\ M!Reconnects \in M!Keys(d)
                        /\ M!ParseSeries \subseteq M!Keys(d)
  /\ M!AgentSeries \subseteq M!Keys(Agent)
  /\ \A k \in M!ParseSeries : k[2] \in M!ParseNames /\ k[1][1] = "parse"
  /\ \A k \in M!AgentSeries : k[2] \in M!StatNames
<1>1. ASSUME NEW k \in M!ParseSeries
      PROVE  k \in M!ParseKeys /\ k[2] \in M!ParseNames /\ k[1][1] = "parse"
  <2>1. PICK r \in M!Results, n \in M!ParseNames :
           n \in M!ParseOf(r) /\ k = <<<<"parse", <<r>>>>, n>>
    BY SeriesAreNames DEF M!ParseSeries
  <2>2. n \in M!ParseNames
    BY <2>1, SeriesAreNames
  <2> QED BY <2>1, <2>2 DEF M!ParseKeys
<1>2. ASSUME NEW k \in M!AgentSeries PROVE k \in M!AgentKeys /\ k[2] \in M!StatNames
  <2>1. PICK f \in {"stream", "probe"}, r \in M!Results, n \in M!StatNames :
           /\ k = <<<<f, <<r>>>>, n>>
           /\ n \in IF f = "stream" THEN M!StreamOf(r) ELSE M!ProbeOf(r)
    BY SeriesAreNames DEF M!AgentSeries
  <2>2. n \in M!StatNames
    BY <2>1, SeriesAreNames
  <2> QED BY <2>1, <2>2 DEF M!AgentKeys
<1> QED BY <1>1, <1>2, KeysAre DEF M!DeviceKeys

LinkNames == {"connectAttempts", "connectFailures", "reconnectAttempts", "connectionDrops"}

\* The link's counters are pairs of the family that bears their name.
LEMMA OwnKeys ==
  /\ \A n \in LinkNames : /\ M!Own("connection", n) \in M!PairKeys
                          /\ M!Own("connection", n)[1][1] = "connection"
                          /\ M!Own("connection", n)[2] = n
  /\ LinkNames = M!Measures("connection")
<1>1. <<"connection", << >>>> \in M!Cells("connection")
  BY CombosAre, CellIs
<1>2. LinkNames = M!Measures("connection")
  BY MeasuresAre DEF LinkNames
<1>3. ASSUME NEW n \in LinkNames PROVE M!Own("connection", n) \in M!PairKeys
  BY <1>1, <1>2 DEF M!PairKeys, M!Own
<1> QED BY <1>2, <1>3 DEF M!Own

\* Pairs that count: totals and intervals grow alike.
Moved(p, q) ==
  /\ q \in [M!PairKeys -> Counts]
  /\ \A k \in M!PairKeys : q[k].total - q[k].interval = p[k].total - p[k].interval

\* Adding to a pair moves its total and its interval alike.
LEMMA AddIs ==
  ASSUME NEW p \in Counts, NEW n \in Int
  PROVE  /\ M!Add(p, n) \in Counts /\ M!Add(p, n).total = p.total + n
         /\ M!Add(p, n).total - M!Add(p, n).interval = p.total - p.interval
         /\ p.total \in Int /\ p.interval \in Int
BY DEF M!Add, Counts

\* A bump moves one pair and leaves the others.
LEMMA BumpedIs ==
  ASSUME NEW p \in [M!PairKeys -> Counts], NEW key \in M!PairKeys, NEW n \in Int
  PROVE  LET q == [p EXCEPT ![key] = M!Add(@, n)] IN
         /\ Moved(p, q) /\ q[key].total = p[key].total + n
         /\ \A k \in M!PairKeys : k # key => q[k] = p[k]
<1> DEFINE q == [p EXCEPT ![key] = M!Add(@, n)]
<1>1. /\ DOMAIN q = M!PairKeys /\ q[key] = M!Add(p[key], n)
      /\ \A k \in M!PairKeys : k # key => q[k] = p[k]
      /\ q = [k \in M!PairKeys |-> q[k]]
  OBVIOUS
<1> HIDE DEF q
<1>2. ASSUME NEW k \in M!PairKeys
      PROVE  q[k] \in Counts /\ q[k].total - q[k].interval = p[k].total - p[k].interval
  <2>1. CASE k = key
    BY <1>1, <2>1, AddIs
  <2>2. CASE k # key
    BY <1>1, <2>2
  <2> QED BY <2>1, <2>2
<1>3. q \in [M!PairKeys -> Counts]
  BY <1>1, <1>2
<1>4. q[key].total = p[key].total + n
  BY <1>1, AddIs
<1> QED BY <1>1, <1>2, <1>3, <1>4 DEF Moved, q

\* What the shaper did moves only the pairs of its family.
LEMMA ShapedIs ==
  ASSUME NEW p \in [M!PairKeys -> Counts], NEW c \in [M!Measures("shaping") -> Int]
  PROVE  LET q == M!Shaped(p, c) IN
         /\ Moved(p, q)
         /\ \A k \in M!PairKeys : k[1][1] # "shaping" => q[k] = p[k]
<1> DEFINE q == M!Shaped(p, c)
<1>1. q = [k \in M!PairKeys |-> IF k[1][1] = "shaping" THEN M!Add(p[k], c[k[2]]) ELSE p[k]]
  BY DEF M!Shaped
<1> HIDE DEF q
<1>2. ASSUME NEW k \in M!PairKeys
      PROVE  q[k] \in Counts /\ q[k].total - q[k].interval = p[k].total - p[k].interval
  <2>1. CASE k[1][1] = "shaping"
    <3>1. k[2] \in M!Measures("shaping")
      BY <2>1, PairKeyIs
    <3>2. q[k] = M!Add(p[k], c[k[2]]) /\ c[k[2]] \in Int
      BY <1>1, <2>1, <3>1
    <3>3. p[k] \in Counts
      OBVIOUS
    <3>4. PICK n \in Int : n = c[k[2]]
      BY <3>2
    <3>5. M!Add(p[k], n) \in Counts
          /\ M!Add(p[k], n).total - M!Add(p[k], n).interval = p[k].total - p[k].interval
      BY <3>3, AddIs
    <3> QED BY <3>2, <3>4, <3>5
  <2>2. CASE k[1][1] # "shaping"
    BY <1>1, <2>2
  <2> QED BY <2>1, <2>2
<1>3. q \in [M!PairKeys -> Counts]
  BY <1>1, <1>2
<1> QED BY <1>1, <1>2, <1>3 DEF Moved, q

\* Two moves are a move.
LEMMA MovedTwice ==
  ASSUME NEW p, NEW q, NEW r, Moved(p, q), Moved(q, r)
  PROVE  Moved(p, r)
BY DEF Moved

\* What a tick or a flush counts is a number for each measure of shaping.
LEMMA CountsAre ==
  /\ \A c \in M!Shapings : c \in [M!Measures("shaping") -> Int]
  /\ \A c \in M!Flushes : c \in [M!Measures("shaping") -> Int]
<1>1. \A a, b, c \in Int :
        [published |-> a, coalesced |-> b, deadbandDropped |-> c] \in [M!Measures("shaping") -> Int]
  BY MeasuresAre
<1>2. M!None(M!Measures("shaping")) \in [M!Measures("shaping") -> Int]
  BY DEF M!None
<1> QED BY <1>1, <1>2 DEF M!Shapings, M!Flushes

\* A command's outcome moves only the pairs of its family.
LEMMA RecordedIs ==
  ASSUME NEW p \in [M!PairKeys -> Counts], NEW v \in M!Verbs, NEW r
  PROVE  LET q == M!Recorded(p, v, r) IN
         /\ Moved(p, q)
         /\ \A k \in M!PairKeys : k[1][1] # "command" => q[k] = p[k]
<1> DEFINE cell == <<"command", <<v, r>>>>
           a == <<cell, "commandRequests">>
           b == <<cell, "commandErrors">>
           m == IF r = "error" THEN 1 ELSE 0
           q == M!Recorded(p, v, r)
<1>1. q = [p EXCEPT ![a] = M!Add(@, 1), ![b] = M!Add(@, m)]
  BY DEF M!Recorded
<1>2. a[1][1] = "command" /\ b[1][1] = "command" /\ a # b /\ m \in Int
  OBVIOUS
<1> HIDE DEF q, a, b, m
<1>3. \A k \in M!PairKeys : q[k] = CASE k = a -> M!Add(p[k], 1)
                                      [] k = b -> M!Add(p[k], m)
                                      [] OTHER -> p[k]
  BY <1>1, <1>2
<1>4. q = [k \in M!PairKeys |-> q[k]]
  BY <1>1
<1>5. ASSUME NEW k \in M!PairKeys
      PROVE  q[k] \in Counts /\ q[k].total - q[k].interval = p[k].total - p[k].interval
  <2>1. CASE k = a
    <3>1. q[k] = M!Add(p[k], 1) /\ p[k] \in Counts
      BY <1>2, <1>3, <2>1
    <3> QED BY <3>1, AddIs
  <2>2. CASE k = b
    <3>1. q[k] = M!Add(p[k], m) /\ p[k] \in Counts
      BY <1>2, <1>3, <2>2
    <3> QED BY <1>2, <3>1, AddIs
  <2>3. CASE k # a /\ k # b
    BY <1>3, <2>3
  <2> QED BY <2>1, <2>2, <2>3
<1>6. q \in [M!PairKeys -> Counts]
  BY <1>4, <1>5
<1>7. \A k \in M!PairKeys : k[1][1] # "command" => q[k] = p[k]
  BY <1>2, <1>3
<1> QED BY <1>5, <1>6, <1>7 DEF Moved, q

----------------------------------------------------------------------------
(* Metrics: a step keeps the invariant, by kinds of steps.                 *)

\* What does not touch what is reported leaves the sums as they are.
LEMMA SumsStay ==
  ASSUME PairsAddUp, ParseAddsUp, AgentAddsUp,
         \A x \in M!Emitters : \A k \in M!Keys(x) : M!Reported(x, k)' = M!Reported(x, k),
         rows[Agent] = << >> => rows'[Agent] = << >>,
         UNCHANGED <<stats, pair, lost, parsed, previous, seen>>
  PROVE  PairsAddUp' /\ ParseAddsUp' /\ AgentAddsUp'
<1>1. \A d \in Devices : d \in M!Emitters
  BY KeysAre
<1>2. PairsAddUp'
  BY <1>1, SeriesAreKeys DEF PairsAddUp
<1>3. ParseAddsUp'
  BY <1>1, SeriesAreKeys DEF ParseAddsUp
<1>4. AgentAddsUp'
  BY KeysAre, SeriesAreKeys DEF AgentAddsUp
<1> QED BY <1>2, <1>3, <1>4

\* A link whose task and counters rest is in order.
LEMMA LinkStays ==
  ASSUME NEW d \in Devices, LinkAddsUp(d), link'[d] = link[d], ever'[d] = ever[d],
         plan'[d] = plan[d], rows'[d] = rows[d],
         \A n \in LinkNames : LinkTotal(d, n)' = LinkTotal(d, n)
  PROVE  LinkAddsUp(d)'
BY OwnKeys DEF LinkAddsUp, LinkTotalsAddUp, M!Idle, LinkNames

\* The agent's counters only grow.
LEMMA StatsGrow ==
  ASSUME MInv, stats' \in [M!StatNames \cup M!ParseNames -> Int],
         \A n \in M!StatNames \cup M!ParseNames : stats[n] <= stats'[n],
         bumps' \in [M!Recorders -> Seq((M!StatNames \cup M!ParseNames) \X Nat)],
         UNCHANGED <<M!deviceVars, M!baseVars, M!outVars>>
  PROVE  MInv'
<1>0. UNCHANGED <<pair, lost, ever, link, parsed, previous, seen, plan, rows, handed>>
  BY DEF M!deviceVars, M!baseVars, M!outVars
<1>1. /\ RowsTyped' /\ TotalsAddUp' /\ \A e, k : M!Reported(e, k)' = M!Reported(e, k)
  BY <1>0, RowsStay DEF MInv
<1>2. CountersTyped'
  BY <1>0 DEF MInv, CountersTyped
<1>3. PairsAddUp'
  BY <1>0, <1>1 DEF MInv, PairsAddUp
<1>4. ParseAddsUp'
  <2> SUFFICES ASSUME NEW d \in Devices, NEW k \in M!ParseSeries
               PROVE  parsed'[d][k[2]] = M!Reported(d, k)' /\ parsed'[d][k[2]] <= stats'[k[2]]
    BY DEF ParseAddsUp
  <2>1. k[2] \in M!ParseNames
    BY SeriesAreKeys
  <2>2. parsed[d][k[2]] \in Int /\ stats[k[2]] \in Int /\ stats'[k[2]] \in Int
        /\ stats[k[2]] <= stats'[k[2]]
    BY <2>1 DEF MInv, CountersTyped
  <2>3. parsed[d][k[2]] = M!Reported(d, k) /\ parsed[d][k[2]] <= stats[k[2]]
    BY DEF MInv, ParseAddsUp
  <2> QED BY <1>0, <1>1, <2>2, <2>3
<1>5. AgentAddsUp'
  <2>1. ASSUME NEW k \in M!AgentSeries
        PROVE  previous'[k[2]] = M!Reported(Agent, k)' /\ previous'[k[2]] <= stats'[k[2]]
    <3>1. k[2] \in M!StatNames
      BY SeriesAreKeys
    <3>2. previous[k[2]] \in Int /\ stats[k[2]] \in Int /\ stats'[k[2]] \in Int
          /\ stats[k[2]] <= stats'[k[2]]
      BY <3>1 DEF MInv, CountersTyped
    <3>3. previous[k[2]] = M!Reported(Agent, k) /\ previous[k[2]] <= stats[k[2]]
      BY DEF MInv, AgentAddsUp
    <3> QED BY <1>0, <1>1, <3>2, <3>3
  <2>2. /\ seen \in Seq(Int) /\ Len(seen) <= Len(M!StatOrder)
        /\ \A i \in 1..Len(seen) : seen[i] <= stats[M!StatOrder[i]]
        /\ (seen # << >> => rows[Agent] = << >>)
    BY DEF MInv, AgentAddsUp
  <2>3. ASSUME NEW i \in 1..Len(seen) PROVE seen[i] <= stats'[M!StatOrder[i]]
    <3>1. M!StatOrder[i] \in M!StatNames
      <4>1. i \in DOMAIN M!StatOrder
        BY <2>2 DEF M!StatOrder
      <4> QED BY <4>1 DEF M!StatNames, M!Range
    <3>2. stats[M!StatOrder[i]] \in Int /\ stats'[M!StatOrder[i]] \in Int
          /\ stats[M!StatOrder[i]] <= stats'[M!StatOrder[i]]
      BY <3>1 DEF MInv, CountersTyped
    <3>3. seen[i] \in Int /\ seen[i] <= stats[M!StatOrder[i]]
      BY <2>2
    <3> QED BY <3>2, <3>3
  <2> QED BY <1>0, <2>1, <2>2, <2>3 DEF AgentAddsUp
<1>6. LinksAddUp'
  BY <1>0, LinkStays DEF MInv, LinksAddUp, LinkTotal
<1> QED BY <1>1, <1>2, <1>3, <1>4, <1>5, <1>6 DEF MInv

\* The series that are recorded are counts of the agent's counters.
LEMMA SeriesAreCounts ==
  ASSUME NEW series \in M!Exchanges \cup M!Requests \cup {<< >>, <<<<"reconnects", 1>>>>}
  PROVE  series \in Seq((M!StatNames \cup M!ParseNames) \X Nat)
<1> DEFINE S == (M!StatNames \cup M!ParseNames) \X Nat
<1>1. {"documents", "observations", "heartbeats", "documentsFailed", "outOfRange", "gaps",
       "probesFailed", "probes", "modelChanges", "reconnects"} \subseteq M!StatNames
  BY DEF M!StatNames, M!StatOrder, M!Range
<1>2. {"documentsParsed", "parseErrors", "rejectedObservations"} \subseteq M!ParseNames
  BY DEF M!ParseNames, M!ParseOf, M!Results
<1>3. \A n \in {0, 2} : M!Document(n) \in Seq(S)
  <2>1. \A n \in {0, 2} : <<<<"documents", 1>>, <<"observations", n>>>> \in Seq(S)
    BY <1>1
  <2>2. <<<<"heartbeats", 1>>>> \in Seq(S) /\ << >> \in Seq(S)
    BY <1>1
  <2> HIDE DEF S
  <2> QED BY <2>1, <2>2 DEF M!Document
<1>4. M!Undecodable \in Seq(S) /\ M!Parsed \in Seq(S)
  BY <1>1, <1>2 DEF M!Undecodable, M!Parsed
<1>5. /\ <<<<"rejectedObservations", 1>>>> \in Seq(S) /\ <<<<"outOfRange", 1>>, <<"gaps", 2>>>> \in Seq(S)
      /\ <<<<"probesFailed", 1>>>> \in Seq(S) /\ <<<<"probes", 1>>>> \in Seq(S)
      /\ <<<<"modelChanges", 1>>, <<"probes", 1>>>> \in Seq(S)
      /\ << >> \in Seq(S) /\ <<<<"reconnects", 1>>>> \in Seq(S)
  BY <1>1, <1>2
<1> HIDE DEF S
<1>6. \A a, b \in Seq(S) : a \o b \in Seq(S)
  OBVIOUS
<1>7. M!Exchanges \subseteq Seq(S)
  BY <1>3, <1>4, <1>5, <1>6 DEF M!Exchanges
<1>8. M!Requests \subseteq Seq(S)
  BY <1>4, <1>5, <1>6 DEF M!Requests
<1>9. series \in Seq(S)
  BY <1>5, <1>7, <1>8
<1> QED BY <1>9 DEF S

\* Recording on the agent's side, one bump at a time, keeps the invariant:
\* the totals only grow past what was reported of them.
LEMMA AgentRecords ==
  ASSUME MInv, \/ M!Exchange \/ M!Request \/ M!StreamOpened
               \/ \E r \in M!Recorders : M!Bump(r)
  PROVE  MInv'
<1> DEFINE S == (M!StatNames \cup M!ParseNames) \X Nat
<1>0. /\ stats \in [M!StatNames \cup M!ParseNames -> Int] /\ bumps \in [M!Recorders -> Seq(S)]
  BY DEF MInv, CountersTyped
<1>1. ASSUME NEW r \in {"acquisition", "asker"},
             NEW series \in M!Exchanges \cup M!Requests \cup {<< >>, <<<<"reconnects", 1>>>>},
             M!Record(r, series), UNCHANGED <<stats, M!deviceVars, M!baseVars, M!outVars>>
      PROVE  MInv'
  <2>1. series \in Seq(S) /\ r \in M!Recorders
    BY SeriesAreCounts DEF M!Recorders
  <2>2. bumps' = [bumps EXCEPT ![r] = series]
    BY <1>1 DEF M!Record
  <2> HIDE DEF S
  <2>3. bumps' \in [M!Recorders -> Seq(S)]
    BY <1>0, <2>1, <2>2
  <2>4. stats' \in [M!StatNames \cup M!ParseNames -> Int]
        /\ \A n \in M!StatNames \cup M!ParseNames : stats[n] <= stats'[n]
    BY <1>0, <1>1
  <2> QED BY <1>1, <2>3, <2>4, StatsGrow DEF S
<1>2. CASE M!Exchange
  <2>1. PICK series \in M!Exchanges : M!Record("acquisition", series)
    BY <1>2 DEF M!Exchange
  <2>2. UNCHANGED <<stats, M!deviceVars, M!baseVars, M!outVars>>
    BY <1>2 DEF M!Exchange
  <2> QED BY <1>1, <2>1, <2>2
<1>3. CASE M!Request
  <2>1. PICK series \in M!Requests : M!Record("asker", series)
    BY <1>3 DEF M!Request
  <2>2. UNCHANGED <<stats, M!deviceVars, M!baseVars, M!outVars>>
    BY <1>3 DEF M!Request
  <2> QED BY <1>1, <2>1, <2>2
<1>4. CASE M!StreamOpened
  <2>1. PICK series \in {<< >>, <<<<"reconnects", 1>>>>} : M!Record("acquisition", series)
    BY <1>4 DEF M!StreamOpened
  <2>2. UNCHANGED <<stats, M!deviceVars, M!baseVars, M!outVars>>
    BY <1>4 DEF M!StreamOpened
  <2> QED BY <1>1, <2>1, <2>2
<1>5. ASSUME NEW r \in M!Recorders, M!Bump(r) PROVE MInv'
  <2>1. bumps[r] \in Seq(S) /\ bumps[r] # << >>
    BY <1>0, <1>5 DEF M!Bump
  <2>2. Head(bumps[r]) \in S /\ Tail(bumps[r]) \in Seq(S)
    <3> HIDE DEF S
    <3> QED BY <2>1
  <2>3. PICK name \in M!StatNames \cup M!ParseNames, n \in Nat : Head(bumps[r]) = <<name, n>>
    BY <2>2
  <2>4. stats' = [stats EXCEPT ![name] = @ + n]
    <3>1. stats' = [stats EXCEPT ![Head(bumps[r])[1]] = @ + Head(bumps[r])[2]]
      BY <1>5 DEF M!Bump
    <3>2. Head(bumps[r])[1] = name /\ Head(bumps[r])[2] = n
      BY <2>3
    <3> QED BY <3>1, <3>2
  <2>5. /\ stats' \in [M!StatNames \cup M!ParseNames -> Int]
        /\ \A m \in M!StatNames \cup M!ParseNames : stats[m] <= stats'[m]
    BY <1>0, <2>4
  <2>6. bumps' = [bumps EXCEPT ![r] = Tail(bumps[r])]
        /\ UNCHANGED <<M!deviceVars, M!baseVars, M!outVars>>
    BY <1>5 DEF M!Bump
  <2>7. bumps' \in [M!Recorders -> Seq(S)]
    <3> HIDE DEF S
    <3> QED BY <1>0, <2>2, <2>6
  <2> QED BY <2>5, <2>6, <2>7, StatsGrow
<1> QED BY <1>2, <1>3, <1>4, <1>5

\* An instance's counters count, and its task goes on.
LEMMA DeviceCounts ==
  ASSUME MInv, NEW d \in Devices, NEW q, Moved(pair[d], q), pair' = [pair EXCEPT ![d] = q],
         UNCHANGED <<stats, bumps, parsed, previous, seen, rows, handed>>,
         lost' \in [Devices -> Int], ever' \in [Devices -> BOOLEAN],
         link' \in [Devices -> {"idle", "connecting", "polling", "stopped"}],
         DOMAIN plan' = M!Emitters,
         \A x \in Devices \ {d} : /\ lost'[x] = lost[x] /\ ever'[x] = ever[x]
                                  /\ link'[x] = link[x] /\ plan'[x] = plan[x],
         q[M!Own("connection", "connectionDrops")].total
           - pair[d][M!Own("connection", "connectionDrops")].total = lost'[d] - lost[d],
         LinkAddsUp(d)'
  PROVE  MInv'
<1>0. /\ pair \in [Devices -> [M!PairKeys -> Counts]] /\ lost \in [Devices -> Int]
      /\ q \in [M!PairKeys -> Counts]
      /\ \A k \in M!PairKeys : q[k].total - q[k].interval = pair[d][k].total - pair[d][k].interval
  BY DEF MInv, CountersTyped, Moved
<1>1. /\ RowsTyped' /\ TotalsAddUp' /\ \A e, k : M!Reported(e, k)' = M!Reported(e, k)
  BY RowsStay DEF MInv
<1>2. /\ pair'[d] = q /\ \A x \in Devices : x # d => pair'[x] = pair[x]
      /\ pair' \in [Devices -> [M!PairKeys -> Counts]]
  BY <1>0
<1>3. CountersTyped'
  BY <1>2 DEF MInv, CountersTyped
<1>4. \A e \in M!Emitters : \A k \in M!Keys(e) : M!Reported(e, k) \in Int
  <2> SUFFICES ASSUME NEW e \in M!Emitters, NEW k \in M!Keys(e) PROVE M!Reported(e, k) \in Int
    OBVIOUS
  <2>1. handed[e][k] \in Int /\ rows[e] \in Seq(RowsOf(e))
    BY DEF MInv, RowsTyped
  <2>2. Flight(rows[e], k) \in Int
    BY <2>1, FlightIsInt
  <2> QED BY <2>1, <2>2, ReportedIs
<1>5. PairsAddUp'
  <2> SUFFICES ASSUME NEW x \in Devices
               PROVE  /\ \A k \in M!PairKeys :
                           pair'[x][k].total = M!Reported(x, k)' + pair'[x][k].interval
                      /\ pair'[x][M!Own("connection", "connectionDrops")].total
                           = M!Reported(x, M!Reconnects)' + lost'[x]
    BY DEF PairsAddUp
  <2>1. /\ \A k \in M!PairKeys : pair[x][k].total = M!Reported(x, k) + pair[x][k].interval
        /\ pair[x][M!Own("connection", "connectionDrops")].total
             = M!Reported(x, M!Reconnects) + lost[x]
    BY DEF MInv, PairsAddUp
  <2>2. CASE x # d
    BY <1>1, <1>2, <2>1, <2>2
  <2>3. CASE x = d
    <3>1. ASSUME NEW k \in M!PairKeys
          PROVE  q[k].total = M!Reported(d, k) + q[k].interval
      <4>1. M!Reported(d, k) \in Int
        BY <1>4, SeriesAreKeys, KeysAre
      <4>2. pair[d][k] \in Counts /\ q[k] \in Counts
        BY <1>0
      <4>3. pair[d][k].total = M!Reported(d, k) + pair[d][k].interval
        BY <2>1, <2>3
      <4>4. q[k].total - q[k].interval = pair[d][k].total - pair[d][k].interval
        BY <1>0
      <4> QED BY <4>1, <4>2, <4>3, <4>4 DEF Counts
    <3>2. q[M!Own("connection", "connectionDrops")].total = M!Reported(d, M!Reconnects) + lost'[d]
      <4> DEFINE k == M!Own("connection", "connectionDrops")
      <4>1. k \in M!PairKeys
        BY OwnKeys DEF LinkNames
      <4>2. M!Reported(d, M!Reconnects) \in Int
        BY <1>4, SeriesAreKeys, KeysAre
      <4>3. pair[d][k] \in Counts /\ q[k] \in Counts /\ lost[d] \in Int /\ lost'[d] \in Int
        BY <1>0, <4>1
      <4>4. pair[d][k].total = M!Reported(d, M!Reconnects) + lost[d]
        BY <2>1, <2>3
      <4>5. q[k].total - pair[d][k].total = lost'[d] - lost[d]
        OBVIOUS
      <4> HIDE DEF k
      <4>6. q[k].total = M!Reported(d, M!Reconnects) + lost'[d]
        BY <4>2, <4>3, <4>4, <4>5 DEF Counts
      <4> QED BY <4>6 DEF k
    <3> QED BY <1>1, <1>2, <2>3, <3>1, <3>2
  <2> QED BY <2>2, <2>3
<1>6. ParseAddsUp' /\ AgentAddsUp'
  BY <1>1 DEF MInv, ParseAddsUp, AgentAddsUp
<1>7. LinksAddUp'
  <2> SUFFICES ASSUME NEW x \in Devices, x # d PROVE LinkAddsUp(x)'
    BY DEF LinksAddUp
  <2>1. pair'[x] = pair[x] /\ LinkAddsUp(x)
    BY <1>2 DEF MInv, LinksAddUp
  <2>2. \A n \in LinkNames : LinkTotal(x, n)' = LinkTotal(x, n)
    BY <2>1 DEF LinkTotal
  <2> QED BY <2>1, <2>2, LinkStays
<1> QED BY <1>1, <1>3, <1>5, <1>6, <1>7 DEF MInv

\* A bump, as an update of the instance's pairs.
LEMMA BumpedPair ==
  ASSUME NEW d, NEW key, NEW n
  PROVE  M!Bumped(d, key, n) = [pair EXCEPT ![d] = [pair[d] EXCEPT ![key] = M!Add(@, n)]]
BY DEF M!Bumped

\* The link's four counters are four pairs.
LEMMA OwnApart ==
  \A m, n \in LinkNames : m # n => M!Own("connection", m) # M!Own("connection", n)
BY OwnKeys

\* What the types and the link's story say of one instance.
LEMMA LinkIs ==
  ASSUME MInv, NEW d \in Devices
  PROVE  /\ pair[d] \in [M!PairKeys -> Counts] /\ d \in M!Emitters
         /\ pair \in [Devices -> [M!PairKeys -> Counts]]
         /\ lost \in [Devices -> Int] /\ ever \in [Devices -> BOOLEAN]
         /\ link \in [Devices -> {"idle", "connecting", "polling", "stopped"}]
         /\ DOMAIN plan = M!Emitters
         /\ \A n \in LinkNames : LinkTotal(d, n) \in Int
                                 /\ pair[d][M!Own("connection", n)].total = LinkTotal(d, n)
         /\ LinkAddsUp(d)
<1>1. pair[d] \in [M!PairKeys -> Counts]
  BY DEF MInv, CountersTyped
<1>2. ASSUME NEW n \in LinkNames PROVE LinkTotal(d, n) \in Int
  <2>1. pair[d][M!Own("connection", n)] \in Counts
    BY <1>1, OwnKeys
  <2> QED BY <2>1 DEF Counts, LinkTotal
<1> QED BY <1>1, <1>2, KeysAre DEF MInv, CountersTyped, LinksAddUp, LinkTotal

\* One of the link's counters is bumped.
LEMMA LinkBumped ==
  ASSUME MInv, NEW d \in Devices, NEW name \in LinkNames, NEW n \in Int,
         pair' = M!Bumped(d, M!Own("connection", name), n)
  PROVE  \E q : /\ Moved(pair[d], q) /\ pair' = [pair EXCEPT ![d] = q]
                /\ \A m \in LinkNames :
                     /\ LinkTotal(d, m)' = q[M!Own("connection", m)].total
                     /\ LinkTotal(d, m)' = LinkTotal(d, m) + (IF m = name THEN n ELSE 0)
<1> DEFINE q == [pair[d] EXCEPT ![M!Own("connection", name)] = M!Add(@, n)]
<1>1. /\ pair[d] \in [M!PairKeys -> Counts] /\ pair \in [Devices -> [M!PairKeys -> Counts]]
      /\ \A m \in LinkNames : LinkTotal(d, m) \in Int
                              /\ pair[d][M!Own("connection", m)].total = LinkTotal(d, m)
  BY LinkIs
<1>2. M!Own("connection", name) \in M!PairKeys
  BY OwnKeys
<1>3. /\ Moved(pair[d], q)
      /\ q[M!Own("connection", name)].total = pair[d][M!Own("connection", name)].total + n
      /\ \A k \in M!PairKeys : k # M!Own("connection", name) => q[k] = pair[d][k]
  BY <1>1, <1>2, BumpedIs
<1>4. pair' = [pair EXCEPT ![d] = q]
  BY BumpedPair
<1> HIDE DEF q
<1>5. pair'[d] = q
  BY <1>1, <1>4
<1>6. ASSUME NEW m \in LinkNames
      PROVE  /\ LinkTotal(d, m)' = q[M!Own("connection", m)].total
             /\ LinkTotal(d, m)' = LinkTotal(d, m) + (IF m = name THEN n ELSE 0)
  <2>1. LinkTotal(d, m)' = q[M!Own("connection", m)].total
    BY <1>5 DEF LinkTotal
  <2>2. CASE m = name
    BY <1>1, <1>3, <2>1, <2>2
  <2>3. CASE m # name
    <3>1. q[M!Own("connection", m)] = pair[d][M!Own("connection", m)]
      BY <1>3, <2>3, OwnKeys, OwnApart
    <3> QED BY <1>1, <2>1, <2>3, <3>1
  <2> QED BY <2>1, <2>2, <2>3
<1> QED BY <1>3, <1>4, <1>6

\* Other counters count: the link's stay.
LinkKept(p, q) == \A k \in M!PairKeys : k[1][1] = "connection" => q[k] = p[k]

\* A move of other families' pairs leaves the link's counters.
LEMMA OthersCount ==
  ASSUME MInv, NEW d \in Devices, NEW q, Moved(pair[d], q), pair' = [pair EXCEPT ![d] = q],
         LinkKept(pair[d], q)
  PROVE  \A m \in LinkNames : /\ LinkTotal(d, m)' = q[M!Own("connection", m)].total
                              /\ LinkTotal(d, m)' = LinkTotal(d, m)
<1>1. pair'[d] = q
  BY LinkIs
<1>2. \A m \in LinkNames : q[M!Own("connection", m)] = pair[d][M!Own("connection", m)]
  BY OwnKeys DEF LinkKept
<1> QED BY <1>1, <1>2 DEF LinkTotal

\* An attempt to connect is one more attempt, and the one under way.
LEMMA AttemptKeeps ==
  ASSUME MInv, NEW d \in Devices, M!Attempt(d)
  PROVE  MInv'
<1>1. /\ link[d] = "idle" /\ M!Idle(d) /\ link' = [link EXCEPT ![d] = "connecting"]
      /\ pair' = M!Bumped(d, M!Own("connection", "connectAttempts"), 1)
      /\ UNCHANGED <<stats, bumps, lost, ever, parsed, previous, seen, plan, rows, handed>>
  BY DEF M!Attempt, M!agentVars, M!baseVars, M!outVars
<1>2. PICK q : /\ Moved(pair[d], q) /\ pair' = [pair EXCEPT ![d] = q]
               /\ \A m \in LinkNames :
                    /\ LinkTotal(d, m)' = q[M!Own("connection", m)].total
                    /\ LinkTotal(d, m)' = LinkTotal(d, m) + (IF m = "connectAttempts" THEN 1 ELSE 0)
  BY <1>1, LinkBumped DEF LinkNames
<1>3. /\ lost \in [Devices -> Int] /\ ever \in [Devices -> BOOLEAN]
      /\ link \in [Devices -> {"idle", "connecting", "polling", "stopped"}]
      /\ DOMAIN plan = M!Emitters /\ LinkAddsUp(d)
      /\ \A n \in LinkNames : LinkTotal(d, n) \in Int
                              /\ pair[d][M!Own("connection", n)].total = LinkTotal(d, n)
  BY LinkIs
<1>4. link'[d] = "connecting" /\ link' \in [Devices -> {"idle", "connecting", "polling", "stopped"}]
      /\ \A x \in Devices \ {d} : link'[x] = link[x]
  BY <1>1, <1>3
<1>5. LinkAddsUp(d)'
  <2>1. M!Idle(d)' /\ rows'[d] = << >>
    BY <1>1 DEF M!Idle
  <2>2. One(ever[d]) \in {0, 1} /\ One(link[d] = "connecting") = 0 /\ One(link'[d] = "connecting") = 1
        /\ One(link[d] \in {"polling", "stopped"}) = 0 /\ One(link'[d] \in {"polling", "stopped"}) = 0
    BY <1>1, <1>4 DEF One
  <2>3. /\ LinkTotal(d, "connectAttempts")' = LinkTotal(d, "connectAttempts") + 1
        /\ LinkTotal(d, "connectFailures")' = LinkTotal(d, "connectFailures")
        /\ LinkTotal(d, "reconnectAttempts")' = LinkTotal(d, "reconnectAttempts")
        /\ LinkTotal(d, "connectionDrops")' = LinkTotal(d, "connectionDrops")
    BY <1>2, <1>3 DEF LinkNames
  <2>4. LinkTotalsAddUp(d)'
    BY <1>1, <1>3, <2>2, <2>3 DEF LinkAddsUp, LinkTotalsAddUp, LinkNames
  <2> QED BY <1>4, <2>1, <2>4 DEF LinkAddsUp
<1>6. q[M!Own("connection", "connectionDrops")].total
        - pair[d][M!Own("connection", "connectionDrops")].total = lost'[d] - lost[d]
  BY <1>1, <1>2, <1>3 DEF LinkNames
<1> QED BY <1>1, <1>2, <1>3, <1>4, <1>5, <1>6, DeviceCounts

\* A link established is the first, or one more reconnect; the emission that
\* follows is planned, and nothing is on its way yet.
LEMMA ConnectedKeeps ==
  ASSUME MInv, NEW d \in Devices, M!Connected(d)
  PROVE  MInv'
<1> DEFINE n == IF ever[d] THEN 1 ELSE 0
<1>1. /\ link[d] = "connecting" /\ link' = [link EXCEPT ![d] = "polling"]
      /\ pair' = M!Bumped(d, M!Own("connection", "reconnectAttempts"), n)
      /\ ever' = [ever EXCEPT ![d] = TRUE] /\ plan' = [plan EXCEPT ![d] = M!Transition]
      /\ UNCHANGED <<stats, bumps, lost, parsed, previous, seen, rows, handed>>
  BY DEF M!Connected, M!agentVars, M!baseVars
<1>2. PICK q : /\ Moved(pair[d], q) /\ pair' = [pair EXCEPT ![d] = q]
               /\ \A m \in LinkNames :
                    /\ LinkTotal(d, m)' = q[M!Own("connection", m)].total
                    /\ LinkTotal(d, m)' = LinkTotal(d, m) + (IF m = "reconnectAttempts" THEN n ELSE 0)
  <2>1. n \in Int /\ "reconnectAttempts" \in LinkNames
    BY DEF LinkNames
  <2> HIDE DEF n
  <2> QED BY <1>1, <2>1, LinkBumped
<1>3. /\ lost \in [Devices -> Int] /\ ever \in [Devices -> BOOLEAN]
      /\ link \in [Devices -> {"idle", "connecting", "polling", "stopped"}]
      /\ DOMAIN plan = M!Emitters /\ LinkAddsUp(d) /\ d \in M!Emitters
      /\ \A m \in LinkNames : LinkTotal(d, m) \in Int
                              /\ pair[d][M!Own("connection", m)].total = LinkTotal(d, m)
  BY LinkIs
<1>4. /\ link'[d] = "polling" /\ link' \in [Devices -> {"idle", "connecting", "polling", "stopped"}]
      /\ \A x \in Devices \ {d} : link'[x] = link[x] /\ ever'[x] = ever[x] /\ plan'[x] = plan[x]
      /\ ever'[d] = TRUE /\ ever' \in [Devices -> BOOLEAN] /\ DOMAIN plan' = M!Emitters
  BY <1>1, <1>3
<1>5. LinkAddsUp(d)'
  <2>1. rows'[d] = << >>
    BY <1>1, <1>3 DEF LinkAddsUp, M!Idle
  <2>2. One(ever[d]) = n /\ n \in {0, 1} /\ One(ever'[d]) = 1
        /\ One(link[d] = "connecting") = 1 /\ One(link'[d] = "connecting") = 0
        /\ One(link[d] \in {"polling", "stopped"}) = 0 /\ One(link'[d] \in {"polling", "stopped"}) = 1
    BY <1>1, <1>3, <1>4 DEF One
  <2> HIDE DEF n
  <2>3. /\ LinkTotal(d, "connectAttempts")' = LinkTotal(d, "connectAttempts")
        /\ LinkTotal(d, "connectFailures")' = LinkTotal(d, "connectFailures")
        /\ LinkTotal(d, "reconnectAttempts")' = LinkTotal(d, "reconnectAttempts") + n
        /\ LinkTotal(d, "connectionDrops")' = LinkTotal(d, "connectionDrops")
    BY <1>2, <1>3 DEF LinkNames
  <2>4. LinkTotalsAddUp(d)'
    BY <1>3, <2>2, <2>3 DEF LinkAddsUp, LinkTotalsAddUp, LinkNames
  <2> QED BY <1>4, <2>1, <2>4 DEF LinkAddsUp
<1>6. q[M!Own("connection", "connectionDrops")].total
        - pair[d][M!Own("connection", "connectionDrops")].total = lost'[d] - lost[d]
  BY <1>1, <1>2, <1>3 DEF LinkNames
<1> QED BY <1>1, <1>2, <1>3, <1>4, <1>5, <1>6, DeviceCounts

\* An attempt that fails is one more failure, and no longer under way.
LEMMA ConnectFailedKeeps ==
  ASSUME MInv, NEW d \in Devices, M!ConnectFailed(d)
  PROVE  MInv'
<1>1. /\ link[d] = "connecting" /\ link' = [link EXCEPT ![d] = "idle"]
      /\ pair' = M!Bumped(d, M!Own("connection", "connectFailures"), 1)
      /\ UNCHANGED <<stats, bumps, lost, ever, parsed, previous, seen, plan, rows, handed>>
  BY DEF M!ConnectFailed, M!agentVars, M!baseVars, M!outVars
<1>2. PICK q : /\ Moved(pair[d], q) /\ pair' = [pair EXCEPT ![d] = q]
               /\ \A m \in LinkNames :
                    /\ LinkTotal(d, m)' = q[M!Own("connection", m)].total
                    /\ LinkTotal(d, m)' = LinkTotal(d, m) + (IF m = "connectFailures" THEN 1 ELSE 0)
  BY <1>1, LinkBumped DEF LinkNames
<1>3. /\ lost \in [Devices -> Int] /\ ever \in [Devices -> BOOLEAN]
      /\ link \in [Devices -> {"idle", "connecting", "polling", "stopped"}]
      /\ DOMAIN plan = M!Emitters /\ LinkAddsUp(d)
      /\ \A n \in LinkNames : LinkTotal(d, n) \in Int
                              /\ pair[d][M!Own("connection", n)].total = LinkTotal(d, n)
  BY LinkIs
<1>4. link'[d] = "idle" /\ link' \in [Devices -> {"idle", "connecting", "polling", "stopped"}]
      /\ \A x \in Devices \ {d} : link'[x] = link[x]
  BY <1>1, <1>3
<1>5. LinkAddsUp(d)'
  <2>1. M!Idle(d)' /\ rows'[d] = << >>
    BY <1>1, <1>3 DEF LinkAddsUp, M!Idle
  <2>2. One(ever[d]) \in {0, 1} /\ One(link[d] = "connecting") = 1 /\ One(link'[d] = "connecting") = 0
        /\ One(link[d] \in {"polling", "stopped"}) = 0 /\ One(link'[d] \in {"polling", "stopped"}) = 0
    BY <1>1, <1>4 DEF One
  <2>3. /\ LinkTotal(d, "connectAttempts")' = LinkTotal(d, "connectAttempts")
        /\ LinkTotal(d, "connectFailures")' = LinkTotal(d, "connectFailures") + 1
        /\ LinkTotal(d, "reconnectAttempts")' = LinkTotal(d, "reconnectAttempts")
        /\ LinkTotal(d, "connectionDrops")' = LinkTotal(d, "connectionDrops")
    BY <1>2, <1>3 DEF LinkNames
  <2>4. LinkTotalsAddUp(d)'
    BY <1>1, <1>3, <2>2, <2>3 DEF LinkAddsUp, LinkTotalsAddUp, LinkNames
  <2> QED BY <1>4, <2>1, <2>4 DEF LinkAddsUp
<1>6. q[M!Own("connection", "connectionDrops")].total
        - pair[d][M!Own("connection", "connectionDrops")].total = lost'[d] - lost[d]
  BY <1>1, <1>2, <1>3 DEF LinkNames
<1> QED BY <1>1, <1>2, <1>3, <1>4, <1>5, <1>6, DeviceCounts

\* What is recorded while the link rests: what the shaper did, and commands.
LEMMA CountKeeps ==
  ASSUME MInv, NEW d \in Devices, NEW q, Moved(pair[d], q), pair' = [pair EXCEPT ![d] = q],
         LinkKept(pair[d], q),
         UNCHANGED <<stats, bumps, lost, ever, parsed, previous, seen, plan, rows, handed>>,
         \/ link' = link
         \/ link[d] = "polling" /\ M!Idle(d) /\ link' = [link EXCEPT ![d] = "stopped"]
  PROVE  MInv'
<1>2. \A m \in LinkNames : /\ LinkTotal(d, m)' = q[M!Own("connection", m)].total
                           /\ LinkTotal(d, m)' = LinkTotal(d, m)
  BY OthersCount
<1>3. /\ lost \in [Devices -> Int] /\ ever \in [Devices -> BOOLEAN]
      /\ link \in [Devices -> {"idle", "connecting", "polling", "stopped"}]
      /\ DOMAIN plan = M!Emitters /\ LinkAddsUp(d)
      /\ \A n \in LinkNames : LinkTotal(d, n) \in Int
                              /\ pair[d][M!Own("connection", n)].total = LinkTotal(d, n)
  BY LinkIs
<1>4. link' \in [Devices -> {"idle", "connecting", "polling", "stopped"}]
      /\ \A x \in Devices \ {d} : link'[x] = link[x]
  BY <1>3
<1>5. LinkAddsUp(d)'
  <2>1. CASE link' = link
    BY <2>1, <1>2, <1>3, LinkStays
  <2>2. CASE link[d] = "polling" /\ M!Idle(d) /\ link' = [link EXCEPT ![d] = "stopped"]
    <3>1. M!Idle(d)' /\ rows'[d] = << >> /\ link'[d] = "stopped"
      BY <1>3, <2>2 DEF M!Idle
    <3>2. One(link'[d] = "connecting") = One(link[d] = "connecting")
          /\ One(link'[d] \in {"polling", "stopped"}) = One(link[d] \in {"polling", "stopped"})
      BY <2>2, <3>1 DEF One
    <3>3. ever'[d]
      BY <1>3, <2>2 DEF LinkAddsUp
    <3>4. LinkTotalsAddUp(d)'
      BY <1>2, <1>3, <3>2 DEF LinkAddsUp, LinkTotalsAddUp, LinkNames
    <3> QED BY <3>1, <3>3, <3>4 DEF LinkAddsUp
  <2> QED BY <2>1, <2>2
<1>6. q[M!Own("connection", "connectionDrops")].total
        - pair[d][M!Own("connection", "connectionDrops")].total = lost'[d] - lost[d]
  BY <1>2, <1>3 DEF LinkNames
<1> QED BY <1>3, <1>4, <1>5, <1>6, DeviceCounts

\* A tick, the flush of a stop and a command leave the link's counters.
LEMMA TickKeeps ==
  ASSUME MInv, NEW d \in Devices, M!Tick(d) \/ M!Stopped(d) \/ M!Command(d)
  PROVE  MInv'
<1>0. pair[d] \in [M!PairKeys -> Counts]
  BY LinkIs
<1>1. CASE M!Tick(d)
  <2>1. PICK c \in M!Shapings : pair' = [pair EXCEPT ![d] = M!Shaped(@, c)]
    BY <1>1 DEF M!Tick
  <2>2. UNCHANGED <<stats, bumps, lost, ever, link, parsed, previous, seen, plan, rows, handed>>
    BY <1>1 DEF M!Tick, M!agentVars, M!baseVars, M!outVars
  <2> DEFINE q == M!Shaped(pair[d], c)
  <2>3. Moved(pair[d], q) /\ \A k \in M!PairKeys : k[1][1] # "shaping" => q[k] = pair[d][k]
    BY <1>0, CountsAre, ShapedIs
  <2>4. pair' = [pair EXCEPT ![d] = q]
    BY <2>1
  <2> HIDE DEF q
  <2>5. PICK p : /\ Moved(pair[d], p) /\ pair' = [pair EXCEPT ![d] = p]
                 /\ LinkKept(pair[d], p)
    BY <2>3, <2>4 DEF LinkKept
  <2>6. \/ link' = link
        \/ link[d] = "polling" /\ M!Idle(d) /\ link' = [link EXCEPT ![d] = "stopped"]
    BY <2>2
  <2> QED BY <2>2, <2>5, <2>6, CountKeeps
<1>2. CASE M!Stopped(d)
  <2>1. PICK c \in M!Flushes : pair' = [pair EXCEPT ![d] = M!Shaped(@, c)]
    BY <1>2 DEF M!Stopped
  <2>2. /\ UNCHANGED <<stats, bumps, lost, ever, parsed, previous, seen, plan, rows, handed>>
        /\ link[d] = "polling" /\ M!Idle(d) /\ link' = [link EXCEPT ![d] = "stopped"]
    BY <1>2 DEF M!Stopped, M!agentVars, M!baseVars, M!outVars
  <2> DEFINE q == M!Shaped(pair[d], c)
  <2>3. Moved(pair[d], q) /\ \A k \in M!PairKeys : k[1][1] # "shaping" => q[k] = pair[d][k]
    BY <1>0, CountsAre, ShapedIs
  <2>4. pair' = [pair EXCEPT ![d] = q]
    BY <2>1
  <2> HIDE DEF q
  <2>5. PICK p : /\ Moved(pair[d], p) /\ pair' = [pair EXCEPT ![d] = p]
                 /\ LinkKept(pair[d], p)
    BY <2>3, <2>4 DEF LinkKept
  <2>6. \/ link' = link
        \/ link[d] = "polling" /\ M!Idle(d) /\ link' = [link EXCEPT ![d] = "stopped"]
    BY <2>2
  <2> QED BY <2>2, <2>5, <2>6, CountKeeps
<1>3. CASE M!Command(d)
  <2>1. PICK v \in M!Verbs, r \in M!Results : pair' = [pair EXCEPT ![d] = M!Recorded(@, v, r)]
    BY <1>3 DEF M!Command
  <2>2. UNCHANGED <<stats, bumps, lost, ever, link, parsed, previous, seen, plan, rows, handed>>
    BY <1>3 DEF M!Command, M!agentVars, M!baseVars, M!outVars
  <2> DEFINE q == M!Recorded(pair[d], v, r)
  <2>3. Moved(pair[d], q) /\ \A k \in M!PairKeys : k[1][1] # "command" => q[k] = pair[d][k]
    BY <1>0, RecordedIs
  <2>4. pair' = [pair EXCEPT ![d] = q]
    BY <2>1
  <2> HIDE DEF q
  <2>5. PICK p : /\ Moved(pair[d], p) /\ pair' = [pair EXCEPT ![d] = p]
                 /\ LinkKept(pair[d], p)
    BY <2>3, <2>4 DEF LinkKept
  <2>6. \/ link' = link
        \/ link[d] = "polling" /\ M!Idle(d) /\ link' = [link EXCEPT ![d] = "stopped"]
    BY <2>2
  <2> QED BY <2>2, <2>5, <2>6, CountKeeps
<1> QED BY <1>1, <1>2, <1>3

\* A lost link is one more drop, counted by the link's pair and by the health
\* counter in one step.
LEMMA DroppedKeeps ==
  ASSUME MInv, NEW d \in Devices, M!Dropped(d)
  PROVE  MInv'
<1> DEFINE drops == M!Own("connection", "connectionDrops")
<1>0. pair[d] \in [M!PairKeys -> Counts] /\ drops \in M!PairKeys /\ drops[1][1] = "connection"
  BY LinkIs, OwnKeys DEF LinkNames
<1>1. PICK c \in M!Flushes :
        pair' = [pair EXCEPT ![d] = [M!Shaped(pair[d], c) EXCEPT ![drops] = M!Add(@, 1)]]
  BY DEF M!Dropped
<1>2. /\ link[d] = "polling" /\ M!Idle(d) /\ link' = [link EXCEPT ![d] = "idle"]
      /\ lost' = [lost EXCEPT ![d] = @ + 1] /\ plan' = [plan EXCEPT ![d] = M!Transition]
      /\ UNCHANGED <<stats, bumps, ever, parsed, previous, seen, rows, handed>>
  BY DEF M!Dropped, M!agentVars, M!baseVars
<1> DEFINE r == M!Shaped(pair[d], c)
           q == [r EXCEPT ![drops] = M!Add(r[drops], 1)]
<1>3. Moved(pair[d], r) /\ \A k \in M!PairKeys : k[1][1] # "shaping" => r[k] = pair[d][k]
  BY <1>0, CountsAre, ShapedIs
<1>4. pair' = [pair EXCEPT ![d] = q]
  <2>1. pair' = [pair EXCEPT ![d] = [r EXCEPT ![drops] = M!Add(@, 1)]]
    BY <1>1
  <2> HIDE DEF r, drops
  <2> QED BY <2>1
<1> HIDE DEF r
<1>5. r \in [M!PairKeys -> Counts]
  BY <1>3 DEF Moved
<1>6. /\ Moved(r, q) /\ q[drops].total = r[drops].total + 1
      /\ \A k \in M!PairKeys : k # drops => q[k] = r[k]
  <2>1. PICK n \in Int : n = 1
    OBVIOUS
  <2>2. q = [r EXCEPT ![drops] = M!Add(@, n)]
    BY <2>1
  <2> HIDE DEF q, drops
  <2>3. /\ Moved(r, q) /\ q[drops].total = r[drops].total + n
        /\ \A k \in M!PairKeys : k # drops => q[k] = r[k]
    BY <1>0, <1>5, <2>2, BumpedIs
  <2> QED BY <2>1, <2>3
<1> HIDE DEF q
<1>7. Moved(pair[d], q)
  BY <1>3, <1>6, MovedTwice
<1>8. /\ lost \in [Devices -> Int] /\ ever \in [Devices -> BOOLEAN]
      /\ link \in [Devices -> {"idle", "connecting", "polling", "stopped"}]
      /\ DOMAIN plan = M!Emitters /\ LinkAddsUp(d) /\ d \in M!Emitters
      /\ pair \in [Devices -> [M!PairKeys -> Counts]]
      /\ \A n \in LinkNames : LinkTotal(d, n) \in Int
                              /\ pair[d][M!Own("connection", n)].total = LinkTotal(d, n)
  BY LinkIs
<1>9. /\ link'[d] = "idle" /\ link' \in [Devices -> {"idle", "connecting", "polling", "stopped"}]
      /\ \A x \in Devices \ {d} : link'[x] = link[x] /\ lost'[x] = lost[x] /\ plan'[x] = plan[x]
      /\ lost'[d] = lost[d] + 1 /\ lost' \in [Devices -> Int] /\ DOMAIN plan' = M!Emitters
  BY <1>2, <1>8
<1>10. q[drops].total = pair[d][drops].total + 1 /\ pair[d][drops].total \in Int
  BY <1>0, <1>3, <1>6, <1>8 DEF LinkNames
<1>11. \A n \in LinkNames : LinkTotal(d, n)' = IF n = "connectionDrops" THEN LinkTotal(d, n) + 1
                                               ELSE LinkTotal(d, n)
  <2> SUFFICES ASSUME NEW n \in LinkNames
               PROVE  LinkTotal(d, n)' = IF n = "connectionDrops" THEN LinkTotal(d, n) + 1
                                         ELSE LinkTotal(d, n)
    OBVIOUS
  <2>1. LinkTotal(d, n)' = q[M!Own("connection", n)].total
    BY <1>4, <1>8 DEF LinkTotal
  <2>2. CASE n = "connectionDrops"
    BY <1>8, <1>10, <2>1, <2>2
  <2>3. CASE n # "connectionDrops"
    <3>1. M!Own("connection", n) \in M!PairKeys /\ M!Own("connection", n) # drops
          /\ M!Own("connection", n)[1][1] = "connection"
      BY <2>3, OwnKeys, OwnApart DEF LinkNames
    <3>2. q[M!Own("connection", n)] = pair[d][M!Own("connection", n)]
      BY <1>3, <1>6, <3>1
    <3> QED BY <1>8, <2>1, <2>3, <3>2
  <2> QED BY <2>2, <2>3
<1>12. LinkAddsUp(d)'
  <2>1. rows'[d] = << >> /\ ever'[d] /\ ever[d]
    BY <1>2, <1>8 DEF LinkAddsUp, M!Idle
  <2>2. One(ever'[d]) = 1 /\ One(ever[d]) = 1
        /\ One(link[d] = "connecting") = 0 /\ One(link'[d] = "connecting") = 0
        /\ One(link[d] \in {"polling", "stopped"}) = 1 /\ One(link'[d] \in {"polling", "stopped"}) = 0
    BY <1>2, <1>9, <2>1 DEF One
  <2>3. /\ LinkTotal(d, "connectAttempts")' = LinkTotal(d, "connectAttempts")
        /\ LinkTotal(d, "connectFailures")' = LinkTotal(d, "connectFailures")
        /\ LinkTotal(d, "reconnectAttempts")' = LinkTotal(d, "reconnectAttempts")
        /\ LinkTotal(d, "connectionDrops")' = LinkTotal(d, "connectionDrops") + 1
    BY <1>11 DEF LinkNames
  <2>4. LinkTotalsAddUp(d)'
    BY <1>8, <2>2, <2>3 DEF LinkAddsUp, LinkTotalsAddUp, LinkNames
  <2> QED BY <1>9, <2>1, <2>4 DEF LinkAddsUp
<1>13. q[drops].total - pair[d][drops].total = lost'[d] - lost[d]
  BY <1>8, <1>9, <1>10
<1> QED BY <1>2, <1>4, <1>7, <1>8, <1>9, <1>12, <1>13, DeviceCounts

\* An emission begins, or a metric is defined: no count moves.
LEMMA EmissionKeeps ==
  ASSUME MInv, NEW d \in Devices, M!Emission(d)
  PROVE  MInv'
<1>1. /\ link[d] = "polling" /\ M!Idle(d) /\ plan' = [plan EXCEPT ![d] = M!Periodic]
      /\ UNCHANGED <<stats, bumps, pair, lost, ever, link, parsed, previous, seen, rows, handed>>
  BY DEF M!Emission, M!agentVars, M!baseVars, M!deviceVars
<1>2. /\ RowsTyped' /\ TotalsAddUp' /\ \A e, k : M!Reported(e, k)' = M!Reported(e, k)
  BY <1>1, RowsStay DEF MInv
<1>3. PairsAddUp' /\ ParseAddsUp' /\ AgentAddsUp'
  BY <1>1, <1>2, SumsStay DEF MInv
<1>4. DOMAIN plan = M!Emitters
  BY DEF MInv, CountersTyped
<1>5. CountersTyped'
  BY <1>1 DEF MInv, CountersTyped
<1>6. LinkAddsUp(d)'
  <2>1. LinkAddsUp(d) /\ rows'[d] = << >>
    BY <1>1, LinkIs DEF M!Idle
  <2>2. \A n : LinkTotal(d, n)' = LinkTotal(d, n)
    BY <1>1 DEF LinkTotal
  <2>3. ever'[d] /\ link'[d] = "polling"
    BY <1>1, <2>1 DEF LinkAddsUp
  <2>4. LinkTotalsAddUp(d)'
    BY <1>1, <2>1, <2>2 DEF LinkAddsUp, LinkTotalsAddUp
  <2> QED BY <1>1, <2>1, <2>2, <2>3, <2>4 DEF LinkAddsUp
<1>7. ASSUME NEW x \in Devices, x # d PROVE LinkAddsUp(x)'
  <2>1. LinkAddsUp(x) /\ plan'[x] = plan[x]
    BY <1>1, <1>4, <1>7, LinkIs
  <2>2. \A n \in LinkNames : LinkTotal(x, n)' = LinkTotal(x, n)
    BY <1>1 DEF LinkTotal
  <2> QED BY <1>1, <2>1, <2>2, LinkStays
<1> QED BY <1>2, <1>3, <1>5, <1>6, <1>7 DEF MInv, LinksAddUp

\* Defining a metric changes neither counters nor rows.
LEMMA DefineKeeps ==
  ASSUME MInv, NEW e \in M!Emitters, M!Define(e)
  PROVE  MInv'
<1>1. UNCHANGED <<stats, bumps, pair, lost, ever, link, parsed, previous, seen, plan, rows, handed>>
  BY DEF M!Define, M!agentVars, M!baseVars, M!deviceVars
<1>2. /\ RowsTyped' /\ TotalsAddUp' /\ \A x, k : M!Reported(x, k)' = M!Reported(x, k)
  BY <1>1, RowsStay DEF MInv
<1>3. PairsAddUp' /\ ParseAddsUp' /\ AgentAddsUp'
  BY <1>1, <1>2, SumsStay DEF MInv
<1>4. CountersTyped'
  BY <1>1 DEF MInv, CountersTyped
<1>5. LinksAddUp'
  BY <1>1, LinkStays DEF MInv, LinksAddUp, LinkTotal
<1> QED BY <1>2, <1>3, <1>4, <1>5 DEF MInv

\* A row is handed over.
LEMMA EmitKeepsAll ==
  ASSUME MInv, NEW e \in M!Emitters, M!Emit(e)
  PROVE  MInv'
<1>1. UNCHANGED <<stats, bumps, pair, lost, ever, link, parsed, previous, seen, plan>>
  BY DEF M!Emit, M!agentVars, M!baseVars, M!deviceVars
<1>2. /\ RowsTyped' /\ TotalsAddUp'
      /\ \A x \in M!Emitters : \A k \in M!Keys(x) : M!Reported(x, k)' = M!Reported(x, k)
      /\ \A x \in M!Emitters : \A i \in DOMAIN rows'[x] :
           \E j \in DOMAIN rows[x] : rows'[x][i] = rows[x][j]
      /\ \A x \in M!Emitters : rows[x] = << >> => rows'[x] = << >>
  BY EmitKeeps DEF MInv
<1>3. PairsAddUp' /\ ParseAddsUp' /\ AgentAddsUp'
  BY <1>1, <1>2, KeysAre, SumsStay DEF MInv
<1>4. CountersTyped'
  BY <1>1 DEF MInv, CountersTyped
<1>5. ASSUME NEW d \in Devices PROVE LinkAddsUp(d)'
  <2>1. LinkAddsUp(d) /\ d \in M!Emitters
    BY LinkIs
  <2>2. \A n : LinkTotal(d, n)' = LinkTotal(d, n)
    BY <1>1 DEF LinkTotal
  <2>3. LinkTotalsAddUp(d)'
    BY <1>1, <2>1, <2>2 DEF LinkAddsUp, LinkTotalsAddUp
  <2>4. M!Idle(d) => M!Idle(d)'
    BY <1>1, <1>2, <2>1 DEF M!Idle
  <2>5. ASSUME NEW i \in DOMAIN rows'[d], rows'[d][i].cell[1] = "connection",
               NEW n \in M!Measures("connection")
        PROVE  rows'[d][i].values[n].total = LinkTotal(d, n)'
    <3>1. PICK j \in DOMAIN rows[d] : rows'[d][i] = rows[d][j]
      BY <1>2, <2>1
    <3> QED BY <2>1, <2>2, <2>5, <3>1 DEF LinkAddsUp
  <2> QED BY <1>1, <2>1, <2>3, <2>4, <2>5 DEF LinkAddsUp
<1> QED BY <1>2, <1>3, <1>4, <1>5 DEF MInv, LinksAddUp

\* The agent's snapshot is loaded, counter by counter.
LEMMA LoadKeeps ==
  ASSUME MInv, M!Load
  PROVE  MInv'
<1>1. /\ UNCHANGED <<stats, bumps, pair, lost, ever, link, parsed, previous, plan, rows, handed>>
      /\ rows[Agent] = << >> /\ Len(seen) < Len(M!StatOrder)
      /\ seen' = Append(seen, stats[M!StatOrder[Len(seen) + 1]])
  BY DEF M!Load, M!Idle, M!agentVars, M!outVars, M!deviceVars
<1>2. /\ RowsTyped' /\ TotalsAddUp' /\ \A e, k : M!Reported(e, k)' = M!Reported(e, k)
  BY <1>1, RowsStay DEF MInv
<1>3. PairsAddUp' /\ ParseAddsUp'
  BY <1>1, <1>2 DEF MInv, PairsAddUp, ParseAddsUp
<1>4. CountersTyped'
  BY <1>1 DEF MInv, CountersTyped
<1>5. AgentAddsUp'
  <2>1. /\ seen \in Seq(Int) /\ Len(seen) \in Nat
        /\ \A i \in 1..Len(seen) : seen[i] <= stats[M!StatOrder[i]]
        /\ \A k \in M!AgentSeries :
             previous[k[2]] = M!Reported(Agent, k) /\ previous[k[2]] <= stats[k[2]]
    BY DEF MInv, AgentAddsUp
  <2>2. Len(M!StatOrder) = 10
    BY DEF M!StatOrder
  <2>3. M!StatOrder[Len(seen) + 1] \in M!StatNames
    <3>1. Len(seen) + 1 \in DOMAIN M!StatOrder
      BY <1>1, <2>1 DEF M!StatOrder
    <3> QED BY <3>1 DEF M!StatNames, M!Range
  <2>4. stats[M!StatOrder[Len(seen) + 1]] \in Int
    BY <2>3 DEF MInv, CountersTyped
  <2>5. /\ seen' \in Seq(Int) /\ Len(seen') = Len(seen) + 1
        /\ \A i \in 1..Len(seen) : seen'[i] = seen[i]
        /\ seen'[Len(seen) + 1] = stats[M!StatOrder[Len(seen) + 1]]
    BY <1>1, <2>1, <2>4
  <2>6. \A i \in 1..Len(seen') : seen'[i] <= stats[M!StatOrder[i]]
    <3> SUFFICES ASSUME NEW i \in 1..Len(seen') PROVE seen'[i] <= stats[M!StatOrder[i]]
      OBVIOUS
    <3>1. CASE i = Len(seen) + 1
      BY <2>4, <2>5, <3>1
    <3>2. CASE i # Len(seen) + 1
      <4>1. i \in 1..Len(seen)
        BY <2>1, <2>5, <3>2
      <4> QED BY <2>1, <2>5, <4>1
    <3> QED BY <3>1, <3>2
  <2>7. Len(seen') <= Len(M!StatOrder)
    BY <1>1, <2>1, <2>2, <2>5
  <2> QED BY <1>1, <1>2, <2>1, <2>5, <2>6, <2>7 DEF AgentAddsUp
<1>6. LinksAddUp'
  BY <1>1, LinkStays DEF MInv, LinksAddUp, LinkTotal
<1> QED BY <1>2, <1>3, <1>4, <1>5, <1>6 DEF MInv

\* The snapshot becomes the baseline, and its differences the agent's rows.
LEMMA RebaseKeeps ==
  ASSUME MInv, M!Rebase
  PROVE  MInv'
<1> DEFINE total == [n \in M!StatNames |->
                       seen[CHOOSE i \in DOMAIN M!StatOrder : M!StatOrder[i] = n]]
           s == M!AgentRows(total, previous)
<1>1. /\ UNCHANGED <<stats, bumps, pair, lost, ever, link, parsed, plan, handed>>
      /\ Len(seen) = Len(M!StatOrder) /\ seen' = << >>
      /\ rows' = [rows EXCEPT ![Agent] = s] /\ previous' = total
  BY DEF M!Rebase, M!agentVars, M!deviceVars
<1>2. /\ seen \in Seq(Int) /\ \A i \in 1..Len(seen) : seen[i] <= stats[M!StatOrder[i]]
      /\ (seen # << >> => rows[Agent] = << >>)
      /\ \A k \in M!AgentSeries : previous[k[2]] = M!Reported(Agent, k)
  BY DEF MInv, AgentAddsUp
<1>3. Len(M!StatOrder) = 10 /\ DOMAIN M!StatOrder = 1..10
  BY DEF M!StatOrder
<1>4. rows[Agent] = << >>
  <2>1. Len(seen) = 10
    BY <1>1, <1>3
  <2>2. seen # << >>
    BY <2>1
  <2> QED BY <1>2, <2>2
<1>5. ASSUME NEW n \in M!StatNames PROVE total[n] \in Int /\ total[n] <= stats[n]
  <2> DEFINE at == CHOOSE i \in DOMAIN M!StatOrder : M!StatOrder[i] = n
  <2>1. \E i \in DOMAIN M!StatOrder : M!StatOrder[i] = n
    BY DEF M!StatNames, M!Range
  <2>2. at \in DOMAIN M!StatOrder /\ M!StatOrder[at] = n
    BY <2>1
  <2>3. total[n] = seen[at]
    OBVIOUS
  <2> HIDE DEF at, total
  <2>4. at \in 1..Len(seen)
    BY <1>1, <1>3, <2>2
  <2> QED BY <1>2, <2>2, <2>3, <2>4
<1>6. total \in [M!StatNames -> Int] /\ previous \in [M!StatNames -> Int]
  <2>1. DOMAIN total = M!StatNames /\ total = [n \in M!StatNames |-> total[n]]
    OBVIOUS
  <2> HIDE DEF total
  <2> QED BY <1>5, <2>1 DEF MInv, CountersTyped
<1> HIDE DEF total
<1>7. /\ s \in Seq(RowsOf(Agent)) /\ Apart(s)
      /\ \A i \in DOMAIN s : \A n \in DOMAIN s[i].values :
           /\ <<s[i].cell, n>> \in M!AgentSeries
           /\ s[i].values[n] = [total |-> total[n], interval |-> total[n] - previous[n]]
      /\ \A k \in M!AgentSeries : Flight(s, k) = total[k[2]] - previous[k[2]]
  BY <1>6, AgentRowsAre
<1> HIDE DEF s
<1>a. PICK t \in Seq(RowsOf(Agent)) : t = s
  BY <1>7
<1>8. /\ Agent \in M!Emitters /\ handed[Agent] \in [M!Keys(Agent) -> Int]
      /\ M!AgentSeries \subseteq M!Keys(Agent)
      /\ \A k \in M!AgentSeries : k[2] \in M!StatNames
  BY KeysAre, SeriesAreKeys DEF MInv, RowsTyped
<1>9. \A k \in M!AgentSeries : previous[k[2]] = handed[Agent][k]
  <2> SUFFICES ASSUME NEW k \in M!AgentSeries PROVE previous[k[2]] = handed[Agent][k]
    OBVIOUS
  <2>1. handed[Agent][k] \in Int
    BY <1>8
  <2>2. M!Reported(Agent, k) = handed[Agent][k] + 0
    BY <1>4, ReportedIs, NothingCarried
  <2> QED BY <1>2, <2>1, <2>2
<1>10. TotalsMatch(s, handed[Agent])
  <2> SUFFICES ASSUME NEW i \in DOMAIN s, NEW n \in DOMAIN s[i].values
               PROVE  s[i].values[n].total = handed[Agent][<<s[i].cell, n>>] + s[i].values[n].interval
    BY DEF TotalsMatch
  <2> DEFINE k == <<s[i].cell, n>>
  <2>1. k \in M!AgentSeries /\ k[2] = n
        /\ s[i].values[n] = [total |-> total[n], interval |-> total[n] - previous[n]]
    BY <1>7
  <2>2. n \in M!StatNames /\ previous[n] = handed[Agent][k]
    BY <1>8, <1>9, <2>1
  <2>3. total[n] \in Int /\ previous[n] \in Int
    BY <1>6, <2>2
  <2> HIDE DEF k
  <2>4. total[n] = handed[Agent][k] + (total[n] - previous[n])
    BY <2>2, <2>3
  <2> QED BY <2>1, <2>4 DEF k
<1>11. /\ RowsTyped' /\ TotalsAddUp'
       /\ \A x \in M!Emitters : x # Agent => rows'[x] = rows[x]
       /\ \A x \in M!Emitters : \A k : x # Agent => M!Reported(x, k)' = M!Reported(x, k)
       /\ \A k \in M!Keys(Agent) : M!Reported(Agent, k)' = handed[Agent][k] + Flight(s, k)
  <2>1. /\ RowsTyped /\ TotalsAddUp /\ Apart(t) /\ TotalsMatch(t, handed[Agent])
        /\ rows' = [rows EXCEPT ![Agent] = t] /\ handed' = handed
    BY <1>1, <1>7, <1>a, <1>10 DEF MInv
  <2> QED BY <1>4, <1>8, <1>a, <2>1, RowsAppear
<1>12. \A d \in Devices : d # Agent /\ d \in M!Emitters
  BY KeysAre
<1>13. PairsAddUp' /\ ParseAddsUp'
  BY <1>1, <1>11, <1>12 DEF MInv, PairsAddUp, ParseAddsUp
<1>14. AgentAddsUp'
  <2>1. ASSUME NEW k \in M!AgentSeries
        PROVE  previous'[k[2]] = M!Reported(Agent, k)' /\ previous'[k[2]] <= stats'[k[2]]
    <3>1. k \in M!Keys(Agent) /\ k[2] \in M!StatNames
      BY <1>8
    <3>2. total[k[2]] \in Int /\ previous[k[2]] \in Int /\ total[k[2]] <= stats[k[2]]
      BY <1>5, <1>6, <3>1
    <3>3. M!Reported(Agent, k)' = previous[k[2]] + (total[k[2]] - previous[k[2]])
      BY <1>7, <1>9, <1>11, <3>1
    <3> QED BY <1>1, <3>2, <3>3
  <2>2. seen' \in Seq(Int) /\ Len(seen') = 0
    BY <1>1
  <2> QED BY <1>1, <1>3, <2>1, <2>2 DEF AgentAddsUp
<1>15. CountersTyped'
  BY <1>1, <1>6 DEF MInv, CountersTyped
<1>16. LinksAddUp'
  <2> SUFFICES ASSUME NEW d \in Devices PROVE LinkAddsUp(d)'
    BY DEF LinksAddUp
  <2>1. LinkAddsUp(d) /\ rows'[d] = rows[d]
    BY <1>11, <1>12, LinkIs
  <2>2. \A n \in LinkNames : LinkTotal(d, n)' = LinkTotal(d, n)
    BY <1>1 DEF LinkTotal
  <2> QED BY <1>1, <2>1, <2>2, LinkStays
<1> QED BY <1>11, <1>13, <1>14, <1>15, <1>16 DEF MInv

\* The pairs of a family start over.
DrainedPairs(p, f) == [k \in M!PairKeys |-> IF k[1][1] = f THEN M!Drained(p[k]) ELSE p[k]]

\* Draining a family starts its intervals over and keeps its totals.
LEMMA DrainedPairsAre ==
  ASSUME NEW p \in [M!PairKeys -> Counts], NEW f
  PROVE  /\ DrainedPairs(p, f) \in [M!PairKeys -> Counts]
         /\ \A k \in M!PairKeys :
              /\ p[k].total \in Int /\ p[k].interval \in Int
              /\ DrainedPairs(p, f)[k].total = p[k].total
              /\ DrainedPairs(p, f)[k].interval = IF k[1][1] = f THEN 0 ELSE p[k].interval
<1> DEFINE q == DrainedPairs(p, f)
<1>1. q = [k \in M!PairKeys |-> IF k[1][1] = f THEN M!Drained(p[k]) ELSE p[k]]
  BY DEF DrainedPairs
<1> HIDE DEF q
<1>2. ASSUME NEW k \in M!PairKeys
      PROVE  /\ p[k].total \in Int /\ p[k].interval \in Int /\ q[k] \in Counts
             /\ q[k].total = p[k].total
             /\ q[k].interval = IF k[1][1] = f THEN 0 ELSE p[k].interval
  <2>1. p[k] \in Counts
    OBVIOUS
  <2>2. M!Drained(p[k]) \in Counts /\ M!Drained(p[k]).total = p[k].total
        /\ M!Drained(p[k]).interval = 0
    BY <2>1 DEF M!Drained, Counts
  <2>3. q[k] = IF k[1][1] = f THEN M!Drained(p[k]) ELSE p[k]
    BY <1>1
  <2> QED BY <2>1, <2>2, <2>3 DEF Counts
<1>3. q \in [M!PairKeys -> Counts]
  BY <1>1, <1>2
<1> QED BY <1>2, <1>3 DEF q

\* What one instance's sums say.
PairsOf(d) ==
  /\ \A k \in M!PairKeys : pair[d][k].total = M!Reported(d, k) + pair[d][k].interval
  /\ pair[d][M!Own("connection", "connectionDrops")].total = M!Reported(d, M!Reconnects) + lost[d]
ParseOfOne(d) ==
  \A k \in M!ParseSeries : parsed[d][k[2]] = M!Reported(d, k) /\ parsed[d][k[2]] <= stats[k[2]]

\* An instance's rows are drained: whatever its counters then are, the others'
\* sums stand, and its own stand if they do.
LEMMA DrainKeepsIf ==
  ASSUME MInv, NEW d \in Devices, M!Drain(d), NEW s \in Seq(RowsOf(d)), Apart(s),
         TotalsMatch(s, handed[d]), rows' = [rows EXCEPT ![d] = s],
         pair' \in [Devices -> [M!PairKeys -> Counts]], lost' \in [Devices -> Int],
         parsed' \in [Devices -> [M!ParseNames -> Int]],
         \A x \in Devices \ {d} : pair'[x] = pair[x] /\ lost'[x] = lost[x] /\ parsed'[x] = parsed[x],
         \A k \in M!PairKeys : pair'[d][k].total = pair[d][k].total,
         \A i \in DOMAIN s : s[i].cell[1] = "connection" =>
           \A n \in M!Measures("connection") : s[i].values[n].total = LinkTotal(d, n),
         (\A k \in M!Keys(d) : /\ M!Reported(d, k) = handed[d][k] /\ handed[d][k] \in Int
                               /\ M!Reported(d, k)' = handed[d][k] + Flight(s, k)
                               /\ Flight(s, k) \in Int)
           => PairsOf(d)' /\ ParseOfOne(d)'
  PROVE  MInv'
<1>1. /\ rows[d] = << >> /\ plan[d] # << >> /\ plan' = [plan EXCEPT ![d] = Tail(@)]
      /\ UNCHANGED <<stats, bumps, ever, link, previous, seen, handed>>
  BY DEF M!Drain, M!agentVars
<1>2. d # Agent /\ d \in M!Emitters /\ Agent \in M!Emitters
  BY KeysAre
<1>3. /\ RowsTyped' /\ TotalsAddUp' /\ rows'[d] = s
      /\ \A x \in M!Emitters : x # d => rows'[x] = rows[x]
      /\ \A x \in M!Emitters : \A k : x # d => M!Reported(x, k)' = M!Reported(x, k)
      /\ \A k \in M!Keys(d) : /\ M!Reported(d, k) = handed[d][k] /\ handed[d][k] \in Int
                              /\ M!Reported(d, k)' = handed[d][k] + Flight(s, k)
                              /\ Flight(s, k) \in Int
  BY <1>1, <1>2, RowsAppear DEF MInv
<1>4. PairsOf(d)' /\ ParseOfOne(d)'
  BY <1>3
<1>5. PairsAddUp' /\ ParseAddsUp'
  <2> SUFFICES ASSUME NEW x \in Devices, x # d PROVE PairsOf(x)' /\ ParseOfOne(x)'
    BY <1>4 DEF PairsAddUp, ParseAddsUp, PairsOf, ParseOfOne
  <2>1. PairsOf(x) /\ ParseOfOne(x) /\ x \in M!Emitters
    BY KeysAre DEF MInv, PairsAddUp, ParseAddsUp, PairsOf, ParseOfOne
  <2>2. \A k : M!Reported(x, k)' = M!Reported(x, k)
    BY <1>3, <2>1
  <2>3. pair'[x] = pair[x] /\ lost'[x] = lost[x] /\ parsed'[x] = parsed[x] /\ stats' = stats
    BY <1>1
  <2> QED BY <2>1, <2>2, <2>3 DEF PairsOf, ParseOfOne
<1>6. AgentAddsUp'
  <2>1. rows'[Agent] = rows[Agent] /\ \A k : M!Reported(Agent, k)' = M!Reported(Agent, k)
    BY <1>2, <1>3
  <2> QED BY <1>1, <2>1 DEF MInv, AgentAddsUp
<1>7. CountersTyped'
  <2>1. DOMAIN plan' = M!Emitters
    BY <1>1 DEF MInv, CountersTyped
  <2> QED BY <1>1, <2>1 DEF MInv, CountersTyped
<1>8. LinkAddsUp(d)'
  <2>1. LinkAddsUp(d) /\ ~M!Idle(d)
    BY <1>1, LinkIs DEF M!Idle
  <2>2. \A n \in LinkNames : LinkTotal(d, n)' = LinkTotal(d, n)
    BY OwnKeys DEF LinkTotal
  <2>3. LinkTotalsAddUp(d)'
    BY <1>1, <2>1, <2>2 DEF LinkAddsUp, LinkTotalsAddUp, LinkNames
  <2>4. link'[d] = link[d] /\ ever'[d] = ever[d] /\ link[d] # "connecting"
        /\ ever[d] /\ link[d] \in {"polling", "idle"}
    BY <1>1, <2>1 DEF LinkAddsUp
  <2>5. \A i \in DOMAIN rows'[d] : rows'[d][i].cell[1] = "connection" =>
          \A n \in M!Measures("connection") : rows'[d][i].values[n].total = LinkTotal(d, n)'
    BY <1>3, <2>2, OwnKeys
  <2> QED BY <2>3, <2>4, <2>5 DEF LinkAddsUp
<1>9. ASSUME NEW x \in Devices, x # d PROVE LinkAddsUp(x)'
  <2>1. LinkAddsUp(x) /\ x \in M!Emitters /\ DOMAIN plan = M!Emitters
    BY LinkIs
  <2>2. rows'[x] = rows[x] /\ plan'[x] = plan[x] /\ pair'[x] = pair[x]
    BY <1>1, <1>3, <1>9, <2>1
  <2>3. \A n \in LinkNames : LinkTotal(x, n)' = LinkTotal(x, n)
    BY <2>2 DEF LinkTotal
  <2> QED BY <1>1, <2>1, <2>2, <2>3, LinkStays
<1> QED BY <1>3, <1>5, <1>6, <1>7, <1>8, <1>9 DEF MInv, LinksAddUp

\* What an emitter with no rows has reported is what it has handed over.
LEMMA AllHanded ==
  ASSUME MInv, NEW e \in M!Emitters, rows[e] = << >>
  PROVE  \A k \in M!Keys(e) : M!Reported(e, k) = handed[e][k] /\ handed[e][k] \in Int
<1> SUFFICES ASSUME NEW k \in M!Keys(e)
             PROVE  M!Reported(e, k) = handed[e][k] /\ handed[e][k] \in Int
  OBVIOUS
<1>1. handed[e][k] \in Int
  BY DEF MInv, RowsTyped
<1>2. M!Reported(e, k) = handed[e][k] + 0
  BY ReportedIs, NothingCarried
<1> QED BY <1>1, <1>2

\* Draining a family of pairs keeps the invariant: the intervals go from the
\* counters to the rows.
LEMMA DrainPairsKeeps ==
  ASSUME MInv, NEW d \in Devices, M!Drain(d), NEW f, M!DrainPairs(d, f)
  PROVE  MInv'
<1> DEFINE p == pair[d]
           s == PairRows(p, f)
           q == DrainedPairs(p, f)
<1>0. f \in {"connection", "command", "shaping"} /\ rows[d] = << >> /\ UNCHANGED handed
  BY DEF M!DrainPairs, M!Drain
<1>1. /\ p \in [M!PairKeys -> Counts] /\ pair \in [Devices -> [M!PairKeys -> Counts]]
      /\ lost \in [Devices -> Int] /\ parsed \in [Devices -> [M!ParseNames -> Int]]
  BY DEF MInv, CountersTyped
<1>2. /\ rows' = [rows EXCEPT ![d] = s] /\ pair' = [pair EXCEPT ![d] = q]
      /\ UNCHANGED <<lost, parsed, stats>>
  BY DEF M!DrainPairs, M!Drain, M!agentVars, PairRows, FamilyRows, CellAt, DrainedPairs
<1>3. /\ s \in Seq(RowsOf(d)) /\ Apart(s)
      /\ \A n \in DOMAIN s :
           /\ s[n].cell[1] = f
           /\ \A m \in M!Measures(f) : /\ <<s[n].cell, m>> \in M!PairKeys
                                       /\ s[n].values[m] = p[<<s[n].cell, m>>]
           /\ DOMAIN s[n].values = M!Measures(f)
      /\ \A k \in M!PairKeys : Flight(s, k) = IF k[1][1] = f THEN p[k].interval ELSE 0
      /\ \A k : k[1][1] # f => Flight(s, k) = 0
  BY <1>0, <1>1, PairRowsAre
<1>4. /\ q \in [M!PairKeys -> Counts]
      /\ \A k \in M!PairKeys :
           /\ p[k].total \in Int /\ p[k].interval \in Int /\ q[k].total = p[k].total
           /\ q[k].interval = IF k[1][1] = f THEN 0 ELSE p[k].interval
  <2>1. PICK z \in [M!PairKeys -> Counts] : z = p
    BY <1>1
  <2>2. /\ DrainedPairs(z, f) \in [M!PairKeys -> Counts]
        /\ \A k \in M!PairKeys :
             /\ z[k].total \in Int /\ z[k].interval \in Int
             /\ DrainedPairs(z, f)[k].total = z[k].total
             /\ DrainedPairs(z, f)[k].interval = IF k[1][1] = f THEN 0 ELSE z[k].interval
    BY DrainedPairsAre
  <2>3. q = DrainedPairs(z, f)
    BY <2>1
  <2> HIDE DEF q, p
  <2> QED BY <2>1, <2>2, <2>3
<1> HIDE DEF s, q
<1>5. pair' \in [Devices -> [M!PairKeys -> Counts]] /\ pair'[d] = q
      /\ \A x \in Devices \ {d} : pair'[x] = pair[x]
  BY <1>1, <1>2, <1>4
<1>6. /\ d \in M!Emitters /\ M!PairKeys \subseteq M!Keys(d) /\ M!Reconnects \in M!Keys(d)
      /\ M!ParseSeries \subseteq M!Keys(d)
      /\ \A k \in M!ParseSeries : k[1][1] = "parse"
  BY KeysAre, SeriesAreKeys
<1>7. \A k \in M!Keys(d) : M!Reported(d, k) = handed[d][k] /\ handed[d][k] \in Int
  BY <1>0, <1>6, AllHanded
<1>8. TotalsMatch(s, handed[d])
  <2> SUFFICES ASSUME NEW i \in DOMAIN s, NEW n \in DOMAIN s[i].values
               PROVE  s[i].values[n].total = handed[d][<<s[i].cell, n>>] + s[i].values[n].interval
    BY DEF TotalsMatch
  <2> DEFINE k == <<s[i].cell, n>>
  <2>1. k \in M!PairKeys /\ s[i].values[n] = p[k]
    BY <1>3
  <2> HIDE DEF k
  <2>2. p[k].total = M!Reported(d, k) + p[k].interval
    BY <2>1 DEF MInv, PairsAddUp
  <2>3. p[k].total = handed[d][k] + p[k].interval
    BY <1>6, <1>7, <2>1, <2>2
  <2> QED BY <2>1, <2>3 DEF k
<1>9. ASSUME \A k \in M!Keys(d) : /\ M!Reported(d, k) = handed[d][k] /\ handed[d][k] \in Int
                                  /\ M!Reported(d, k)' = handed[d][k] + Flight(s, k)
                                  /\ Flight(s, k) \in Int
      PROVE  PairsOf(d)' /\ ParseOfOne(d)'
  <2>1. ASSUME NEW k \in M!PairKeys
        PROVE  pair'[d][k].total = M!Reported(d, k)' + pair'[d][k].interval
    <3>1. p[k].total = M!Reported(d, k) + p[k].interval
      BY DEF MInv, PairsAddUp
    <3>2. M!Reported(d, k) = handed[d][k] /\ handed[d][k] \in Int
          /\ M!Reported(d, k)' = handed[d][k] + Flight(s, k)
      BY <1>6, <1>9
    <3>3. Flight(s, k) = IF k[1][1] = f THEN p[k].interval ELSE 0
      BY <1>3
    <3>4. /\ p[k].total \in Int /\ p[k].interval \in Int /\ q[k].total = p[k].total
          /\ q[k].interval = IF k[1][1] = f THEN 0 ELSE p[k].interval
      BY <1>4
    <3> QED BY <1>5, <3>1, <3>2, <3>3, <3>4
  <2>2. \A k \in M!Keys(d) : k[1][1] # f => M!Reported(d, k)' = M!Reported(d, k)
    BY <1>3, <1>9
  <2>3. M!Reported(d, M!Reconnects)' = M!Reported(d, M!Reconnects)
    <3>1. M!Reconnects[1][1] = "health"
      BY DEF M!Reconnects
    <3> QED BY <1>0, <1>6, <2>2, <3>1
  <2>4. pair'[d][M!Own("connection", "connectionDrops")].total
          = M!Reported(d, M!Reconnects)' + lost'[d]
    <3>1. M!Own("connection", "connectionDrops") \in M!PairKeys
      BY OwnKeys DEF LinkNames
    <3>2. p[M!Own("connection", "connectionDrops")].total = M!Reported(d, M!Reconnects) + lost[d]
      BY DEF MInv, PairsAddUp
    <3> QED BY <1>2, <1>4, <1>5, <2>3, <3>1, <3>2
  <2>5. \A k \in M!ParseSeries : M!Reported(d, k)' = M!Reported(d, k)
    BY <1>0, <1>6, <2>2
  <2>6. ParseOfOne(d)'
    BY <1>2, <2>5 DEF MInv, ParseAddsUp, ParseOfOne
  <2> QED BY <2>1, <2>4, <2>6 DEF PairsOf
<1>10. ASSUME NEW i \in DOMAIN s, s[i].cell[1] = "connection", NEW n \in M!Measures("connection")
       PROVE  s[i].values[n].total = LinkTotal(d, n)
  <2>1. f = "connection" /\ <<s[i].cell, n>> \in M!PairKeys /\ s[i].values[n] = p[<<s[i].cell, n>>]
    BY <1>3, <1>10
  <2>2. PICK m \in DOMAIN M!Combos("connection") : s[i].cell = CellAt("connection", m)
    BY <1>10, <2>1, PairKeyIs
  <2>3. s[i].cell = <<"connection", << >>>>
    BY <2>2, CombosAre DEF CellAt
  <2> QED BY <2>1, <2>3 DEF LinkTotal, M!Own
<1>11. PICK t \in Seq(RowsOf(d)) : t = s
  BY <1>3
<1>12. \A k \in M!PairKeys : pair'[d][k].total = pair[d][k].total
  BY <1>4, <1>5
<1> QED BY <1>1, <1>2, <1>3, <1>5, <1>8, <1>9, <1>10, <1>11, <1>12, DrainKeepsIf

\* Draining the health counter keeps the invariant.
LEMMA DrainHealthKeeps ==
  ASSUME MInv, NEW d \in Devices, M!Drain(d), NEW f, M!DrainHealth(d, f)
  PROVE  MInv'
<1> DEFINE s == HealthRows(lost[d])
<1>0. f = "health" /\ rows[d] = << >> /\ UNCHANGED handed
  BY DEF M!DrainHealth, M!Drain
<1>1. /\ lost \in [Devices -> Int] /\ parsed \in [Devices -> [M!ParseNames -> Int]]
      /\ pair \in [Devices -> [M!PairKeys -> Counts]]
  BY DEF MInv, CountersTyped
<1>2. /\ rows' = [rows EXCEPT ![d] = s] /\ lost' = [lost EXCEPT ![d] = 0]
      /\ UNCHANGED <<pair, parsed, stats>>
  BY DEF M!DrainHealth, M!Drain, M!agentVars, HealthRows
<1>3. /\ s \in Seq(RowsOf(d)) /\ Apart(s)
      /\ \A i \in DOMAIN s : s[i].cell[1] = "health"
      /\ Flight(s, M!Reconnects) = lost[d]
      /\ \A k : k[1][1] # "health" => Flight(s, k) = 0
  <2>1. lost[d] \in Int
    BY <1>1
  <2> QED BY <2>1, HealthRowsAre
<1> HIDE DEF s
<1>4. /\ d \in M!Emitters /\ M!PairKeys \subseteq M!Keys(d) /\ M!Reconnects \in M!Keys(d)
      /\ M!ParseSeries \subseteq M!Keys(d)
      /\ \A k \in M!ParseSeries : k[1][1] = "parse"
  BY KeysAre, SeriesAreKeys
<1>5. TotalsMatch(s, handed[d])
  BY <1>3 DEF TotalsMatch
<1>6. lost'[d] = 0 /\ lost' \in [Devices -> Int] /\ \A x \in Devices \ {d} : lost'[x] = lost[x]
  BY <1>1, <1>2
<1>7. ASSUME \A k \in M!Keys(d) : /\ M!Reported(d, k) = handed[d][k] /\ handed[d][k] \in Int
                                  /\ M!Reported(d, k)' = handed[d][k] + Flight(s, k)
                                  /\ Flight(s, k) \in Int
      PROVE  PairsOf(d)' /\ ParseOfOne(d)'
  <2>1. \A k \in M!Keys(d) : k[1][1] # "health" => M!Reported(d, k)' = M!Reported(d, k)
    BY <1>3, <1>7
  <2>2. \A k \in M!PairKeys : M!Reported(d, k)' = M!Reported(d, k)
    BY <1>4, <2>1, PairKeyIs
  <2>3. \A k \in M!ParseSeries : M!Reported(d, k)' = M!Reported(d, k)
    BY <1>4, <2>1
  <2>4. \A k \in M!PairKeys : pair'[d][k].total = M!Reported(d, k)' + pair'[d][k].interval
    BY <1>2, <2>2 DEF MInv, PairsAddUp
  <2>5. pair'[d][M!Own("connection", "connectionDrops")].total
          = M!Reported(d, M!Reconnects)' + lost'[d]
    <3> DEFINE n == pair[d][M!Own("connection", "connectionDrops")].total
    <3>1. n = M!Reported(d, M!Reconnects) + lost[d] /\ lost[d] \in Int
      BY <1>1 DEF MInv, PairsAddUp
    <3>2. /\ M!Reported(d, M!Reconnects) = handed[d][M!Reconnects] /\ handed[d][M!Reconnects] \in Int
          /\ M!Reported(d, M!Reconnects)' = handed[d][M!Reconnects] + lost[d]
      BY <1>3, <1>4, <1>7
    <3>3. n = M!Reported(d, M!Reconnects)' + 0
      <4> HIDE DEF n
      <4> QED BY <3>1, <3>2
    <3> QED BY <1>2, <1>6, <3>3
  <2>6. ParseOfOne(d)'
    BY <1>2, <2>3 DEF MInv, ParseAddsUp, ParseOfOne
  <2> QED BY <2>4, <2>5, <2>6 DEF PairsOf
<1>8. PICK t \in Seq(RowsOf(d)) : t = s
  BY <1>3
<1>9. \A i \in DOMAIN s : s[i].cell[1] # "connection"
  BY <1>3
<1> QED BY <1>1, <1>2, <1>3, <1>5, <1>6, <1>7, <1>8, <1>9, DrainKeepsIf

\* Draining the parse counters keeps the invariant: the totals that went out
\* become the previous ones.
LEMMA DrainParseKeeps ==
  ASSUME MInv, NEW d \in Devices, M!Drain(d), NEW f, M!DrainParse(d, f)
  PROVE  MInv'
<1> DEFINE total == M!Count(stats, M!ParseNames)
           before == parsed[d]
           s == ParseRows(total, before)
<1>0. f = "parse" /\ rows[d] = << >> /\ UNCHANGED handed
  BY DEF M!DrainParse, M!Drain
<1>1. /\ lost \in [Devices -> Int] /\ parsed \in [Devices -> [M!ParseNames -> Int]]
      /\ pair \in [Devices -> [M!PairKeys -> Counts]]
      /\ stats \in [M!StatNames \cup M!ParseNames -> Int]
  BY DEF MInv, CountersTyped
<1>2. /\ rows' = [rows EXCEPT ![d] = s] /\ parsed' = [parsed EXCEPT ![d] = total]
      /\ UNCHANGED <<pair, lost, stats>>
  BY <1>0 DEF M!DrainParse, M!Drain, M!agentVars, ParseRows, FamilyRows, CellAt
<1>3. total \in [M!ParseNames -> Int] /\ \A n \in M!ParseNames : total[n] = stats[n]
  BY <1>1 DEF M!Count
<1>4. before \in [M!ParseNames -> Int]
  BY <1>1
<1> HIDE DEF total, before
<1>5. /\ s \in Seq(RowsOf(d)) /\ Apart(s)
      /\ \A i \in DOMAIN s : \E r \in M!Results :
           /\ s[i].cell = <<"parse", <<r>>>> /\ DOMAIN s[i].values = M!ParseOf(r)
           /\ \A n \in M!ParseOf(r) :
                s[i].values[n] = [total |-> total[n], interval |-> total[n] - before[n]]
      /\ \A k \in M!ParseSeries : Flight(s, k) = total[k[2]] - before[k[2]]
      /\ \A k : k[1][1] # "parse" => Flight(s, k) = 0
  BY <1>3, <1>4, ParseRowsAre
<1> HIDE DEF s
<1>6. /\ d \in M!Emitters /\ M!PairKeys \subseteq M!Keys(d) /\ M!Reconnects \in M!Keys(d)
      /\ M!ParseSeries \subseteq M!Keys(d)
      /\ \A k \in M!ParseSeries : k[1][1] = "parse" /\ k[2] \in M!ParseNames
  BY KeysAre, SeriesAreKeys
<1>7. \A k \in M!Keys(d) : M!Reported(d, k) = handed[d][k] /\ handed[d][k] \in Int
  BY <1>0, <1>6, AllHanded
<1>8. \A k \in M!ParseSeries : before[k[2]] = handed[d][k] /\ before[k[2]] \in Int
                               /\ total[k[2]] \in Int /\ total[k[2]] = stats[k[2]]
  <2> SUFFICES ASSUME NEW k \in M!ParseSeries
               PROVE  before[k[2]] = handed[d][k] /\ before[k[2]] \in Int
                      /\ total[k[2]] \in Int /\ total[k[2]] = stats[k[2]]
    OBVIOUS
  <2>1. before[k[2]] = M!Reported(d, k)
    BY DEF MInv, ParseAddsUp, before
  <2> QED BY <1>3, <1>4, <1>6, <1>7, <2>1
<1>9. TotalsMatch(s, handed[d])
  <2> SUFFICES ASSUME NEW i \in DOMAIN s, NEW n \in DOMAIN s[i].values
               PROVE  s[i].values[n].total = handed[d][<<s[i].cell, n>>] + s[i].values[n].interval
    BY DEF TotalsMatch
  <2> DEFINE k == <<s[i].cell, n>>
  <2>1. /\ k \in M!ParseSeries /\ k[2] = n
        /\ s[i].values[n] = [total |-> total[n], interval |-> total[n] - before[n]]
    <3>1. PICK r \in M!Results :
             /\ s[i].cell = <<"parse", <<r>>>> /\ DOMAIN s[i].values = M!ParseOf(r)
             /\ \A m \in M!ParseOf(r) :
                  s[i].values[m] = [total |-> total[m], interval |-> total[m] - before[m]]
      BY <1>5
    <3> QED BY <3>1 DEF M!ParseSeries
  <2>2. before[n] = handed[d][k] /\ before[n] \in Int /\ total[n] \in Int
    BY <1>8, <2>1
  <2> HIDE DEF k
  <2>3. total[n] = handed[d][k] + (total[n] - before[n])
    BY <2>2
  <2> QED BY <2>1, <2>3 DEF k
<1>10. parsed'[d] = total /\ parsed' \in [Devices -> [M!ParseNames -> Int]]
       /\ \A x \in Devices \ {d} : parsed'[x] = parsed[x]
  BY <1>1, <1>2, <1>3
<1>11. ASSUME \A k \in M!Keys(d) : /\ M!Reported(d, k) = handed[d][k] /\ handed[d][k] \in Int
                                   /\ M!Reported(d, k)' = handed[d][k] + Flight(s, k)
                                   /\ Flight(s, k) \in Int
       PROVE  PairsOf(d)' /\ ParseOfOne(d)'
  <2>1. \A k \in M!Keys(d) : k[1][1] # "parse" => M!Reported(d, k)' = M!Reported(d, k)
    BY <1>5, <1>11
  <2>2. \A k \in M!PairKeys : M!Reported(d, k)' = M!Reported(d, k)
    BY <1>6, <2>1, PairKeyIs
  <2>3. M!Reported(d, M!Reconnects)' = M!Reported(d, M!Reconnects)
    <3>1. M!Reconnects[1][1] = "health"
      BY DEF M!Reconnects
    <3> QED BY <1>6, <2>1, <3>1
  <2>4. PairsOf(d)'
    BY <1>2, <2>2, <2>3 DEF MInv, PairsAddUp, PairsOf
  <2>5. ASSUME NEW k \in M!ParseSeries
        PROVE  parsed'[d][k[2]] = M!Reported(d, k)' /\ parsed'[d][k[2]] <= stats'[k[2]]
    <3>1. M!Reported(d, k)' = handed[d][k] + (total[k[2]] - before[k[2]])
      BY <1>5, <1>6, <1>11
    <3> QED BY <1>2, <1>8, <1>10, <3>1
  <2> QED BY <2>4, <2>5 DEF ParseOfOne
<1>12. PICK t \in Seq(RowsOf(d)) : t = s
  BY <1>5
<1>13. \A i \in DOMAIN s : s[i].cell[1] # "connection"
  BY <1>5
<1>14. /\ pair' \in [Devices -> [M!PairKeys -> Counts]] /\ lost' \in [Devices -> Int]
       /\ \A x \in Devices \ {d} : pair'[x] = pair[x] /\ lost'[x] = lost[x] /\ parsed'[x] = parsed[x]
       /\ \A k \in M!PairKeys : pair'[d][k].total = pair[d][k].total
  BY <1>1, <1>2, <1>10
<1>15. /\ Apart(t) /\ TotalsMatch(t, handed[d]) /\ rows' = [rows EXCEPT ![d] = t]
       /\ \A i \in DOMAIN t : t[i].cell[1] # "connection"
  BY <1>2, <1>5, <1>9, <1>12, <1>13
<1> QED BY <1>10, <1>11, <1>12, <1>14, <1>15, DrainKeepsIf

\* Every step of the metrics keeps the invariant.
LEMMA MInvNext ==
  ASSUME MInv, M!Next
  PROVE  MInv'
<1>1. CASE M!Exchange \/ M!Request \/ M!StreamOpened \/ \E r \in M!Recorders : M!Bump(r)
  BY <1>1, AgentRecords
<1>2. ASSUME NEW d \in Devices,
             \/ M!Attempt(d) \/ M!Connected(d) \/ M!ConnectFailed(d) \/ M!Tick(d) \/ M!Emission(d)
             \/ M!Dropped(d) \/ M!Stopped(d) \/ M!Command(d) \/ M!Drain(d)
      PROVE  MInv'
  <2>1. CASE M!Attempt(d)
    BY <2>1, AttemptKeeps
  <2>2. CASE M!Connected(d)
    BY <2>2, ConnectedKeeps
  <2>3. CASE M!ConnectFailed(d)
    BY <2>3, ConnectFailedKeeps
  <2>4. CASE M!Tick(d) \/ M!Stopped(d) \/ M!Command(d)
    BY <2>4, TickKeeps
  <2>5. CASE M!Emission(d)
    BY <2>5, EmissionKeeps
  <2>6. CASE M!Dropped(d)
    BY <2>6, DroppedKeeps
  <2>7. CASE M!Drain(d)
    <3>1. \/ M!DrainPairs(d, Head(plan[d])) \/ M!DrainHealth(d, Head(plan[d]))
          \/ M!DrainParse(d, Head(plan[d]))
      BY <2>7 DEF M!Drain
    <3> QED BY <2>7, <3>1, DrainPairsKeeps, DrainHealthKeeps, DrainParseKeeps
  <2> QED BY <1>2, <2>1, <2>2, <2>3, <2>4, <2>5, <2>6, <2>7
<1>3. CASE M!Load
  BY <1>3, LoadKeeps
<1>4. CASE M!Rebase
  BY <1>4, RebaseKeeps
<1>5. ASSUME NEW e \in M!Emitters, M!Define(e) \/ M!Emit(e) PROVE MInv'
  BY <1>5, DefineKeeps, EmitKeepsAll
<1> QED BY <1>1, <1>2, <1>3, <1>4, <1>5 DEF M!Next

\* A step of anything else keeps the invariant.
LEMMA MInvStutters ==
  ASSUME MInv, UNCHANGED M!vars
  PROVE  MInv'
<1>1. UNCHANGED <<stats, bumps, pair, lost, ever, link, parsed, previous, seen, plan, rows, handed>>
  BY DEF M!vars, M!agentVars, M!baseVars, M!deviceVars, M!outVars
<1>2. /\ RowsTyped' /\ TotalsAddUp' /\ \A x, k : M!Reported(x, k)' = M!Reported(x, k)
  BY <1>1, RowsStay DEF MInv
<1>3. PairsAddUp' /\ ParseAddsUp' /\ AgentAddsUp'
  BY <1>1, <1>2, SumsStay DEF MInv
<1>4. CountersTyped'
  BY <1>1 DEF MInv, CountersTyped
<1>5. LinksAddUp'
  BY <1>1, LinkStays DEF MInv, LinksAddUp, LinkTotal
<1> QED BY <1>2, <1>3, <1>4, <1>5 DEF MInv

\* The invariant holds at first: nothing is counted and no row is drained.
LEMMA MInvInit ==
  ASSUME M!Init
  PROVE  MInv
<1>1. /\ stats = [n \in M!StatNames \cup M!ParseNames |-> 0] /\ bumps = [r \in M!Recorders |-> << >>]
      /\ pair = [d \in Devices |-> [k \in M!PairKeys |-> M!Zero]]
      /\ lost = [d \in Devices |-> 0] /\ ever = [d \in Devices |-> FALSE]
      /\ link = [d \in Devices |-> "idle"] /\ parsed = [d \in Devices |-> [n \in M!ParseNames |-> 0]]
      /\ previous = [n \in M!StatNames |-> 0] /\ seen = << >>
      /\ plan = [e \in M!Emitters |-> << >>] /\ rows = [e \in M!Emitters |-> << >>]
      /\ handed = [e \in M!Emitters |-> [k \in M!Keys(e) |-> 0]]
  BY DEF M!Init, M!None
<1>2. M!Zero \in Counts /\ M!Zero.total = 0 /\ M!Zero.interval = 0
  BY DEF M!Zero, Counts
<1>3. \A e \in M!Emitters : \A k \in M!Keys(e) : M!Reported(e, k) = 0
  <2> SUFFICES ASSUME NEW e \in M!Emitters, NEW k \in M!Keys(e) PROVE M!Reported(e, k) = 0
    OBVIOUS
  <2>1. handed[e][k] = 0 /\ rows[e] = << >>
    BY <1>1
  <2> QED BY <2>1, ReportedIs, NothingCarried
<1>4. RowsTyped
  BY <1>1 DEF RowsTyped, Apart
<1>5. CountersTyped
  BY <1>1, <1>2 DEF CountersTyped
<1>6. PairsAddUp
  <2> SUFFICES ASSUME NEW d \in Devices PROVE PairsOf(d)
    BY DEF PairsAddUp, PairsOf
  <2>1. d \in M!Emitters /\ M!PairKeys \subseteq M!Keys(d) /\ M!Reconnects \in M!Keys(d)
        /\ M!Own("connection", "connectionDrops") \in M!PairKeys
    BY KeysAre, SeriesAreKeys, OwnKeys DEF LinkNames
  <2>2. \A k \in M!PairKeys : pair[d][k] = M!Zero
    BY <1>1
  <2> QED BY <1>1, <1>2, <1>3, <2>1, <2>2 DEF PairsOf
<1>7. ParseAddsUp
  BY <1>1, <1>3, KeysAre, SeriesAreKeys DEF ParseAddsUp
<1>8. AgentAddsUp
  <2>1. seen \in Seq(Int) /\ Len(seen) = 0 /\ Len(M!StatOrder) = 10
    BY <1>1 DEF M!StatOrder
  <2>2. \A k \in M!AgentSeries : previous[k[2]] = M!Reported(Agent, k) /\ previous[k[2]] <= stats[k[2]]
    BY <1>1, <1>3, KeysAre, SeriesAreKeys
  <2> QED BY <1>1, <2>1, <2>2 DEF AgentAddsUp
<1>9. TotalsAddUp
  BY <1>1 DEF TotalsAddUp, TotalsMatch
<1>10. LinksAddUp
  <2> SUFFICES ASSUME NEW d \in Devices PROVE LinkAddsUp(d)
    BY DEF LinksAddUp
  <2>1. d \in M!Emitters /\ link[d] = "idle" /\ ever[d] = FALSE /\ rows[d] = << >> /\ plan[d] = << >>
    BY <1>1, KeysAre
  <2>2. \A n \in LinkNames : LinkTotal(d, n) = 0
    BY <1>1, <1>2, OwnKeys DEF LinkTotal
  <2>3. One(ever[d]) = 0 /\ One(link[d] = "connecting") = 0
        /\ One(link[d] \in {"polling", "stopped"}) = 0
    BY <2>1 DEF One
  <2>4. LinkTotalsAddUp(d)
    BY <2>2, <2>3 DEF LinkTotalsAddUp, LinkNames
  <2> QED BY <2>1, <2>4 DEF LinkAddsUp, M!Idle
<1> QED BY <1>4, <1>5, <1>6, <1>7, <1>8, <1>9, <1>10 DEF MInv

\* Whatever was counted is reported once, by rows handed over or on their way;
\* and every row of the link's counters tells one story.
THEOREM MetricsAddUp == M!Spec => []RowsAddUp
<1>1. M!Init => MInv
  BY MInvInit
<1>2. MInv /\ [M!Next]_(M!vars) => MInv'
  BY MInvNext, MInvStutters
<1>3. MInv => RowsAddUp
  <2> SUFFICES ASSUME MInv PROVE M!IntervalsAddUp /\ M!LifecycleAddsUp
    BY DEF RowsAddUp
  <2>1. M!OneRowEach
    BY DEF M!OneRowEach, MInv, RowsTyped, Apart
  <2>2. M!IntervalsAddUp
    BY <2>1 DEF M!IntervalsAddUp, MInv, PairsAddUp, ParseAddsUp, AgentAddsUp, TotalsAddUp, TotalsMatch
  <2>3. M!LifecycleAddsUp
    <3> SUFFICES ASSUME NEW d \in Devices, NEW i \in DOMAIN rows[d],
                        rows[d][i].cell[1] = "connection"
                 PROVE  LET of(name) == rows[d][i].values[name].total IN
                        /\ of("connectAttempts") = of("connectFailures") + of("reconnectAttempts") + 1
                        /\ of("connectionDrops") = of("reconnectAttempts")
                                                   + (IF link[d] = "polling" THEN 0 ELSE 1)
      BY DEF M!LifecycleAddsUp
    <3>1. LinkAddsUp(d) /\ d \in M!Emitters
          /\ \A n \in LinkNames : LinkTotal(d, n) \in Int
      BY LinkIs
    <3>2. ~M!Idle(d)
      BY DEF M!Idle
    <3>3. ever[d] /\ link[d] \in {"polling", "idle"} /\ LinkTotalsAddUp(d)
      BY <3>1, <3>2 DEF LinkAddsUp
    <3>4. One(ever[d]) = 1 /\ One(link[d] = "connecting") = 0
          /\ One(link[d] \in {"polling", "stopped"}) = IF link[d] = "polling" THEN 1 ELSE 0
      BY <3>3 DEF One
    <3>5. \A n \in LinkNames : rows[d][i].values[n].total = LinkTotal(d, n)
      BY <3>1, OwnKeys DEF LinkAddsUp
    <3>6. /\ LinkTotal(d, "connectAttempts")
               = LinkTotal(d, "connectFailures") + LinkTotal(d, "reconnectAttempts") + 1
          /\ LinkTotal(d, "connectionDrops")
               = LinkTotal(d, "reconnectAttempts") + (IF link[d] = "polling" THEN 0 ELSE 1)
      <4> DEFINE a == LinkTotal(d, "connectAttempts")
                 f == LinkTotal(d, "connectFailures")
                 r == LinkTotal(d, "reconnectAttempts")
                 c == LinkTotal(d, "connectionDrops")
                 up == One(link[d] \in {"polling", "stopped"})
      <4>1. a \in Int /\ f \in Int /\ r \in Int /\ c \in Int
        BY <3>1 DEF LinkNames
      <4>2. a = f + r + One(ever[d]) + One(link[d] = "connecting") /\ c = r + One(ever[d]) - up
        BY <3>3 DEF LinkTotalsAddUp
      <4>3. up = IF link[d] = "polling" THEN 1 ELSE 0
        BY <3>4
      <4> HIDE DEF a, f, r, c, up
      <4>4. a = f + r + 1 /\ c = r + (IF link[d] = "polling" THEN 0 ELSE 1)
        BY <3>4, <4>1, <4>2, <4>3
      <4> QED BY <4>4 DEF a, f, r, c
    <3> QED BY <3>5, <3>6 DEF LinkNames
  <2> QED BY <2>2, <2>3
<1> QED BY <1>1, <1>2, <1>3, PTL DEF M!Spec
=============================================================================
