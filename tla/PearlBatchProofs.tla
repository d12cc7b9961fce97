--------------------------- MODULE PearlBatchProofs ---------------------------
(***************************************************************************)
(* Facts about the operators the decode loops share: the row filter, the   *)
(* verification windows and verdicts, the two verification transitions,    *)
(* the KV cache writes and the truncation of a completion.  The proofs of  *)
(* the loops cite them.                                                    *)
(***************************************************************************)
EXTENDS PearlBatch, FiniteSetTheorems, TLAPS

USE SMTT(20), ZenonT(60)

------------------------------------------------------------------------------
(* Sequences.                                                              *)

\* What a list holds is what it is a list of.
LEMMA ElementOfSeq == ASSUME NEW S, NEW s \in Seq(S), NEW n \in 1..Len(s) PROVE s[n] \in S
  OBVIOUS

\* The empty list, and the length of any other.
LEMMA EmptySeq ==
  ASSUME NEW S
  PROVE  << >> \in Seq(S) /\ Len(<< >>) = 0 /\ (\A s \in Seq(S) : s # << >> => Len(s) \in Nat \ {0})
  OBVIOUS

\* Lists of one length with the same members are the same list.
LEMMA SeqEqual ==
  ASSUME NEW S, NEW s \in Seq(S), NEW t \in Seq(S), Len(s) = Len(t), \A i \in 1..Len(s) : s[i] = t[i]
  PROVE  s = t
  <1>1. Len(s) \in Nat /\ s = [i \in 1..Len(s) |-> s[i]] /\ t = [i \in 1..Len(t) |-> t[i]]
    OBVIOUS
  <1> QED
    BY <1>1

\* The members of a list with one more at its end.
LEMMA AppendProperties ==
  ASSUME NEW S, NEW s \in Seq(S), NEW e \in S
  PROVE  /\ Append(s, e) \in Seq(S) /\ Append(s, e) # << >> /\ Len(Append(s, e)) = Len(s) + 1
         /\ (\A i \in 1..Len(s) : Append(s, e)[i] = s[i]) /\ Append(s, e)[Len(s) + 1] = e
  OBVIOUS

\* The members of two lists put together.
LEMMA ConcatProperties ==
  ASSUME NEW S, NEW s \in Seq(S), NEW t \in Seq(S)
  PROVE  /\ s \o t \in Seq(S) /\ Len(s \o t) = Len(s) + Len(t)
         /\ \A i \in 1..Len(s) + Len(t) : (s \o t)[i] = IF i <= Len(s) THEN s[i] ELSE t[i - Len(s)]
  OBVIOUS

\* The members of a part of a list.
LEMMA SubSeqProperties ==
  ASSUME NEW S, NEW s, NEW m \in Int, NEW n \in Int, \A i \in m..n : s[i] \in S
  PROVE  /\ SubSeq(s, m, n) \in Seq(S) /\ Len(SubSeq(s, m, n)) = (IF m <= n THEN n - m + 1 ELSE 0)
         /\ \A i \in 1..n - m + 1 : SubSeq(s, m, n)[i] = s[m + i - 1]
  OBVIOUS

\* The part of a list that is all of it.
LEMMA SubSeqFull == ASSUME NEW S, NEW s \in Seq(S) PROVE SubSeq(s, 1, Len(s)) = s
  OBVIOUS

------------------------------------------------------------------------------
\* A non-empty set of naturals has a least element.
LEMMA LeastExists ==
  ASSUME NEW T \in SUBSET Nat, T # {}
  PROVE  \E m \in T : \A n \in T : m <= n
  <1> DEFINE R == {ss \in Nat \X Nat : ss[1] < ss[2]}
  <1>1. IsWellFoundedOn(R, Nat)
    BY NatLessThanWellFounded DEF OpToRel
  <1>2. PICK m \in T : \A n \in T : ~(<<n, m>> \in R)
    <2> HIDE DEF R
    <2> QED
      BY <1>1, WFMin, ZenonT(60)
  <1>3. \A n \in T : ~(n < m) /\ n \in Nat /\ m \in Nat
    BY <1>2, ZenonT(60)
  <1> QED
    BY <1>2, <1>3

------------------------------------------------------------------------------
(* The row filter.                                                         *)

\* No row twice.
Distinct(s) == \A i, j \in 1..Len(s) : s[i] = s[j] => i = j

KeepStep(s, S, kept, n) ==
    IF n = 0 THEN <<>>
    ELSE IF s[n] \in S THEN Append(kept[n - 1], s[n]) ELSE kept[n - 1]

\* The recursion that defines Keep has a solution.
LEMMA KeepDefined ==
  ASSUME NEW R, NEW s \in Seq(R), NEW S
  PROVE  \E g : g = [n \in 0..Len(s) |-> KeepStep(s, S, g, n)]
  <1> DEFINE Good(m) == \E g \in [0..m -> Seq(R)] :
                           \A n \in 0..m : g[n] = KeepStep(s, S, g, n)
             T == {m \in Nat : m <= Len(s) /\ ~Good(m)}
  <1>1. Len(s) \in Nat
    OBVIOUS
  <1>2. T = {}
    <2>1. SUFFICES ASSUME T # {} PROVE FALSE
      OBVIOUS
    <2>2. PICK m \in T : \A n \in T : m <= n
      <3>1. T \subseteq Nat
        OBVIOUS
      <3> HIDE DEF T
      <3> QED
        BY <2>1, <3>1, LeastExists
    <2>3. m \in Nat /\ m <= Len(s) /\ ~Good(m)
      BY <2>2, ZenonT(60)
    <2>4. CASE m = 0
      <3> DEFINE h == [n \in 0..0 |-> <<>>]
      <3>1. h \in [0..0 -> Seq(R)] /\ \A n \in 0..0 : h[n] = KeepStep(s, S, h, n)
        BY DEF KeepStep
      <3>2. Good(0)
        BY <3>1, ZenonT(60)
      <3> QED
        BY <2>3, <2>4, <3>2
    <2>5. CASE m # 0
      <3>1. m - 1 \in Nat /\ m - 1 < m /\ m - 1 <= Len(s)
        BY <2>3, <2>5, <1>1
      <3>2. m - 1 \notin T
        <4> HIDE DEF T
        <4> QED
          BY <2>2, <2>3, <3>1
      <3>3. Good(m - 1)
        BY <3>1, <3>2, ZenonT(60)
      <3>4. PICK g \in [0..(m - 1) -> Seq(R)] : \A n \in 0..(m - 1) : g[n] = KeepStep(s, S, g, n)
        BY <3>3
      <3> DEFINE h == [n \in 0..m |-> IF n = m THEN KeepStep(s, S, g, m) ELSE g[n]]
      <3>5. s[m] \in R
        BY <2>3, <2>5, <1>1, ElementOfSeq
      <3>6. KeepStep(s, S, g, m) \in Seq(R)
        BY <2>3, <2>5, <3>1, <3>4, <3>5 DEF KeepStep
      <3>7. h \in [0..m -> Seq(R)]
        BY <2>3, <3>4, <3>6
      <3>8. \A n \in 0..m : h[n] = KeepStep(s, S, h, n)
        <4> TAKE n \in 0..m
        <4>1. n # 0 => h[n - 1] = g[n - 1]
          BY <2>3
        <4>2. KeepStep(s, S, h, n) = KeepStep(s, S, g, n)
          BY <4>1 DEF KeepStep
        <4>3. h[n] = KeepStep(s, S, g, n)
          BY <2>3, <3>4
        <4> QED
          BY <4>2, <4>3
      <3>9. Good(m)
        <4> HIDE DEF h
        <4> QED
          BY <3>7, <3>8
      <3> QED
        BY <2>3, <3>9
    <2> QED
      BY <2>4, <2>5
  <1>3. Good(Len(s))
    <2>1. Len(s) \notin T
      BY <1>2, ZenonT(60)
    <2> HIDE DEF Good
    <2> QED
      BY <1>1, <2>1
  <1>4. PICK g \in [0..Len(s) -> Seq(R)] : \A n \in 0..Len(s) : g[n] = KeepStep(s, S, g, n)
    BY <1>3
  <1>5. g = [n \in 0..Len(s) |-> KeepStep(s, S, g, n)]
    BY <1>4
  <1> QED
    BY <1>5

\* What q must be to be the filter of the first n members of s.
Filters(R, s, S, q, n) ==
    /\ q \in Seq(R)
    /\ Len(q) = Cardinality({i \in 1..n : s[i] \in S})
    /\ \A x : (\E i \in 1..Len(q) : q[i] = x) <=> (x \in S /\ \E i \in 1..n : s[i] = x)
    /\ Distinct(s) => Distinct(q)

\* One more member of s.
LEMMA FiltersNext ==
  ASSUME NEW R, NEW s \in Seq(R), NEW S, NEW n \in 1..Len(s), NEW q,
         Filters(R, s, S, q, n - 1)
  PROVE  Filters(R, s, S, IF s[n] \in S THEN Append(q, s[n]) ELSE q, n)
  <1> DEFINE before == {i \in 1..(n - 1) : s[i] \in S}
             after == {i \in 1..n : s[i] \in S}
  <1>1. Len(s) \in Nat /\ n \in Nat /\ n - 1 \in Nat /\ s[n] \in R
    BY ElementOfSeq
  <1>2. IsFiniteSet(before) /\ Cardinality(before) \in Nat
    <2>1. IsFiniteSet(1..(n - 1))
      BY <1>1, FS_Interval
    <2>2. before \subseteq 1..(n - 1)
      OBVIOUS
    <2> HIDE DEF before
    <2> QED
      BY <2>1, <2>2, FS_Subset, FS_CardinalityType, ZenonT(60)
  <1>3. q \in Seq(R) /\ Len(q) = Cardinality(before) /\ Len(q) \in Nat
    BY <1>2 DEF Filters
  <1>4. CASE s[n] \in S
    <2> DEFINE q2 == Append(q, s[n])
    <2>1. after = before \cup {n} /\ n \notin before
      BY <1>1, <1>4
    <2>2. Cardinality(after) = Cardinality(before) + 1
      <3> HIDE DEF before, after
      <3> QED
        BY <1>2, <2>1, FS_AddElement, ZenonT(60)
    <2>3. /\ q2 \in Seq(R) /\ Len(q2) = Len(q) + 1
          /\ \A i \in 1..Len(q) : q2[i] = q[i]
          /\ q2[Len(q) + 1] = s[n]
      <3> HIDE DEF before
      <3> QED
        BY <1>1, <1>3, AppendProperties
    <2> HIDE DEF q2, before, after
    <2>4. \A x : (\E i \in 1..Len(q2) : q2[i] = x) <=> (x \in S /\ \E i \in 1..n : s[i] = x)
      <3> TAKE x
      <3>1. (\E i \in 1..Len(q) : q[i] = x) <=> (x \in S /\ \E i \in 1..(n - 1) : s[i] = x)
        BY ZenonT(60) DEF Filters
      <3>2. (\E i \in 1..Len(q2) : q2[i] = x) <=> ((\E i \in 1..Len(q) : q[i] = x) \/ s[n] = x)
        <4>1. \A i \in 1..Len(q2) : i \in 1..Len(q) \/ i = Len(q) + 1
          BY <2>3, <1>3
        <4>2. Len(q) + 1 \in 1..Len(q2) /\ \A i \in 1..Len(q) : i \in 1..Len(q2)
          BY <2>3, <1>3
        <4> QED
          BY <2>3, <4>1, <4>2
      <3>3. (\E i \in 1..n : s[i] = x) <=> ((\E i \in 1..(n - 1) : s[i] = x) \/ s[n] = x)
        <4>1. \A i \in 1..n : i \in 1..(n - 1) \/ i = n
          BY <1>1
        <4>2. n \in 1..n /\ \A i \in 1..(n - 1) : i \in 1..n
          BY <1>1
        <4> QED
          BY <4>1, <4>2
      <3> QED
        BY <3>1, <3>2, <3>3, <1>4
    <2>5. ASSUME Distinct(s) PROVE Distinct(q2)
      <3>1. Distinct(q)
        BY <2>5 DEF Filters
      <3>2. \A i \in 1..Len(q) : q[i] # s[n]
        <4>1. SUFFICES ASSUME NEW i \in 1..Len(q), q[i] = s[n] PROVE FALSE
          OBVIOUS
        <4>2. \E j \in 1..(n - 1) : s[j] = s[n]
          BY <4>1, ZenonT(60) DEF Filters
        <4> QED
          BY <1>1, <2>5, <4>2 DEF Distinct
      <3> QED
        BY <1>3, <2>3, <3>1, <3>2 DEF Distinct
    <2>6. Filters(R, s, S, q2, n)
      BY <2>2, <2>3, <2>4, <2>5, <1>3, ZenonT(60) DEF Filters, after
    <2> QED
      BY <1>4, <2>6 DEF q2
  <1>5. CASE s[n] \notin S
    <2>1. after = before
      BY <1>1, <1>5
    <2>2. \A x : x \in S => ((\E i \in 1..n : s[i] = x) <=> (\E i \in 1..(n - 1) : s[i] = x))
      <3>1. \A i \in 1..n : i \in 1..(n - 1) \/ i = n
        BY <1>1
      <3>2. \A i \in 1..(n - 1) : i \in 1..n
        BY <1>1
      <3> QED
        BY <1>5, <3>1, <3>2
    <2>3. Filters(R, s, S, q, n)
      BY <2>1, <2>2, ZenonT(60) DEF Filters
    <2> QED
      BY <1>5, <2>3
  <1> QED
    BY <1>4, <1>5

\* What the row filter returns.
LEMMA KeepFilters ==
  ASSUME NEW R, NEW s \in Seq(R), NEW S
  PROVE  Filters(R, s, S, Keep(s, S), Len(s))
  <1> DEFINE F(g) == [n \in 0..Len(s) |->
                     IF n = 0 THEN <<>>
                     ELSE IF s[n] \in S THEN Append(g[n - 1], s[n]) ELSE g[n - 1]]
             k == CHOOSE g : g = F(g)
  <1>1. Keep(s, S) = k[Len(s)]
    BY DEF Keep
  <1>2. k = F(k)
    <2>1. \E g : g = F(g)
      BY KeepDefined, ZenonT(60) DEF KeepStep
    <2> HIDE DEF F
    <2> QED
      BY <2>1
  <1> HIDE DEF k
  <1>3. Len(s) \in Nat
    OBVIOUS
  <1> DEFINE T == {n \in 0..Len(s) : ~Filters(R, s, S, k[n], n)}
  <1>4. T = {}
    <2>1. SUFFICES ASSUME T # {} PROVE FALSE
      OBVIOUS
    <2>2. PICK m \in T : \A n \in T : m <= n
      <3>1. T \subseteq Nat
        BY <1>3
      <3> HIDE DEF T
      <3> QED
        BY <2>1, <3>1, LeastExists
    <2>3. m \in 0..Len(s) /\ ~Filters(R, s, S, k[m], m)
      BY <2>2
    <2>4. CASE m = 0
      <3>1. k[0] = <<>>
        BY <1>2, <1>3
      <3>2. {i \in 1..0 : s[i] \in S} = {}
        OBVIOUS
      <3>3. Cardinality({i \in 1..0 : s[i] \in S}) = 0
        BY <3>2, FS_EmptySet
      <3>4. Filters(R, s, S, <<>>, 0)
        BY <3>3 DEF Filters, Distinct
      <3> QED
        BY <2>3, <2>4, <3>1, <3>4
    <2>5. CASE m # 0
      <3>1. m \in 1..Len(s) /\ m - 1 \in 0..Len(s) /\ ~(m <= m - 1)
        BY <2>3, <2>5, <1>3
      <3>2. m - 1 \notin T
        <4> HIDE DEF T
        <4> QED
          BY <2>2, <3>1
      <3>3. Filters(R, s, S, k[m - 1], m - 1)
        BY <3>1, <3>2
      <3>4. k[m] = IF s[m] \in S THEN Append(k[m - 1], s[m]) ELSE k[m - 1]
        BY <1>2, <2>3, <2>5, ZenonT(60)
      <3> QED
        BY <2>3, <3>1, <3>3, <3>4, FiltersNext
    <2> QED
      BY <2>4, <2>5
  <1> QED
    BY <1>1, <1>3, <1>4

\* q is the part of s in S.
Kept(R, s, S, q) ==
    /\ q \in Seq(R)
    /\ Members(q) = Members(s) \cap S
    /\ Distinct(s) => Distinct(q)
    /\ Len(q) = Cardinality({i \in 1..Len(s) : s[i] \in S})

\* The row filter, in terms of the members.
LEMMA KeepIs ==
  ASSUME NEW R, NEW s \in Seq(R), NEW S
  PROVE  Kept(R, s, S, Keep(s, S))
  <1>1. Filters(R, s, S, Keep(s, S), Len(s))
    BY KeepFilters
  <1> DEFINE q == Keep(s, S)
  <1> HIDE DEF q
  <1>2. \A x : (\E i \in 1..Len(q) : q[i] = x) <=> (x \in S /\ \E i \in 1..Len(s) : s[i] = x)
    BY <1>1 DEF Filters, q
  <1>3. Members(q) = Members(s) \cap S
    BY <1>2, ZenonT(60) DEF Members
  <1> QED
    BY <1>1, <1>3 DEF Filters, q, Kept

\* u is s followed by t.
Joined(R, s, t, u) ==
    /\ u \in Seq(R)
    /\ Len(u) = Len(s) + Len(t)
    /\ Members(u) = Members(s) \cup Members(t)
    /\ Distinct(s) /\ Distinct(t) /\ Members(s) \cap Members(t) = {} => Distinct(u)

\* What the concatenation of two batches is.
LEMMA JoinedIs ==
  ASSUME NEW R, NEW s \in Seq(R), NEW t \in Seq(R)
  PROVE  Joined(R, s, t, s \o t)
  <1> DEFINE u == s \o t
  <1>1. /\ u \in Seq(R) /\ Len(u) = Len(s) + Len(t) /\ Len(s) \in Nat /\ Len(t) \in Nat
        /\ \A i \in 1..Len(s) : u[i] = s[i]
        /\ \A i \in 1..Len(t) : u[Len(s) + i] = t[i]
    BY ConcatProperties
  <1> HIDE DEF u
  <1>2. ASSUME NEW i \in 1..Len(u)
        PROVE  \/ i \in 1..Len(s) /\ u[i] = s[i]
               \/ \E j \in 1..Len(t) : i = Len(s) + j /\ u[i] = t[j]
    <2>1. CASE i <= Len(s)
      BY <1>1, <2>1
    <2>2. CASE ~(i <= Len(s))
      <3>1. i - Len(s) \in 1..Len(t) /\ i = Len(s) + (i - Len(s))
        BY <1>1, <2>2
      <3> QED
        BY <1>1, <3>1, ZenonT(60)
    <2> QED
      BY <2>1, <2>2
  <1>3. Members(u) = Members(s) \cup Members(t)
    <2>1. Members(u) \subseteq Members(s) \cup Members(t)
      BY <1>2 DEF Members
    <2>2. Members(s) \subseteq Members(u)
      <3>1. \A i \in 1..Len(s) : i \in 1..Len(u)
        BY <1>1
      <3> QED
        BY <1>1, <3>1 DEF Members
    <2>3. Members(t) \subseteq Members(u)
      <3>1. \A i \in 1..Len(t) : Len(s) + i \in 1..Len(u)
        BY <1>1
      <3> QED
        BY <1>1, <3>1 DEF Members
    <2> QED
      BY <2>1, <2>2, <2>3
  <1>4. ASSUME Distinct(s), Distinct(t), Members(s) \cap Members(t) = {} PROVE Distinct(u)
    <2> SUFFICES ASSUME NEW i \in 1..Len(u), NEW j \in 1..Len(u), u[i] = u[j] PROVE i = j
      BY DEF Distinct
    <2>1. CASE i \in 1..Len(s) /\ u[i] = s[i]
      <3>1. u[i] \in Members(s)
        BY <2>1 DEF Members
      <3>2. u[j] \notin Members(t)
        BY <1>4, <3>1
      <3>3. j \in 1..Len(s) /\ u[j] = s[j]
        BY <1>2, <3>2, ZenonT(60) DEF Members
      <3> QED
        BY <1>4, <2>1, <3>3, ZenonT(60) DEF Distinct
    <2>2. CASE \E k \in 1..Len(t) : i = Len(s) + k /\ u[i] = t[k]
      <3>1. u[i] \in Members(t)
        BY <2>2 DEF Members
      <3>2. u[j] \notin Members(s)
        BY <1>4, <3>1
      <3>3. \E k \in 1..Len(t) : j = Len(s) + k /\ u[j] = t[k]
        BY <1>2, <3>2, ZenonT(60) DEF Members
      <3> QED
        BY <1>4, <2>2, <3>3 DEF Distinct
    <2> QED
      BY <1>2, <2>1, <2>2
  <1> QED
    BY <1>1, <1>3, <1>4 DEF u, Joined

\* The requests in order.
LEMMA RequestsInOrder ==
  /\ AllRequests \in Seq(Request) /\ Distinct(AllRequests)
  /\ Members(AllRequests) = Request /\ Len(AllRequests) = NumRequests
  /\ \A i \in 1..NumRequests : AllRequests[i] = i - 1
  /\ NumRequests \in Nat \ {0}
  <1>1. NumRequests \in Nat \ {0}
    BY BatchAssumption
  <1>2. /\ Len(AllRequests) = NumRequests /\ \A i \in 1..NumRequests : AllRequests[i] = i - 1
        /\ AllRequests \in Seq(Request)
    <2>1. \A i \in 1..NumRequests : i - 1 \in Request
      BY <1>1 DEF Request
    <2> QED
      BY <1>1, <2>1 DEF AllRequests
  <1>3. Distinct(AllRequests)
    <2>1. \A i, j \in 1..NumRequests : i - 1 = j - 1 => i = j
      BY <1>1
    <2> QED
      BY <1>2, <2>1 DEF Distinct
  <1>4. Members(AllRequests) = Request
    <2>1. Members(AllRequests) \subseteq Request
      BY <1>1, <1>2 DEF Members, Request
    <2>2. ASSUME NEW r \in Request PROVE r \in Members(AllRequests)
      <3>1. r + 1 \in 1..NumRequests /\ (r + 1) - 1 = r
        BY <1>1 DEF Request
      <3>2. AllRequests[r + 1] = r
        BY <1>2, <3>1
      <3> QED
        BY <1>2, <3>1, <3>2 DEF Members
    <2> QED
      BY <2>1, <2>2
  <1> QED
    BY <1>1, <1>2, <1>3, <1>4

------------------------------------------------------------------------------
(* The states of a request.                                                *)

PipelineState ==
    [ tokens : Seq(Token), pre : BOOLEAN, committed : Nat, pending : Nat,
      epoch : Nat, segments : Nat, current : Nat ]

(* A state that some run of verifications of request r produced: the       *)
(* committed part is what token_ids says and what the target could have    *)
(* written by itself, and the accepted segments add up.                    *)
Sound(st, r) ==
    /\ st \in PipelineState
    /\ st.pre => st.pending = 0 /\ st.committed = Len(st.tokens)
    /\ ~st.pre => st.pending \in 1..Gamma /\ st.committed = Len(st.tokens) - (st.pending - 1)
    /\ PromptLen(r) < st.committed
    /\ st.segments + st.current = st.committed - PromptLen(r) - 1
    /\ \A p \in 1..PromptLen(r) : st.tokens[p] = Prompt[r][p]
    /\ \A p \in (PromptLen(r) + 1)..st.committed :
          st.tokens[p] \in TargetSupport(SubSeq(st.tokens, 1, p - 1))

Size(st) == VerificationSize(st, Gamma, 0)

\* Every page table holds MaxModelLen positions.
LEMMA CapacityFits == Capacity \in Nat /\ MaxModelLen <= Capacity
  <1> DEFINE x == MaxModelLen + BlockSize - 1
  <1>1. /\ x \in Nat /\ BlockSize \in Nat \ {0} /\ MaxModelLen \in Nat
    BY BatchAssumption
  <1>2. /\ x \div BlockSize \in Int /\ x % BlockSize \in 0..(BlockSize - 1)
        /\ x = BlockSize * (x \div BlockSize) + (x % BlockSize)
    <2> HIDE DEF x
    <2> QED
      BY <1>1
  <1>3. Capacity = (x \div BlockSize) * BlockSize
    BY DEF Capacity
  <1> DEFINE q == x \div BlockSize
  <1>4. q * BlockSize = BlockSize * q /\ BlockSize * q \in Int
    <2> HIDE DEF q, x
    <2> QED
      BY <1>1, <1>2 DEF q
  <1>5. BlockSize * q >= MaxModelLen
    <2>1. x - BlockSize * q <= BlockSize - 1
      <3> HIDE DEF x
      <3> QED
        BY <1>1, <1>2, <1>4
    <2> QED
      BY <1>1, <1>4, <2>1
  <1> QED
    BY <1>1, <1>3, <1>4, <1>5

\* What a sound state says about its verification window.
LEMMA SoundSize ==
  ASSUME NEW r \in Request, NEW st, Sound(st, r)
  PROVE  /\ Size(st) \in 1..Gamma
         /\ st.committed = Len(st.tokens) - Size(st) + 1
         /\ Len(st.tokens) \in Nat /\ st.tokens \in Seq(Token)
         /\ st.committed \in Nat /\ PromptLen(r) \in Nat \ {0}
         /\ st.committed <= Len(st.tokens)
         /\ st.pre \in BOOLEAN
  <1>1. Gamma \in Nat \ {0} /\ Prompt[r] \in Seq(Token) /\ Prompt[r] # <<>>
    BY BatchAssumption
  <1>2. PromptLen(r) \in Nat \ {0}
    BY <1>1, EmptySeq DEF PromptLen
  <1>3. st.tokens \in Seq(Token) /\ st.pre \in BOOLEAN /\ st.committed \in Nat /\ st.pending \in Nat
    BY DEF Sound, PipelineState
  <1>4. CASE st.pre
    BY <1>1, <1>2, <1>3, <1>4 DEF Sound, Size, VerificationSize
  <1>5. CASE ~st.pre
    BY <1>1, <1>2, <1>3, <1>5 DEF Sound, Size, VerificationSize
  <1> QED
    BY <1>4, <1>5

\* A window is the unverified tail of the tokens, followed by the new one.
LEMMA WindowIsTail ==
  ASSUME NEW r \in Request, NEW st, Sound(st, r),
         NEW w \in Seq(Token), Len(w) \in 1..Gamma
  PROVE  /\ VerificationWindow(st, w) \in Seq(Token)
         /\ Len(VerificationWindow(st, w)) = Size(st)
         /\ \A i \in 1..Size(st) : VerificationWindow(st, w)[i] = (st.tokens \o w)[st.committed + i]
  <1> DEFINE t == TakeLast(st.tokens, Size(st) - 1)
             n == Size(st)
             len == Len(st.tokens)
  <1>1. /\ n \in 1..Gamma /\ st.committed = len - n + 1 /\ len \in Nat /\ n <= len
        /\ st.tokens \in Seq(Token) /\ Gamma \in Nat /\ w[1] \in Token /\ Len(w) \in Nat \ {0}
    <2>1. Gamma \in Nat /\ Len(w) \in Nat \ {0}
      BY BatchAssumption
    <2>2. w[1] \in Token
      BY <2>1, ElementOfSeq
    <2>3. /\ n \in 1..Gamma /\ st.committed = len - n + 1 /\ len \in Nat /\ st.committed \in Nat
          /\ PromptLen(r) \in Nat /\ PromptLen(r) < st.committed /\ st.tokens \in Seq(Token)
      BY SoundSize DEF Sound
    <2> QED
      BY <2>1, <2>2, <2>3
  <1>2. t = SubSeq(st.tokens, len - (n - 1) + 1, len)
    BY DEF TakeLast
  <1>3. \A i \in (len - (n - 1) + 1)..len : st.tokens[i] \in Token
    BY <1>1
  <1> HIDE DEF n, len
  <1>4. /\ t \in Seq(Token) /\ Len(t) = n - 1
        /\ \A i \in 1..(n - 1) : t[i] = st.tokens[len - (n - 1) + i]
    <2> DEFINE m == len - (n - 1) + 1
    <2>1. m \in Int /\ len \in Int /\ m <= len + 1
      BY <1>1
    <2>2. /\ t \in Seq(Token)
          /\ Len(t) = IF m <= len THEN len - m + 1 ELSE 0
          /\ \A i \in 1..(len - m + 1) : t[i] = st.tokens[m + i - 1]
      <3>1. t = SubSeq(st.tokens, m, len) /\ \A i \in m..len : st.tokens[i] \in Token
        BY <1>2, <1>3
      <3> HIDE DEF m, t
      <3> QED
        BY <2>1, <3>1, SubSeqProperties
    <2> QED
      BY <1>1, <2>1, <2>2
  <1>5. VerificationWindow(st, w) = t \o <<w[1]>>
    BY DEF VerificationWindow, Size, n
  <1> HIDE DEF t
  <1>6. /\ t \o <<w[1]>> \in Seq(Token) /\ Len(t \o <<w[1]>>) = n
        /\ \A i \in 1..n : (t \o <<w[1]>>)[i] = IF i <= n - 1 THEN t[i] ELSE w[1]
    BY <1>1, <1>4
  <1>7. \A i \in 1..n : (st.tokens \o w)[st.committed + i]
                          = IF i <= n - 1 THEN st.tokens[st.committed + i] ELSE w[1]
    <2> TAKE i \in 1..n
    <2>1. st.committed + i \in 1..(len + Len(w))
      BY <1>1
    <2>2. (st.tokens \o w)[st.committed + i]
            = IF st.committed + i <= len THEN st.tokens[st.committed + i]
                                         ELSE w[st.committed + i - len]
      BY <1>1, <2>1, ConcatProperties DEF len
    <2> QED
      BY <1>1, <2>2
  <1>8. \A i \in 1..n : i <= n - 1 => t[i] = st.tokens[st.committed + i]
    BY <1>1, <1>4
  <1> QED
    BY <1>5, <1>6, <1>7, <1>8, ZenonT(60) DEF n

------------------------------------------------------------------------------
(* Verdicts.                                                               *)

\* A verdict accepts only tokens the target could have written, and corrects
\* the first other one with a token the target could have written there.
Legal(v, supports, proposed) ==
    /\ v.accepted \in 0..Len(proposed)
    /\ v.accepted = Len(proposed) <=> v.correction = NoToken
    /\ v.accepted # Len(proposed) => v.correction \in supports[v.accepted + 1]
    /\ \A i \in 1..v.accepted : proposed[i] \in supports[i]

\* A distribution over the vocabulary at each of n positions.
SupportsOK(supports, n) ==
    /\ Len(supports) = n
    /\ \A i \in 1..n : supports[i] \subseteq Token /\ supports[i] # {}

\* The greedy verdict is legal.
LEMMA GreedyLegal ==
  ASSUME NEW n \in Nat, NEW proposed, Len(proposed) = n,
         NEW supports, SupportsOK(supports, n),
         NEW predicted, \A j \in 1..n : predicted[j] \in supports[j]
  PROVE  Legal(GreedyVerdict(predicted, proposed), supports, proposed)
  <1> DEFINE mismatches == {i \in 1..Len(proposed) : predicted[i] # proposed[i]}
             first == CHOOSE i \in mismatches : \A j \in mismatches : i <= j
  <1>1. \A i \in 1..n : predicted[i] \in supports[i] /\ predicted[i] \in Token
    BY DEF SupportsOK
  <1>2. CASE mismatches = {}
    <2>1. GreedyVerdict(predicted, proposed) = [accepted |-> n, correction |-> NoToken]
      BY <1>2 DEF GreedyVerdict
    <2>2. \A i \in 1..n : proposed[i] = predicted[i]
      BY <1>2
    <2>3. \A i \in 1..n : proposed[i] \in supports[i]
      BY <1>1, <2>2
    <2> HIDE DEF mismatches, first
    <2> QED
      BY <2>1, <2>3 DEF Legal
  <1>3. CASE mismatches # {}
    <2>1. mismatches \subseteq 1..n /\ mismatches \subseteq Nat
      OBVIOUS
    <2>2. \E m \in mismatches : \A j \in mismatches : m <= j
      <3> HIDE DEF mismatches
      <3> QED
        BY <1>3, <2>1, LeastExists
    <2>3. first \in mismatches /\ \A j \in mismatches : first <= j
      <3> HIDE DEF mismatches
      <3> QED
        BY <2>2
    <2>4. GreedyVerdict(predicted, proposed)
            = [accepted |-> first - 1, correction |-> predicted[first]]
      BY <1>3 DEF GreedyVerdict
    <2>5. first \in 1..n /\ first - 1 \in 0..n /\ first - 1 # n
      BY <2>1, <2>3
    <2>6. \A i \in 1..(first - 1) : proposed[i] = predicted[i]
      <3>1. SUFFICES ASSUME NEW i \in 1..(first - 1), proposed[i] # predicted[i] PROVE FALSE
        OBVIOUS
      <3>2. i \in 1..n /\ ~(first <= i)
        BY <2>5
      <3>3. i \in mismatches
        BY <3>1, <3>2
      <3> QED
        BY <2>3, <3>2, <3>3
    <2>7. predicted[first] \in supports[first] /\ predicted[first] # NoToken
      BY <1>1, <2>5, TokenAssumption
    <2> HIDE DEF first, mismatches
    <2>8. \A i \in 1..(first - 1) : proposed[i] \in supports[i]
      <3> TAKE i \in 1..(first - 1)
      <3>1. i \in 1..n /\ proposed[i] = predicted[i]
        BY <2>5, <2>6
      <3> QED
        BY <1>1, <3>1
    <2>9. (first - 1) + 1 = first
      BY <2>5
    <2> QED
      BY <2>4, <2>5, <2>7, <2>8, <2>9 DEF Legal
  <1> QED
    BY <1>2, <1>3

\* Every verdict that sampling can produce is legal.
LEMMA SampledLegal ==
  ASSUME NEW n \in Nat, NEW proposed, Len(proposed) = n,
         NEW supports, SupportsOK(supports, n),
         NEW v \in StochasticVerdicts(supports, proposed)
  PROVE  Legal(v, supports, proposed)
  <1>1. \/ /\ v = [accepted |-> n, correction |-> NoToken]
           /\ \A i \in 1..n : proposed[i] \in supports[i]
        \/ \E k \in 0..(n - 1) : \E c \in supports[k + 1] :
              /\ v = [accepted |-> k, correction |-> c]
              /\ \A i \in 1..k : proposed[i] \in supports[i]
    BY DEF StochasticVerdicts
  <1>2. CASE v = [accepted |-> n, correction |-> NoToken] /\ \A i \in 1..n : proposed[i] \in supports[i]
    BY <1>2 DEF Legal
  <1>3. ASSUME NEW k \in 0..(n - 1), NEW c \in supports[k + 1],
               v = [accepted |-> k, correction |-> c],
               \A i \in 1..k : proposed[i] \in supports[i]
        PROVE  Legal(v, supports, proposed)
    <2>1. k \in 0..n /\ k # n /\ k + 1 \in 1..n
      OBVIOUS
    <2>2. c # NoToken
      BY <2>1, TokenAssumption DEF SupportsOK
    <2> QED
      BY <1>3, <2>1, <2>2 DEF Legal
  <1> QED
    BY <1>1, <1>2, <1>3

\* Whatever the temperature, a verdict is legal.
LEMMA VerdictLegal ==
  ASSUME NEW n \in Nat, NEW proposed, Len(proposed) = n,
         NEW supports, SupportsOK(supports, n),
         NEW v \in Verdicts(supports, proposed)
  PROVE  Legal(v, supports, proposed)
  <1>1. CASE Greedy
    <2> DEFINE predicted == [j \in 1..n |-> CHOOSE t \in supports[j] : TRUE]
    <2>1. v = GreedyVerdict(predicted, proposed)
      BY <1>1 DEF Verdicts, SupportsOK
    <2>2. \A j \in 1..n : predicted[j] \in supports[j]
      BY DEF SupportsOK
    <2> HIDE DEF predicted
    <2> QED
      BY <2>1, <2>2, GreedyLegal
  <1>2. CASE ~Greedy
    <2>1. v \in StochasticVerdicts(supports, proposed)
      BY <1>2 DEF Verdicts
    <2> QED
      BY <2>1, SampledLegal
  <1> QED
    BY <1>1, <1>2

------------------------------------------------------------------------------
(* The verification transitions.                                           *)

\* Sequences that agree up to n have the same prefix of length n.
LEMMA SamePrefix ==
  ASSUME NEW S, NEW s \in Seq(S), NEW t \in Seq(S), NEW n \in Nat,
         n <= Len(s), n <= Len(t), \A i \in 1..n : s[i] = t[i]
  PROVE  SubSeq(s, 1, n) = SubSeq(t, 1, n) /\ SubSeq(s, 1, n) \in Seq(S)
  <1>1. /\ \A i \in 1..n : s[i] \in S /\ t[i] \in S
        /\ 1 \in Int /\ n \in Int
    OBVIOUS
  <1>2. /\ SubSeq(s, 1, n) \in Seq(S) /\ SubSeq(t, 1, n) \in Seq(S)
        /\ Len(SubSeq(s, 1, n)) = n /\ Len(SubSeq(t, 1, n)) = n
        /\ \A i \in 1..n : SubSeq(s, 1, n)[i] = s[i] /\ SubSeq(t, 1, n)[i] = t[i]
    BY <1>1, SubSeqProperties
  <1> QED
    BY <1>2, SeqEqual

\* A rejected window is cut back to the accepted part and the correction.
LEMMA RolledBackIs ==
  ASSUME NEW r \in Request, NEW st, Sound(st, r),
         NEW a \in 0..(Size(st) - 1), NEW c \in Token,
         NEW new, new = RolledBack(st, st.tokens, Size(st), a, c)
  PROVE  /\ new \in Seq(Token) /\ Len(new) = st.committed + a + 1
         /\ new[st.committed + a + 1] = c
         /\ \A p \in 1..(st.committed + a) : new[p] = st.tokens[p]
  <1> DEFINE len == Len(st.tokens)
             n == Size(st)
             m == st.committed + a
  <1>1. /\ n \in 1..Gamma /\ Gamma \in Nat /\ st.committed = len - n + 1 /\ len \in Nat
        /\ st.tokens \in Seq(Token) /\ st.committed \in Nat /\ st.pre \in BOOLEAN
    BY SoundSize, BatchAssumption
  <1>2. m \in Nat /\ m <= len /\ m = len - (n - a - 1)
    <2>1. a \in 0..(n - 1)
      OBVIOUS
    <2> HIDE DEF n, len
    <2> QED
      BY <1>1, <2>1
  <1>3. PICK kept : new = Append(kept, c) /\ kept = SubSeq(st.tokens, 1, m)
    <2>1. CASE ~st.pre /\ n - a > 1
      <3>1. new = Append(DropLast(st.tokens, n - a - 1), c)
        BY <2>1 DEF RolledBack
      <3> QED
        BY <3>1, <1>2, ZenonT(60) DEF DropLast
    <2>2. CASE ~(~st.pre /\ n - a > 1)
      <3>1. n - a = 1
        <4>1. st.pre => n = 1
          BY DEF Size, VerificationSize
        <4> HIDE DEF n
        <4> QED
          BY <1>1, <2>2, <4>1 DEF n
      <3>2. m = len
        <4> HIDE DEF n, m, len
        <4> QED
          BY <1>1, <1>2, <3>1
      <3>3. SubSeq(st.tokens, 1, m) = st.tokens
        BY <1>1, <3>2, SubSeqFull
      <3>4. new = Append(st.tokens, c)
        BY <2>2 DEF RolledBack
      <3> QED
        BY <3>3, <3>4
    <2> QED
      BY <2>1, <2>2
  <1> HIDE DEF m, n, len
  <1>4. \A i \in 1..m : st.tokens[i] \in Token
    BY <1>1, <1>2 DEF len
  <1>5. kept \in Seq(Token) /\ Len(kept) = m /\ \A i \in 1..m : kept[i] = st.tokens[i]
    <2>1. m \in Int /\ 1 \in Int
      BY <1>2
    <2>2. /\ SubSeq(st.tokens, 1, m) \in Seq(Token)
          /\ Len(SubSeq(st.tokens, 1, m)) = IF 1 <= m THEN m - 1 + 1 ELSE 0
          /\ \A i \in 1..(m - 1 + 1) : SubSeq(st.tokens, 1, m)[i] = st.tokens[1 + i - 1]
      BY <1>4, <2>1, SubSeqProperties
    <2> QED
      BY <1>2, <1>3, <2>2
  <1>6. /\ new \in Seq(Token) /\ Len(new) = m + 1 /\ new[m + 1] = c
        /\ \A i \in 1..m : new[i] = kept[i]
    BY <1>3, <1>5, AppendProperties
  <1> QED
    BY <1>5, <1>6 DEF m

\* new is st after a of its unverified tokens were accepted, and either all were
\* and the window w is the next to verify, or c corrects the first other one.
Advanced(st, w, a, c, new) ==
    /\ new \in PipelineState
    /\ new.committed = st.committed + a + (IF a = Size(st) THEN 0 ELSE 1)
    /\ new.pre <=> (a # Size(st))
    /\ new.segments + new.current = st.segments + st.current + (new.committed - st.committed)
    /\ a = Size(st) => new.tokens = st.tokens \o w /\ new.pending = Len(w)
    /\ a # Size(st) => /\ Len(new.tokens) = new.committed /\ new.pending = 0
                       /\ new.tokens[new.committed] = c
    /\ new.committed <= Len(new.tokens)
    /\ \A p \in 1..(st.committed + a) : new.tokens[p] = (st.tokens \o w)[p]

\* What ApplyTargetVerification does to a sound state.
LEMMA VerdictApplied ==
  ASSUME NEW r \in Request, NEW st, Sound(st, r),
         NEW w \in Seq(Token), Len(w) \in 1..Gamma,
         NEW a \in 0..Size(st), NEW c, a # Size(st) => c \in Token,
         NEW new, new = ApplyTargetVerification(st, Size(st), a, c, w)
  PROVE  Advanced(st, w, a, c, new)
  <1> DEFINE n == Size(st)
  <1>1. /\ n \in 1..Gamma /\ Gamma \in Nat /\ st.committed = Len(st.tokens) - n + 1
        /\ Len(st.tokens) \in Nat /\ st.tokens \in Seq(Token) /\ st.committed \in Nat
    BY SoundSize, BatchAssumption
  <1>2. /\ st.epoch \in Nat /\ st.segments \in Nat /\ st.current \in Nat
        /\ Len(w) \in Nat \ {0}
    BY <1>1 DEF Sound, PipelineState
  <1>0. a \in Nat /\ a <= n /\ st.committed \in Nat
    BY <1>1
  <1>6. st.segments \in Nat /\ st.current \in Nat /\ st.epoch \in Nat
    BY <1>2
  <1>3. /\ st.tokens \o w \in Seq(Token) /\ Len(st.tokens \o w) = Len(st.tokens) + Len(w)
        /\ \A p \in 1..Len(st.tokens) : (st.tokens \o w)[p] = st.tokens[p]
    BY <1>1, <1>2, ConcatProperties
  <1>4. CASE a = n
    <2>1. new = [ tokens |-> st.tokens \o w, pre |-> FALSE, committed |-> st.committed + a + 0,
                  pending |-> Len(w), epoch |-> st.epoch + 1, segments |-> st.segments,
                  current |-> st.current + a ]
      BY <1>4, ZenonT(60) DEF ApplyTargetVerification, Account
    <2> HIDE DEF n
    <2>2. new \in PipelineState
      <3>1. /\ st.committed + a + 0 \in Nat /\ st.epoch + 1 \in Nat /\ st.current + a \in Nat
        BY <1>0, <1>6
      <3>2. st.tokens \o w \in Seq(Token) /\ Len(w) \in Nat /\ st.segments \in Nat
        BY <1>2, <1>3
      <3> QED
        BY <2>1, <3>1, <3>2 DEF PipelineState
    <2>3. new.committed <= Len(new.tokens)
      BY <1>1, <1>2, <1>3, <2>1, <1>4
    <2>5. ~new.pre
      BY <2>1
    <2>6. /\ new.committed = st.committed + a
          /\ new.tokens = st.tokens \o w /\ new.pending = Len(w)
          /\ new.segments = st.segments /\ new.current = st.current + a
      BY <1>0, <2>1
    <2>4. \A p \in 1..(st.committed + a) : new.tokens[p] = (st.tokens \o w)[p]
      BY <2>6
    <2>7. new.segments + new.current = st.segments + st.current + (new.committed - st.committed)
      BY <1>0, <1>6, <2>6
    <2>8. st.committed + a + (IF a = Size(st) THEN 0 ELSE 1) = st.committed + a
      BY <1>0, <1>4 DEF n
    <2> QED
      BY <1>4, <2>2, <2>3, <2>4, <2>5, <2>6, <2>7, <2>8, ZenonT(60) DEF n, Advanced
  <1>5. CASE a # n
    <2> DEFINE t == RolledBack(st, st.tokens, Size(st), a, c)
    <2>1. new = [ tokens |-> t, pre |-> TRUE, committed |-> st.committed + a + 1,
                  pending |-> 0, epoch |-> st.epoch + 1,
                  segments |-> st.segments + st.current + a + 1, current |-> 0 ]
      BY <1>5, ZenonT(60) DEF ApplyTargetVerification, Account
    <2>2. a \in 0..(Size(st) - 1)
      BY <1>1, <1>5
    <2>3. /\ t \in Seq(Token) /\ Len(t) = st.committed + a + 1
          /\ t[st.committed + a + 1] = c
          /\ \A p \in 1..(st.committed + a) : t[p] = st.tokens[p]
      BY <1>5, <2>2, RolledBackIs
    <2> HIDE DEF t, n
    <2>4. new \in PipelineState
      <3>1. st.committed + a + 1 \in Nat
        BY <1>0
      <3>2. st.epoch + 1 \in Nat
        BY <1>6
      <3>3. st.segments + st.current + a + 1 \in Nat
        BY <1>0, <1>6
      <3> QED
        BY <2>1, <2>3, <3>1, <3>2, <3>3 DEF PipelineState
    <2>5. \A p \in 1..(st.committed + a) : p \in 1..Len(st.tokens)
      BY <1>1, <2>2 DEF n
    <2>6. \A p \in 1..(st.committed + a) : new.tokens[p] = (st.tokens \o w)[p]
      BY <1>3, <2>1, <2>3, <2>5
    <2>7. new.pre
      BY <2>1
    <2>8. /\ new.committed = st.committed + a + 1
          /\ new.tokens = t /\ new.pending = 0
          /\ new.segments = st.segments + st.current + a + 1 /\ new.current = 0
      BY <2>1
    <2>9. new.segments + new.current = st.segments + st.current + (new.committed - st.committed)
      <3>1. new.committed - st.committed = a + 1
        BY <1>0, <2>8
      <3>2. new.segments + new.current = st.segments + st.current + a + 1
        BY <1>0, <1>6, <2>8
      <3> QED
        BY <1>0, <1>6, <3>1, <3>2
    <2>10. /\ new.committed <= Len(new.tokens) /\ Len(new.tokens) = new.committed
           /\ new.tokens[new.committed] = c
      <3>1. new.committed \in Nat
        BY <1>0, <2>8
      <3>2. Len(new.tokens) = new.committed /\ new.tokens[new.committed] = c
        BY <2>3, <2>8
      <3> QED
        BY <3>1, <3>2
    <2>11. st.committed + a + (IF a = Size(st) THEN 0 ELSE 1) = st.committed + a + 1
      BY <1>5 DEF n
    <2> QED
      BY <1>5, <2>4, <2>6, <2>7, <2>8, <2>9, <2>10, <2>11, ZenonT(60) DEF n, Advanced
  <1> QED
    BY <1>4, <1>5

\* The distributions the target computes for the window of st.
TargetSays(st, supports) ==
    \A i \in 1..Size(st) : /\ supports[i] = TargetSupport(SubSeq(st.tokens, 1, st.committed + i - 1))
                           /\ supports[i] \subseteq Token

\* new continues st: a verdict on st, and w is the window drafted meanwhile.
Step(st, w, new) ==
    /\ new.committed \in st.committed..(st.committed + Size(st))
    /\ \A p \in 1..st.committed : new.tokens[p] = st.tokens[p]
    /\ new.pre => \A p \in 1..(Len(new.tokens) - 1) : new.tokens[p] = st.tokens[p]
    /\ ~new.pre => new.tokens = st.tokens \o w /\ new.pending = Len(w)

\* A legal verdict takes a sound state to a sound state that continues it.
LEMMA AppliedSound ==
  ASSUME NEW r \in Request, NEW st, Sound(st, r),
         NEW w \in Seq(Token), Len(w) \in 1..Gamma,
         NEW supports, TargetSays(st, supports),
         NEW v, Legal(v, supports, VerificationWindow(st, w)),
         NEW new, new = ApplyTargetVerification(st, Size(st), v.accepted, v.correction, w)
  PROVE  Sound(new, r) /\ Step(st, w, new)
  <1> DEFINE n == Size(st)
             len == Len(st.tokens)
             a == v.accepted
             c == v.correction
             k == st.committed
             PL == PromptLen(r)
             ext == st.tokens \o w
  <1>1. /\ n \in 1..Gamma /\ Gamma \in Nat /\ k = len - n + 1 /\ len \in Nat
        /\ st.tokens \in Seq(Token) /\ k \in Nat /\ PL \in Nat \ {0} /\ PL < k
    BY SoundSize, BatchAssumption DEF Sound
  <1>2. /\ Len(VerificationWindow(st, w)) = n
        /\ \A i \in 1..n : VerificationWindow(st, w)[i] = ext[k + i]
    BY WindowIsTail, ZenonT(60)
  <1>3. /\ a \in 0..n
        /\ a # n => c \in supports[a + 1]
        /\ \A i \in 1..a : ext[k + i] \in supports[i]
    <2>1. /\ a \in 0..n
          /\ a # n => c \in supports[a + 1]
          /\ \A i \in 1..a : VerificationWindow(st, w)[i] \in supports[i]
      BY <1>2 DEF Legal
    <2> HIDE DEF n, a, ext
    <2>2. \A i \in 1..a : i \in 1..n
      BY <1>1, <2>1
    <2> QED
      BY <1>2, <2>1, <2>2
  <1>4. a # n => c \in Token
    <2>1. a # n => a + 1 \in 1..n
      <3> HIDE DEF a, n
      <3> QED
        BY <1>1, <1>3
    <2> QED
      BY <1>3, <2>1 DEF TargetSays
  <1>5. /\ new \in PipelineState
        /\ new.committed = k + a + (IF a = n THEN 0 ELSE 1)
        /\ new.pre <=> (a # n)
        /\ new.segments + new.current = st.segments + st.current + (new.committed - k)
        /\ a = n => new.tokens = ext /\ new.pending = Len(w)
        /\ a # n => /\ Len(new.tokens) = new.committed /\ new.pending = 0
                    /\ new.tokens[new.committed] = c
        /\ new.committed <= Len(new.tokens)
        /\ \A p \in 1..(k + a) : new.tokens[p] = ext[p]
    <2>1. /\ a \in 0..Size(st)
          /\ a # Size(st) => c \in Token
          /\ new = ApplyTargetVerification(st, Size(st), a, c, w)
      BY <1>3, <1>4
    <2> HIDE DEF a, c
    <2>2. Advanced(st, w, a, c, new)
      BY <2>1, VerdictApplied
    <2> QED
      BY <2>2, ZenonT(60) DEF Advanced
  <1>6. /\ Len(w) \in Nat \ {0} /\ Len(ext) = len + Len(w) /\ ext \in Seq(Token)
        /\ \A p \in 1..len : ext[p] = st.tokens[p]
    BY <1>1, ConcatProperties
  <1>7. \A i \in 1..n : supports[i] = TargetSupport(SubSeq(st.tokens, 1, k + i - 1))
    BY DEF TargetSays
  <1>8. new.tokens \in Seq(Token) /\ new.committed \in Nat
    BY <1>5 DEF PipelineState
  <1>9. st.segments \in Nat /\ st.current \in Nat /\ st.segments + st.current = k - PL - 1
        /\ new.segments \in Nat /\ new.current \in Nat
    BY <1>5 DEF Sound, PipelineState
  <1>10. /\ \A p \in 1..PL : st.tokens[p] = Prompt[r][p]
         /\ \A p \in (PL + 1)..k : st.tokens[p] \in TargetSupport(SubSeq(st.tokens, 1, p - 1))
    BY DEF Sound
  <1> HIDE DEF n, len, a, c, k, PL, ext
  <1>0. /\ a \in Nat /\ n \in Nat /\ k \in Nat /\ len \in Nat /\ PL \in Nat
        /\ a <= n /\ k + n = len + 1 /\ PL < k /\ 0 < n
    BY <1>1, <1>3
  <1>00. a = n => new.committed = k + n
    BY <1>0, <1>5
  <1>01. a # n => new.committed = k + a + 1
    BY <1>5
  <1>11. \A p \in 1..(k + a) : p <= len => new.tokens[p] = st.tokens[p]
    BY <1>1, <1>5, <1>6
  <1>12. new.committed \in k..(k + n)
    BY <1>0, <1>00, <1>01
  <1>13. \A p \in 1..k : new.tokens[p] = st.tokens[p]
    BY <1>1, <1>3, <1>11
  <1>14. \A p \in (PL + 1)..new.committed :
            new.tokens[p] \in TargetSupport(SubSeq(new.tokens, 1, p - 1))
    <2> TAKE p \in (PL + 1)..new.committed
    <2>1. p \in Nat /\ p - 1 \in Nat /\ p - 1 <= len /\ p - 1 <= k + a /\ p <= k + a + 1
          /\ p - 1 <= Len(new.tokens)
      BY <1>1, <1>3, <1>5, <1>8
    <2>2. \A i \in 1..(p - 1) : new.tokens[i] = st.tokens[i]
      <3> TAKE i \in 1..(p - 1)
      <3>1. i \in 1..(k + a) /\ i <= len
        BY <1>0, <2>1
      <3> QED
        BY <1>11, <3>1
    <2>3. SubSeq(new.tokens, 1, p - 1) = SubSeq(st.tokens, 1, p - 1)
      BY <1>1, <1>8, <2>1, <2>2, SamePrefix DEF len
    <2>4. CASE p <= k
      <3>1. p \in (PL + 1)..k /\ p \in 1..k
        BY <1>0, <2>1, <2>4
      <3> QED
        BY <1>10, <1>13, <2>3, <3>1, ZenonT(60)
    <2>5. CASE k < p /\ p <= k + a
      <3> DEFINE i == p - k
      <3>1. i \in 1..a /\ i \in 1..n /\ k + i = p /\ k + i - 1 = p - 1
        BY <1>1, <1>3, <2>1, <2>5
      <3> HIDE DEF i
      <3>2. ext[p] \in TargetSupport(SubSeq(st.tokens, 1, p - 1))
        <4>1. ext[k + i] \in supports[i]
          BY <1>3, <3>1, ZenonT(60)
        <4>2. supports[i] = TargetSupport(SubSeq(st.tokens, 1, k + i - 1))
          BY <1>7, <3>1, ZenonT(60)
        <4> QED
          BY <3>1, <4>1, <4>2, ZenonT(60)
      <3>3. new.tokens[p] = ext[p]
        BY <1>5, <1>1, <2>1, <2>5
      <3> QED
        BY <2>3, <3>2, <3>3, ZenonT(60)
    <2>6. CASE p = k + a + 1
      <3>1. a # n /\ new.committed = p
        <4>1. p <= new.committed
          OBVIOUS
        <4> QED
          BY <1>0, <1>00, <1>01, <2>6, <4>1
      <3>2. a + 1 \in 1..n /\ k + (a + 1) - 1 = p - 1
        BY <1>1, <1>3, <2>6, <3>1
      <3>3. c \in TargetSupport(SubSeq(st.tokens, 1, p - 1))
        BY <1>3, <1>7, <3>1, <3>2
      <3> QED
        BY <1>5, <2>3, <3>1, <3>3, ZenonT(60)
    <2> QED
      BY <1>1, <1>3, <2>1, <2>4, <2>5, <2>6
  <1>15. \A p \in 1..PL : new.tokens[p] = Prompt[r][p]
    <2> TAKE p \in 1..PL
    <2>1. p \in 1..k
      BY <1>0
    <2> QED
      BY <1>10, <1>13, <2>1, ZenonT(60)
  <1>16. new.segments + new.current = new.committed - PL - 1
    <2>1. new.segments + new.current = st.segments + st.current + (new.committed - k)
      BY <1>5, ZenonT(60)
    <2> QED
      BY <1>0, <1>8, <1>9, <2>1
  <1>17. PL < new.committed
    BY <1>1, <1>12
  <1>18. ~new.pre => new.pending \in 1..Gamma /\ new.committed = Len(new.tokens) - (new.pending - 1)
    <2>1. SUFFICES ASSUME a = n
                   PROVE  new.pending \in 1..Gamma /\ new.committed = Len(new.tokens) - (new.pending - 1)
      BY <1>5
    <2>2. new.pending = Len(w) /\ Len(new.tokens) = len + Len(w) /\ new.committed = k + n
      BY <1>00, <1>5, <1>6, <2>1
    <2> QED
      BY <1>0, <1>6, <2>2
  <1>19. new.pre => new.pending = 0 /\ new.committed = Len(new.tokens)
    BY <1>5, ZenonT(60)
  <1>20. new.pre => \A p \in 1..(Len(new.tokens) - 1) : new.tokens[p] = st.tokens[p]
    <2>1. SUFFICES ASSUME a # n, NEW p \in 1..(Len(new.tokens) - 1)
                   PROVE  new.tokens[p] = st.tokens[p]
      BY <1>5
    <2>2. Len(new.tokens) = k + a + 1
      BY <1>01, <1>5, <2>1
    <2>3. p \in 1..(k + a) /\ p <= len
      BY <1>0, <2>1, <2>2
    <2> QED
      BY <1>11, <2>3
  <1>21. Sound(new, r)
    BY <1>5, <1>14, <1>15, <1>16, <1>17, <1>18, <1>19, ZenonT(60) DEF Sound, PL
  <1> QED
    BY <1>5, <1>12, <1>13, <1>20, <1>21, ZenonT(60) DEF n, k, ext, Step

\* The draft's transition, on a state that already holds the draft's own
\* window, is the target's.
LEMMA DraftMirrorsTarget ==
  ASSUME NEW st, st \in PipelineState, NEW w \in Seq(Token), NEW e, NEW a, NEW c
  PROVE  ApplyDraftVerification([st EXCEPT !.tokens = @ \o w], e, a, c, w)
           = ApplyTargetVerification(st, e, a, c, w)
  <1> DEFINE x == [st EXCEPT !.tokens = @ \o w]
             t == st.tokens \o w
  <1>1. st.tokens \in Seq(Token) /\ Len(st.tokens) \in Nat /\ Len(w) \in Nat
    BY DEF PipelineState
  <1>2. /\ x.tokens = t /\ x.committed = st.committed /\ x.epoch = st.epoch
        /\ x.segments = st.segments /\ x.current = st.current /\ x.pre = st.pre
    BY DEF PipelineState
  <1>3. /\ t \in Seq(Token) /\ Len(t) = Len(st.tokens) + Len(w)
        /\ \A i \in 1..Len(st.tokens) : t[i] = st.tokens[i]
    BY <1>1, ConcatProperties
  <1>4. DropLast(x.tokens, Len(w)) = st.tokens
    <2>1. DropLast(x.tokens, Len(w)) = SubSeq(t, 1, Len(st.tokens))
      BY <1>1, <1>2, <1>3 DEF DropLast
    <2>2. SubSeq(t, 1, Len(st.tokens)) = SubSeq(st.tokens, 1, Len(st.tokens))
      <3> HIDE DEF t
      <3> QED
        BY <1>1, <1>3, SamePrefix
    <2>3. SubSeq(st.tokens, 1, Len(st.tokens)) = st.tokens
      BY <1>1, SubSeqFull
    <2> QED
      BY <2>1, <2>2, <2>3
  <1> HIDE DEF x, t
  <1>5. RolledBack(x, st.tokens, e, a, c) = RolledBack(st, st.tokens, e, a, c)
    BY <1>2 DEF RolledBack
  <1>6. \A y : Account(x, y, e, a, w) = Account(st, y, e, a, w)
    BY <1>2 DEF Account
  <1> QED
    BY <1>2, <1>4, <1>5, <1>6, ZenonT(60) DEF ApplyDraftVerification, ApplyTargetVerification, x, t

------------------------------------------------------------------------------
(* The KV caches.                                                          *)

Cache == [1..Capacity -> Token \cup {NoToken}]

\* The cache holds the first n tokens.
FreshTo(cache, tokens, n) == \A p \in 1..n : cache[p] = tokens[p]

\* A forward of the target over a row leaves all its tokens in the cache and
\* touches nothing before the row.
LEMMA VerifiedRowFed ==
  ASSUME NEW st, st.tokens \in Seq(Token), Size(st) \in 1..Gamma, Size(st) <= Len(st.tokens),
         NEW cache \in Cache,
         NEW width \in Nat, Size(st) <= width,
         TargetStart(st, Size(st)) + width - 1 <= Capacity,
         FreshTo(cache, st.tokens, Len(st.tokens) - Size(st)),
         NEW new, new = Written(cache, TargetStart(st, Size(st)), TargetFeed(st, Size(st), width))
  PROVE  /\ new \in Cache /\ FreshTo(new, st.tokens, Len(st.tokens))
         /\ Len(st.tokens) <= Capacity
         /\ \A p \in 1..(Len(st.tokens) - Size(st)) : new[p] = cache[p]
  <1> DEFINE n == Size(st)
             len == Len(st.tokens)
             start == TargetStart(st, Size(st))
             feed == TargetFeed(st, Size(st), width)
             t == TakeLast(st.tokens, Size(st))
  <1>1. /\ n \in 1..Gamma /\ Gamma \in Nat /\ len \in Nat /\ n <= len /\ start = len - n + 1
        /\ st.tokens \in Seq(Token)
    <2>1. /\ n \in 1..Gamma /\ Gamma \in Nat /\ len \in Nat /\ n <= len /\ st.tokens \in Seq(Token)
      BY BatchAssumption
    <2>2. start = len - n + 1
      BY DEF TargetStart
    <2> HIDE DEF n, len, start
    <2> QED
      BY <2>1, <2>2
  <1>2. Capacity \in Nat
    BY CapacityFits
  <1>3. \A i \in start..len : st.tokens[i] \in Token
    BY <1>1
  <1>4. t = SubSeq(st.tokens, start, len)
    BY <1>1 DEF TakeLast
  <1>5. feed = [j \in 1..width |-> IF j <= n THEN t[j] ELSE t[n]]
    BY DEF TargetFeed
  <1>6. new = [p \in DOMAIN cache |->
                  IF p \in start..(start + Len(feed) - 1) THEN feed[p - start + 1] ELSE cache[p]]
    BY DEF Written
  <1>7. start + width - 1 <= Capacity /\ n <= width /\ DOMAIN cache = 1..Capacity
        /\ \A p \in 1..(len - n) : cache[p] = st.tokens[p]
    BY DEF Cache, FreshTo
  <1> HIDE DEF n, len, start, feed, t
  <1>8. \A j \in 1..n : t[j] = st.tokens[start + j - 1] /\ t[j] \in Token
    <2>1. start \in Int /\ len \in Int
      BY <1>1
    <2>2. \A i \in 1..(len - start + 1) : SubSeq(st.tokens, start, len)[i] = st.tokens[start + i - 1]
      BY <1>3, <2>1, SubSeqProperties
    <2> TAKE j \in 1..n
    <2>3. j \in 1..(len - start + 1) /\ start + j - 1 \in start..len
      BY <1>1
    <2> QED
      BY <1>3, <1>4, <2>2, <2>3, ZenonT(60)
  <1>9. Len(feed) = width /\ \A j \in 1..width : feed[j] \in Token
    <2>1. \A j \in 1..width : feed[j] = IF j <= n THEN t[j] ELSE t[n]
      BY <1>5
    <2>2. Len(feed) = width
      BY <1>5
    <2>3. ASSUME NEW j \in 1..width PROVE feed[j] \in Token
      <3>1. n \in 1..n /\ (j <= n => j \in 1..n)
        BY <1>1
      <3>2. t[n] \in Token /\ (j <= n => t[j] \in Token)
        BY <1>8, <3>1
      <3> QED
        BY <2>1, <3>2
    <2> QED
      BY <2>2, <2>3
  <1>10. \A p \in 1..Capacity : new[p] = IF p \in start..(start + width - 1)
                                         THEN feed[p - start + 1] ELSE cache[p]
    BY <1>6, <1>7, <1>9
  <1>11. new \in Cache
    <2>1. DOMAIN new = 1..Capacity /\ new = [p \in 1..Capacity |-> new[p]]
      BY <1>6, <1>7
    <2>2. \A p \in 1..Capacity : new[p] \in Token \cup {NoToken}
      <3> TAKE p \in 1..Capacity
      <3>1. CASE p \in start..(start + width - 1)
        <4>1. p - start + 1 \in 1..width
          BY <1>1, <3>1
        <4> QED
          BY <1>9, <1>10, <3>1, <4>1
      <3>2. CASE p \notin start..(start + width - 1)
        BY <1>10, <3>2 DEF Cache
      <3> QED
        BY <3>1, <3>2
    <2> QED
      BY <2>1, <2>2 DEF Cache
  <1>12. len <= Capacity
    BY <1>1, <1>2, <1>7
  <1>13. ASSUME NEW p \in 1..len PROVE new[p] = st.tokens[p]
    <2>1. CASE p < start
      <3>1. p \in 1..(len - n) /\ p \in 1..Capacity /\ p \notin start..(start + width - 1)
        BY <1>1, <1>2, <1>12, <2>1
      <3> QED
        BY <1>7, <1>10, <3>1
    <2>2. CASE start <= p
      <3> DEFINE j == p - start + 1
      <3>1. j \in 1..n /\ j \in 1..width /\ start + j - 1 = p /\ p \in 1..Capacity
            /\ p \in start..(start + width - 1)
        <4>1. /\ n \in Nat /\ len \in Nat /\ start = len - n + 1 /\ n <= len /\ n <= width
          BY <1>1, <1>7
        <4>2. p \in Nat /\ 1 <= p /\ p <= len
          BY <1>1
        <4> QED
          BY <1>2, <1>12, <2>2, <4>1, <4>2
      <3>2. feed[j] = t[j]
        <4> HIDE DEF j
        <4> QED
          BY <1>5, <3>1
      <3>3. t[j] = st.tokens[p]
        <4> HIDE DEF j
        <4> QED
          BY <1>8, <3>1
      <3> QED
        BY <1>10, <3>1, <3>2, <3>3
    <2> QED
      BY <1>1, <2>1, <2>2
  <1>14. \A p \in 1..(len - n) : new[p] = cache[p]
    <2> TAKE p \in 1..(len - n)
    <2>1. p \in 1..len
      BY <1>1
    <2> QED
      BY <1>7, <1>13, <2>1
  <1> QED
    BY <1>11, <1>12, <1>13, <1>14 DEF FreshTo, len, n

\* ... of a sound state.
LEMMA TargetFed ==
  ASSUME NEW r \in Request, NEW st, Sound(st, r), NEW cache \in Cache,
         NEW width \in Nat, Size(st) <= width,
         TargetStart(st, Size(st)) + width - 1 <= Capacity,
         FreshTo(cache, st.tokens, Len(st.tokens) - Size(st)),
         NEW new, new = Written(cache, TargetStart(st, Size(st)), TargetFeed(st, Size(st), width))
  PROVE  /\ new \in Cache /\ FreshTo(new, st.tokens, Len(st.tokens))
         /\ Len(st.tokens) <= Capacity
         /\ \A p \in 1..(Len(st.tokens) - Size(st)) : new[p] = cache[p]
  <1>1. /\ Size(st) \in 1..Gamma /\ Gamma \in Nat /\ Len(st.tokens) \in Nat
        /\ st.committed = Len(st.tokens) - Size(st) + 1
        /\ st.committed \in Nat /\ PromptLen(r) \in Nat /\ PromptLen(r) < st.committed
        /\ st.tokens \in Seq(Token)
    BY SoundSize, BatchAssumption DEF Sound
  <1>2. Size(st) <= Len(st.tokens)
    BY <1>1
  <1> QED
    BY <1>1, <1>2, VerifiedRowFed

\* With a fresh cache the target's outputs are distributions.
LEMMA PredictionsAre ==
  ASSUME NEW st, st.tokens \in Seq(Token), Size(st) \in 1..Gamma, Size(st) <= Len(st.tokens),
         NEW cache \in Cache, FreshTo(cache, st.tokens, Len(st.tokens)), Len(st.tokens) <= Capacity
  PROVE  SupportsOK(Predictions(cache, st, Size(st)), Size(st))
  <1> DEFINE n == Size(st)
             P == Predictions(cache, st, n)
             len == Len(st.tokens)
  <1>1. /\ n \in Nat \ {0} /\ len \in Nat /\ n <= len
        /\ st.tokens \in Seq(Token) /\ len <= Capacity /\ Capacity \in Nat
    BY BatchAssumption, CapacityFits
  <1>2. P = [j \in 1..n |-> TargetSupport(CachedPrefix(cache, TargetStart(st, n) + j - 1))]
    BY DEF Predictions
  <1>3. TargetStart(st, n) = len - n + 1
    BY DEF TargetStart
  <1>4. Len(P) = n /\ \A j \in 1..n : P[j] = TargetSupport(CachedPrefix(cache, len - n + 1 + j - 1))
    <2> HIDE DEF n
    <2> QED
      BY <1>1, <1>2, <1>3
  <1>5. \A q \in 1..len : cache[q] = st.tokens[q]
    BY DEF FreshTo
  <1> HIDE DEF n, P, len
  <1>6. ASSUME NEW j \in 1..n
        PROVE  P[j] \subseteq Token /\ P[j] # {}
    <2> DEFINE p == len - n + 1 + j - 1
    <2>1. p \in Nat /\ p <= len /\ p \in 0..Capacity
      BY <1>1
    <2> HIDE DEF p
    <2>2. \A q \in 1..p : st.tokens[q] \in Token /\ cache[q] = st.tokens[q]
      BY <1>1, <1>5, <2>1 DEF len
    <2>3. CachedPrefix(cache, p) \in [1..p -> Token]
      BY <2>2 DEF CachedPrefix
    <2>4. TargetSupport(CachedPrefix(cache, p)) \subseteq Token /\ TargetSupport(CachedPrefix(cache, p)) # {}
      BY <2>1, <2>3, SupportAssumption, ZenonT(60)
    <2> QED
      BY <1>4, <2>4 DEF p
  <1> QED
    BY <1>4, <1>6 DEF SupportsOK, n, P

\* With a fresh cache the target's outputs are what it says about the tokens.
LEMMA PredictionsSay ==
  ASSUME NEW r \in Request, NEW st, Sound(st, r), NEW cache \in Cache,
         FreshTo(cache, st.tokens, Len(st.tokens)), Len(st.tokens) <= Capacity
  PROVE  /\ SupportsOK(Predictions(cache, st, Size(st)), Size(st))
         /\ TargetSays(st, Predictions(cache, st, Size(st)))
  <1> DEFINE n == Size(st)
             P == Predictions(cache, st, n)
             len == Len(st.tokens)
  <1>1. /\ n \in Nat /\ len \in Nat /\ st.committed = len - n + 1
        /\ st.committed \in Nat /\ PromptLen(r) \in Nat /\ PromptLen(r) < st.committed
        /\ st.tokens \in Seq(Token) /\ len <= Capacity /\ Capacity \in Nat
    BY SoundSize, BatchAssumption, CapacityFits DEF Sound
  <1>2. P = [j \in 1..n |-> TargetSupport(CachedPrefix(cache, TargetStart(st, n) + j - 1))]
    BY DEF Predictions
  <1>3. TargetStart(st, n) = st.committed
    BY <1>1 DEF TargetStart
  <1>4. Len(P) = n /\ \A j \in 1..n : P[j] = TargetSupport(CachedPrefix(cache, st.committed + j - 1))
    <2> HIDE DEF n
    <2> QED
      BY <1>1, <1>2, <1>3
  <1>5. \A q \in 1..len : cache[q] = st.tokens[q]
    BY DEF FreshTo
  <1> HIDE DEF n, P, len
  <1>6. ASSUME NEW j \in 1..n
        PROVE  /\ P[j] = TargetSupport(SubSeq(st.tokens, 1, st.committed + j - 1))
               /\ P[j] \subseteq Token /\ P[j] # {}
    <2> DEFINE p == st.committed + j - 1
    <2>1. p \in Nat /\ p <= len /\ p \in 0..Capacity /\ p \in Int /\ 1 \in Int
      BY <1>1
    <2> HIDE DEF p
    <2>2. \A q \in 1..p : st.tokens[q] \in Token /\ cache[q] = st.tokens[q]
      BY <1>1, <1>5, <2>1 DEF len
    <2>3. /\ SubSeq(st.tokens, 1, p) \in Seq(Token) /\ Len(SubSeq(st.tokens, 1, p)) = p
          /\ \A i \in 1..p : SubSeq(st.tokens, 1, p)[i] = st.tokens[i]
      BY <2>1, <2>2, SubSeqProperties
    <2>4. SubSeq(st.tokens, 1, p) = [q \in 1..p |-> st.tokens[q]]
      BY <2>1, <2>3
    <2>5. CachedPrefix(cache, p) = [q \in 1..p |-> st.tokens[q]]
      BY <2>2 DEF CachedPrefix
    <2>6. [q \in 1..p |-> st.tokens[q]] \in [1..p -> Token]
      BY <2>2
    <2>7. P[j] = TargetSupport(SubSeq(st.tokens, 1, p))
      BY <1>4, <2>4, <2>5, ZenonT(60) DEF p
    <2>8. TargetSupport(SubSeq(st.tokens, 1, p)) \subseteq Token
          /\ TargetSupport(SubSeq(st.tokens, 1, p)) # {}
      BY <2>1, <2>4, <2>6, SupportAssumption, ZenonT(60)
    <2> QED
      BY <2>7, <2>8 DEF p
  <1> QED
    BY <1>4, <1>6 DEF SupportsOK, TargetSays, n, P

\* The draft's forwards leave the tokens and the window but its last token in
\* the cache.
LEMMA WindowFed ==
  ASSUME NEW st, st.tokens \in Seq(Token), st.tokens # <<>>, NEW cache \in Cache,
         NEW w \in Seq(Token), Len(w) \in 1..Gamma,
         DraftLastPosition(st, Len(w)) <= Capacity,
         FreshTo(cache, st.tokens, Len(st.tokens) - 1),
         NEW new, new = Written(cache, Len(st.tokens), DraftFeed(st, w))
  PROVE  /\ new \in Cache /\ FreshTo(new, st.tokens \o w, Len(st.tokens) + Len(w) - 1)
         /\ \A p \in 1..(Len(st.tokens) - 1) : new[p] = cache[p]
  <1> DEFINE len == Len(st.tokens)
             n == Len(w)
             feed == DraftFeed(st, w)
             rest == SubSeq(w, 1, n - 1)
             long == st.tokens \o w
  <1>1. /\ len \in Nat \ {0} /\ n \in Nat \ {0} /\ st.tokens \in Seq(Token)
        /\ len + n - 1 <= Capacity /\ Capacity \in Nat
    <2>1. len \in Nat \ {0} /\ st.tokens \in Seq(Token)
      BY EmptySeq
    <2>2. n \in Nat \ {0} /\ len + n - 1 <= Capacity /\ Capacity \in Nat
      BY CapacityFits, BatchAssumption DEF DraftLastPosition
    <2> HIDE DEF len, n
    <2> QED
      BY <2>1, <2>2
  <1>2. /\ rest \in Seq(Token) /\ Len(rest) = n - 1
        /\ \A i \in 1..(n - 1) : rest[i] = w[i]
    <2>1. 1 \in Int /\ n - 1 \in Int
      BY <1>1
    <2>2. \A i \in 1..(n - 1) : w[i] \in Token
      BY <1>1
    <2>3. /\ SubSeq(w, 1, n - 1) \in Seq(Token)
          /\ Len(SubSeq(w, 1, n - 1)) = IF 1 <= n - 1 THEN n - 1 - 1 + 1 ELSE 0
          /\ \A i \in 1..(n - 1 - 1 + 1) : SubSeq(w, 1, n - 1)[i] = w[1 + i - 1]
      <3> HIDE DEF n
      <3> QED
        BY <2>1, <2>2, SubSeqProperties
    <2> HIDE DEF n
    <2> QED
      BY <1>1, <2>3 DEF rest
  <1>3. st.tokens[len] \in Token
    BY <1>1
  <1>4. /\ Len(feed) = n /\ feed[1] = st.tokens[len]
        /\ \A i \in 1..(n - 1) : feed[i + 1] = w[i]
    <2> DEFINE one == <<st.tokens[len]>>
    <2>1. one \in Seq(Token) /\ Len(one) = 1 /\ one[1] = st.tokens[len]
      BY <1>3
    <2>2. feed = one \o rest
      BY DEF DraftFeed
    <2> HIDE DEF one, rest, n, feed
    <2>3. /\ Len(feed) = 1 + (n - 1)
          /\ \A i \in 1..1 : feed[i] = one[i]
          /\ \A i \in 1..(n - 1) : feed[1 + i] = rest[i]
      <3>1. /\ Len(one \o rest) = Len(one) + Len(rest)
            /\ \A i \in 1..Len(one) : (one \o rest)[i] = one[i]
            /\ \A i \in 1..Len(rest) : (one \o rest)[Len(one) + i] = rest[i]
        <4>1. one \in Seq(Token) /\ rest \in Seq(Token)
          BY <1>2, <2>1
        <4> QED
          BY <4>1, ConcatProperties
      <3> QED
        BY <1>2, <2>1, <2>2, <3>1, ZenonT(60)
    <2>4. \A i \in 1..(n - 1) : i + 1 = 1 + i
      OBVIOUS
    <2> QED
      BY <1>1, <1>2, <2>1, <2>3, <2>4
  <1>5. /\ \A i \in 1..len : long[i] = st.tokens[i]
        /\ \A i \in 1..n : long[len + i] = w[i]
        /\ \A i \in 1..n : w[i] \in Token
        /\ \A i \in 1..len : st.tokens[i] \in Token
    BY <1>1, ConcatProperties
  <1>6. DOMAIN cache = 1..Capacity /\ \A p \in 1..(len - 1) : cache[p] = st.tokens[p]
    BY DEF Cache, FreshTo
  <1>7. new = [p \in DOMAIN cache |->
                  IF p \in len..(len + Len(feed) - 1) THEN feed[p - len + 1] ELSE cache[p]]
    BY DEF Written
  <1> HIDE DEF len, n, feed, rest, long
  <1>8. \A p \in 1..Capacity : new[p] = IF p \in len..(len + n - 1) THEN feed[p - len + 1] ELSE cache[p]
    BY <1>4, <1>6, <1>7
  <1>9. ASSUME NEW p \in len..(len + n - 1)
        PROVE  p \in 1..Capacity /\ new[p] = long[p] /\ new[p] \in Token
    <2>1. p \in 1..Capacity
      BY <1>1
    <2>2. CASE p = len
      <3>1. p - len + 1 = 1 /\ p \in 1..len
        BY <1>1, <2>2
      <3> QED
        BY <1>3, <1>4, <1>5, <1>8, <2>1, <2>2, <3>1
    <2>3. CASE p # len
      <3> DEFINE i == p - len
      <3>1. i \in 1..(n - 1) /\ p - len + 1 = i + 1 /\ len + i = p /\ i \in 1..n
        BY <1>1, <2>3
      <3> HIDE DEF i
      <3>2. feed[i + 1] = w[i] /\ long[len + i] = w[i] /\ w[i] \in Token
        BY <1>4, <1>5, <3>1, ZenonT(60)
      <3> QED
        BY <1>8, <2>1, <3>1, <3>2
    <2> QED
      BY <2>2, <2>3
  <1>10. new \in Cache
    <2>1. DOMAIN new = 1..Capacity /\ new = [p \in 1..Capacity |-> new[p]]
      BY <1>6, <1>7
    <2>2. \A p \in 1..Capacity : new[p] \in Token \cup {NoToken}
      <3> TAKE p \in 1..Capacity
      <3>1. CASE p \in len..(len + n - 1)
        BY <1>9, <3>1
      <3>2. CASE p \notin len..(len + n - 1)
        BY <1>8, <3>2 DEF Cache
      <3> QED
        BY <3>1, <3>2
    <2> QED
      BY <2>1, <2>2 DEF Cache
  <1>11. \A p \in 1..(len - 1) : new[p] = cache[p] /\ new[p] = long[p]
    <2> TAKE p \in 1..(len - 1)
    <2>1. p \in 1..Capacity /\ p \notin len..(len + n - 1) /\ p \in 1..len
      BY <1>1
    <2> QED
      BY <1>5, <1>6, <1>8, <2>1
  <1>12. \A p \in 1..(len + n - 1) : new[p] = long[p]
    <2> TAKE p \in 1..(len + n - 1)
    <2>1. p \in 1..(len - 1) \/ p \in len..(len + n - 1)
      BY <1>1
    <2> QED
      BY <1>9, <1>11, <2>1
  <1> QED
    BY <1>10, <1>11, <1>12 DEF FreshTo, len, n, long

\* ... of a sound state.
LEMMA DraftFed ==
  ASSUME NEW r \in Request, NEW st, Sound(st, r), NEW cache \in Cache,
         NEW w \in Seq(Token), Len(w) \in 1..Gamma,
         DraftLastPosition(st, Len(w)) <= Capacity,
         FreshTo(cache, st.tokens, Len(st.tokens) - 1),
         NEW new, new = Written(cache, Len(st.tokens), DraftFeed(st, w))
  PROVE  /\ new \in Cache /\ FreshTo(new, st.tokens \o w, Len(st.tokens) + Len(w) - 1)
         /\ \A p \in 1..(Len(st.tokens) - 1) : new[p] = cache[p]
  <1>1. /\ Len(st.tokens) \in Nat /\ st.committed \in Nat /\ PromptLen(r) \in Nat \ {0}
        /\ st.committed <= Len(st.tokens) /\ PromptLen(r) < st.committed /\ st.tokens \in Seq(Token)
    BY SoundSize DEF Sound
  <1>2. st.tokens # <<>>
    BY <1>1, EmptySeq
  <1> QED
    BY <1>1, <1>2, WindowFed

\* What the cache of a side must hold for a state: everything before the tokens
\* its next forward rewrites.
Rewritten(s, st) == IF s = "draft" THEN 1 ELSE Size(st)

\* After the verdict both caches are fresh for the new state.
LEMMA AppliedFresh ==
  ASSUME NEW r \in Request, NEW st, Sound(st, r), NEW new, Sound(new, r),
         NEW w \in Seq(Token), Len(w) \in 1..Gamma,
         Step(st, w, new), NEW cache
  PROVE  /\ FreshTo(cache, st.tokens, Len(st.tokens))
              => FreshTo(cache, new.tokens, Len(new.tokens) - Size(new))
         /\ FreshTo(cache, st.tokens \o w, Len(st.tokens) + Len(w) - 1)
              => FreshTo(cache, new.tokens, Len(new.tokens) - 1)
  <1> DEFINE len == Len(st.tokens)
             n == Len(w)
             m == Len(new.tokens)
  <1>1. /\ len \in Nat /\ n \in Nat \ {0} /\ m \in Nat /\ st.tokens \in Seq(Token)
        /\ Size(st) \in Nat /\ Size(new) \in Nat \ {0}
        /\ st.committed = len - Size(st) + 1 /\ new.committed = m - Size(new) + 1
        /\ new.pre \in BOOLEAN
    <2>1. /\ len \in Nat /\ st.tokens \in Seq(Token) /\ Size(st) \in 1..Gamma
          /\ st.committed = len - Size(st) + 1
      BY SoundSize
    <2>2. /\ m \in Nat /\ Size(new) \in 1..Gamma
          /\ new.committed = m - Size(new) + 1 /\ new.pre \in BOOLEAN
      BY SoundSize
    <2>3. n \in Nat \ {0} /\ Gamma \in Nat
      BY BatchAssumption
    <2> HIDE DEF len, n, m
    <2> QED
      BY <2>1, <2>2, <2>3
  <1>2. /\ Len(st.tokens \o w) = len + n
        /\ \A i \in 1..len : (st.tokens \o w)[i] = st.tokens[i]
    BY <1>1, ConcatProperties
  <1>0. /\ new.committed \in st.committed..(st.committed + Size(st))
        /\ new.pre => \A p \in 1..(Len(new.tokens) - 1) : new.tokens[p] = st.tokens[p]
        /\ ~new.pre => new.tokens = st.tokens \o w /\ new.pending = Len(w)
    BY DEF Step
  <1>3. new.pre => Size(new) = 1
    BY DEF Size, VerificationSize
  <1>4. ~new.pre => m = len + n /\ Size(new) = n
    <2>1. ASSUME ~new.pre PROVE m = len + n /\ Size(new) = n
      <3>1. new.tokens = st.tokens \o w /\ new.pending = n /\ n > 0
        BY <1>0, <1>1, <2>1
      <3>2. Size(new) = n
        BY <2>1, <3>1 DEF Size, VerificationSize
      <3> QED
        BY <1>2, <3>1, <3>2
    <2> QED
      BY <2>1
  <1>5. new.committed <= st.committed + Size(st)
    BY <1>0, <1>1
  <1>6. CASE new.pre
    <2>1. m - 1 <= len /\ m - 1 <= len + n - 1
      <3> HIDE DEF len, m, n
      <3> QED
        BY <1>1, <1>3, <1>5, <1>6
    <2>2. \A p \in 1..(m - 1) : p \in 1..len /\ p \in 1..(len + n - 1)
      <3> HIDE DEF len, m, n
      <3> QED
        BY <1>1, <2>1
    <2>3. \A p \in 1..(m - 1) : new.tokens[p] = st.tokens[p] /\ (st.tokens \o w)[p] = st.tokens[p]
      BY <1>0, <1>2, <1>6, <2>2
    <2> QED
      BY <1>3, <1>6, <2>2, <2>3 DEF FreshTo
  <1>7. CASE ~new.pre
    <2>1. m - Size(new) = len /\ m - 1 = len + n - 1
      <3>1. m = len + n /\ Size(new) = n /\ len \in Nat /\ n \in Nat
        BY <1>1, <1>4, <1>7
      <3> HIDE DEF len, m, n
      <3> QED
        BY <3>1
    <2>2. new.tokens = st.tokens \o w /\ \A p \in 1..len : new.tokens[p] = st.tokens[p]
      BY <1>0, <1>2, <1>7
    <2> QED
      BY <1>7, <2>1, <2>2 DEF FreshTo
  <1> QED
    BY <1>1, <1>6, <1>7

\* Every row is at least as wide in the graph as its verification size.
LEMMA WidthsFit ==
  ASSUME NEW sizes, Len(sizes) \in Nat, NEW i \in 1..Len(sizes), sizes[i] \in 1..Gamma
  PROVE  ModelWidths(sizes)[i] \in Nat /\ sizes[i] <= ModelWidths(sizes)[i]
         /\ ModelWidths(sizes)[i] <= Gamma /\ (sizes[i] > 1 => ModelWidths(sizes)[i] = Gamma)
  <1>1. Gamma \in Nat \ {0}
    BY BatchAssumption
  <1>2. ModelWidths(sizes)[i] = Gamma \/ (ModelWidths(sizes)[i] = 1 /\ ~(sizes[i] > 1))
    BY DEF ModelWidths
  <1> QED
    BY <1>1, <1>2

------------------------------------------------------------------------------
(* The completion a request shows.                                         *)

Visible(st, r) == TruncateCompletion(CommittedCompletion(st, PromptLen(r)), MaxTokens[r])

IsVisible(st, r, v) ==
    /\ v \in Seq(Token)
    /\ Len(v) \in 1..(st.committed - PromptLen(r)) /\ Len(v) <= MaxTokens[r]
    /\ \A i \in 1..Len(v) : v[i] = st.tokens[PromptLen(r) + i]
    /\ \A i \in 1..(Len(v) - 1) : v[i] \notin Eos
    /\ \/ Len(v) = st.committed - PromptLen(r)
       \/ Len(v) = MaxTokens[r]
       \/ v[Len(v)] \in Eos

\* The committed part of the completion.
LEMMA CommittedIs ==
  ASSUME NEW r \in Request, NEW st, Sound(st, r)
  PROVE  LET c == CommittedCompletion(st, PromptLen(r))
         IN  /\ c \in Seq(Token) /\ Len(c) = st.committed - PromptLen(r) /\ Len(c) \in Nat \ {0}
             /\ \A i \in 1..Len(c) : c[i] = st.tokens[PromptLen(r) + i]
  <1> DEFINE k == PromptLen(r)
             m == st.committed
             c == CommittedCompletion(st, PromptLen(r))
  <1>1. /\ k \in Nat \ {0} /\ m \in Nat /\ k < m /\ m <= Len(st.tokens) /\ st.tokens \in Seq(Token)
        /\ Len(st.tokens) \in Nat
    BY SoundSize DEF Sound
  <1>2. c = SubSeq(st.tokens, k + 1, m)
    BY DEF CommittedCompletion
  <1> HIDE DEF k, m, c
  <1>3. k + 1 \in Int /\ m \in Int /\ \A i \in (k + 1)..m : st.tokens[i] \in Token
    BY <1>1
  <1>4. /\ c \in Seq(Token) /\ Len(c) = (IF k + 1 <= m THEN m - (k + 1) + 1 ELSE 0)
        /\ \A i \in 1..(m - (k + 1) + 1) : c[i] = st.tokens[(k + 1) + i - 1]
    BY <1>2, <1>3, SubSeqProperties
  <1>5. Len(c) = m - k /\ Len(c) \in Nat \ {0} /\ m - (k + 1) + 1 = Len(c)
    BY <1>1, <1>4
  <1>6. \A i \in 1..Len(c) : (k + 1) + i - 1 = k + i
    BY <1>1
  <1> QED
    BY <1>4, <1>5, <1>6 DEF k, m, c

\* What the truncation shows.
LEMMA VisibleIs ==
  ASSUME NEW r \in Request, NEW st, Sound(st, r)
  PROVE  IsVisible(st, r, Visible(st, r))
  <1> DEFINE c == CommittedCompletion(st, PromptLen(r))
             max == MaxTokens[r]
             size == IF Len(c) < max THEN Len(c) ELSE max
             ends == {i \in 1..size : c[i] \in Eos}
             cut == IF ends = {} THEN size ELSE CHOOSE i \in ends : \A j \in ends : i <= j
             v == Visible(st, r)
  <1>1. /\ c \in Seq(Token) /\ Len(c) = st.committed - PromptLen(r) /\ Len(c) \in Nat \ {0}
        /\ \A i \in 1..Len(c) : c[i] = st.tokens[PromptLen(r) + i]
    BY CommittedIs
  <1>2. max \in Nat \ {0}
    BY BatchAssumption
  <1>3. v = SubSeq(c, 1, cut)
    BY DEF Visible, TruncateCompletion
  <1>4. size \in 1..Len(c) /\ size <= max /\ (size = Len(c) \/ size = max) /\ size \in Nat \ {0}
    <2> HIDE DEF c, max
    <2> QED
      BY <1>1, <1>2
  <1> HIDE DEF size
  <1>5. /\ cut \in 1..size /\ (cut = size \/ c[cut] \in Eos)
        /\ \A i \in 1..(cut - 1) : c[i] \notin Eos
    <2>1. CASE ends = {}
      <3>1. cut = size /\ \A i \in 1..size : c[i] \notin Eos
        BY <2>1
      <3>2. \A i \in 1..(cut - 1) : i \in 1..size
        BY <1>4, <3>1
      <3>3. cut \in 1..size
        BY <1>4, <3>1
      <3> QED
        BY <3>1, <3>2, <3>3, ZenonT(60)
    <2>2. CASE ends # {}
      <3>1. ends \in SUBSET Nat
        BY <1>4
      <3>2. PICK i \in ends : \A j \in ends : i <= j
        BY <2>2, <3>1, LeastExists, ZenonT(60)
      <3>3. cut \in ends /\ \A j \in ends : cut <= j
        <4> HIDE DEF ends
        <4> QED
          BY <2>2, <3>2
      <3> HIDE DEF cut
      <3>4. cut \in 1..size /\ c[cut] \in Eos
        BY <3>3
      <3>5. \A j \in 1..(cut - 1) : j \in 1..size /\ ~(cut <= j)
        BY <1>4, <3>4
      <3> QED
        BY <3>3, <3>4, <3>5
    <2> QED
      BY <2>1, <2>2
  <1> HIDE DEF c, cut, v, max
  <1>6. /\ v \in Seq(Token) /\ Len(v) = cut /\ \A i \in 1..cut : v[i] = c[i]
    <2>1. 1 \in Int /\ cut \in Int /\ 1 <= cut /\ \A i \in 1..cut : c[i] \in Token
      BY <1>1, <1>4, <1>5
    <2>2. /\ v \in Seq(Token) /\ Len(v) = (IF 1 <= cut THEN cut - 1 + 1 ELSE 0)
          /\ \A i \in 1..(cut - 1 + 1) : v[i] = c[1 + i - 1]
      BY <1>3, <2>1, SubSeqProperties
    <2> QED
      BY <2>1, <2>2
  <1>7. cut \in 1..Len(c) /\ cut <= max /\ cut \in 1..cut /\ cut \in Nat
    BY <1>1, <1>2, <1>4, <1>5
  <1>8. \A i \in 1..cut : i \in 1..Len(c)
    BY <1>1, <1>7
  <1>9. \A i \in 1..(cut - 1) : i \in 1..cut
    BY <1>7
  <1>10. \A i \in 1..(cut - 1) : v[i] \notin Eos
    BY <1>5, <1>6, <1>9
  <1>11. \A i \in 1..cut : v[i] = st.tokens[PromptLen(r) + i]
    BY <1>1, <1>6, <1>8
  <1>12. cut = Len(c) \/ cut = max \/ v[cut] \in Eos
    BY <1>4, <1>5, <1>6, <1>7
  <1>13. Len(v) \in 1..(st.committed - PromptLen(r)) /\ Len(v) <= MaxTokens[r]
    BY <1>1, <1>6, <1>7 DEF max
  <1>14. \/ Len(v) = st.committed - PromptLen(r) \/ Len(v) = MaxTokens[r] \/ v[Len(v)] \in Eos
    BY <1>1, <1>6, <1>12 DEF max
  <1>15. IsVisible(st, r, v)
    BY <1>6, <1>10, <1>11, <1>13, <1>14 DEF IsVisible
  <1> QED
    BY <1>15 DEF v

\* The stop test of target-only decoding, on a completion.
StoppedAt(v, r) == Len(v) >= MaxTokens[r] \/ \E i \in 1..Len(v) : v[i] \in Eos

\* long continues short by at most run tokens that the target could have
\* written next, none of them after the completion stopped.
ContinuesBy(r, run, short, long) ==
    /\ Len(long) \in Len(short)..(Len(short) + run)
    /\ SubSeq(long, 1, Len(short)) = short
    /\ \A i \in (Len(short) + 1)..Len(long) :
          /\ ~StoppedAt(SubSeq(long, 1, i - 1), r)
          /\ long[i] \in TargetSupport(Prompt[r] \o SubSeq(long, 1, i - 1))

\* Every shown token is one the target could have written after the ones before
\* it, and the completion had not stopped by then.
LEMMA VisibleJustified ==
  ASSUME NEW r \in Request, NEW st, Sound(st, r), NEW v, v = Visible(st, r), NEW i \in 1..Len(v)
  PROVE  /\ ~StoppedAt(SubSeq(v, 1, i - 1), r)
         /\ v[i] \in TargetSupport(Prompt[r] \o SubSeq(v, 1, i - 1))
  <1> DEFINE k == PromptLen(r)
             before == SubSeq(v, 1, i - 1)
             p == k + i
  <1>1. IsVisible(st, r, v)
    BY VisibleIs
  <1>2. /\ k \in Nat \ {0} /\ st.committed \in Nat /\ st.committed <= Len(st.tokens)
        /\ st.tokens \in Seq(Token) /\ Len(st.tokens) \in Nat
    BY SoundSize
  <1>3. /\ v \in Seq(Token) /\ Len(v) \in Nat /\ Len(v) <= st.committed - k /\ Len(v) <= MaxTokens[r]
        /\ MaxTokens[r] \in Nat
    BY <1>1, BatchAssumption DEF IsVisible
  <1>4. 1 \in Int /\ i - 1 \in Int /\ i \in Nat /\ \A j \in 1..(i - 1) : v[j] \in Token
    BY <1>3
  <1>5. /\ before \in Seq(Token) /\ Len(before) = i - 1
        /\ \A j \in 1..(i - 1) : before[j] = v[j]
    <2>1. /\ before \in Seq(Token) /\ Len(before) = (IF 1 <= i - 1 THEN i - 1 - 1 + 1 ELSE 0)
          /\ \A j \in 1..(i - 1 - 1 + 1) : before[j] = v[1 + j - 1]
      BY <1>4, SubSeqProperties
    <2> HIDE DEF before
    <2> QED
      BY <1>4, <2>1
  <1> HIDE DEF before
  <1>6. ~StoppedAt(before, r)
    <2>1. ~(Len(before) >= MaxTokens[r])
      BY <1>3, <1>5
    <2>2. \A j \in 1..(i - 1) : j \in 1..(Len(v) - 1)
      BY <1>3
    <2>3. \A j \in 1..Len(before) : before[j] \notin Eos
      BY <1>1, <1>5, <2>2 DEF IsVisible
    <2> QED
      BY <2>1, <2>3 DEF StoppedAt
  <1>7. p \in (k + 1)..st.committed /\ p - 1 = k + (i - 1) /\ p - 1 \in Nat /\ p - 1 <= Len(st.tokens)
    <2>1. /\ k \in Nat /\ st.committed \in Nat /\ Len(st.tokens) \in Nat
          /\ st.committed <= Len(st.tokens)
      BY <1>2
    <2>2. Len(v) \in Nat /\ Len(v) <= st.committed - k
      BY <1>3, ZenonT(60)
    <2> HIDE DEF k
    <2> QED
      BY <2>1, <2>2
  <1> HIDE DEF p
  <1>8. st.tokens[p] \in TargetSupport(SubSeq(st.tokens, 1, p - 1))
    BY <1>7 DEF Sound, k
  <1>9. v[i] = st.tokens[p]
    BY <1>1 DEF IsVisible, p, k
  <1>10. Prompt[r] \o before = SubSeq(st.tokens, 1, p - 1)
    <2> DEFINE a == Prompt[r] \o before
               b == SubSeq(st.tokens, 1, p - 1)
    <2>1. Prompt[r] \in Seq(Token) /\ Len(Prompt[r]) = k
      BY BatchAssumption DEF PromptLen
    <2>2. /\ a \in Seq(Token) /\ Len(a) = k + (i - 1)
          /\ \A j \in 1..k : a[j] = Prompt[r][j]
          /\ \A j \in 1..(i - 1) : a[k + j] = before[j]
      <3>1. /\ a \in Seq(Token) /\ Len(a) = Len(Prompt[r]) + Len(before)
            /\ \A j \in 1..Len(Prompt[r]) : a[j] = Prompt[r][j]
            /\ \A j \in 1..Len(before) : a[Len(Prompt[r]) + j] = before[j]
        <4>1. Prompt[r] \in Seq(Token) /\ before \in Seq(Token)
          BY <1>5, <2>1
        <4> QED
          BY <4>1, ConcatProperties
      <3> HIDE DEF a
      <3> QED
        BY <1>5, <2>1, <3>1
    <2>3. /\ b \in Seq(Token) /\ Len(b) = p - 1
          /\ \A j \in 1..(p - 1) : b[j] = st.tokens[j]
      <3>1. \A j \in 1..(p - 1) : st.tokens[j] \in Token
        BY <1>2, <1>7
      <3>2. /\ b \in Seq(Token) /\ Len(b) = (IF 1 <= p - 1 THEN p - 1 - 1 + 1 ELSE 0)
            /\ \A j \in 1..(p - 1 - 1 + 1) : b[j] = st.tokens[1 + j - 1]
        <4>1. 1 \in Int /\ p - 1 \in Int
          BY <1>7
        <4> QED
          BY <3>1, <4>1, SubSeqProperties
      <3> HIDE DEF b
      <3> QED
        BY <1>7, <3>2
    <2>4. \A j \in 1..k : st.tokens[j] = Prompt[r][j]
      BY DEF Sound, k
    <2>5. \A j \in 1..(i - 1) : before[j] = st.tokens[k + j]
      <3> TAKE j \in 1..(i - 1)
      <3>1. j \in 1..Len(v)
        BY <1>3
      <3> QED
        BY <1>1, <1>5, <3>1 DEF IsVisible, k
    <2> HIDE DEF a, b
    <2>6. ASSUME NEW j \in 1..(p - 1) PROVE a[j] = b[j]
      <3>1. CASE j <= k
        <4>1. j \in 1..k
          BY <1>2, <3>1
        <4> QED
          BY <2>2, <2>3, <2>4, <4>1
      <3>2. CASE k < j
        <4> DEFINE q == j - k
        <4>1. q \in 1..(i - 1) /\ k + q = j
          BY <1>2, <1>4, <1>7, <3>2
        <4> HIDE DEF q
        <4> QED
          BY <2>2, <2>3, <2>5, <4>1
      <3> QED
        BY <1>2, <3>1, <3>2
    <2>7. Len(a) = Len(b)
      BY <1>7, <2>2, <2>3
    <2>8. \A j \in 1..Len(a) : a[j] = b[j]
      BY <2>3, <2>6, <2>7
    <2>9. a = b
      BY <2>2, <2>3, <2>7, <2>8, SeqEqual
    <2> QED
      BY <2>9 DEF a, b
  <1> QED
    BY <1>6, <1>8, <1>9, <1>10, ZenonT(60) DEF before

\* What a request shows after a verification continues what it showed before.
LEMMA VisibleContinues ==
  ASSUME NEW r \in Request, NEW st, Sound(st, r), NEW new, Sound(new, r),
         new.committed \in st.committed..(st.committed + Gamma),
         \A p \in 1..st.committed : new.tokens[p] = st.tokens[p]
  PROVE  ContinuesBy(r, Gamma, Visible(st, r), Visible(new, r))
  <1> DEFINE v == Visible(st, r)
             w == Visible(new, r)
             k == PromptLen(r)
             c == st.committed - k
             d == new.committed - k
             max == MaxTokens[r]
  <1>1. IsVisible(st, r, v) /\ IsVisible(new, r, w)
    BY VisibleIs
  <1>2. /\ k \in Nat /\ st.committed \in Nat /\ new.committed \in Nat /\ Gamma \in Nat /\ max \in Nat
    BY SoundSize, BatchAssumption
  <1>3. c \in Int /\ d \in Int /\ c <= d /\ d <= c + Gamma
    BY <1>2
  <1>4. /\ v \in Seq(Token) /\ Len(v) \in 1..c /\ Len(v) <= max
        /\ (Len(v) = c \/ Len(v) = max \/ v[Len(v)] \in Eos)
        /\ \A i \in 1..(Len(v) - 1) : v[i] \notin Eos
    BY <1>1 DEF IsVisible
  <1>5. /\ w \in Seq(Token) /\ Len(w) \in 1..d /\ Len(w) <= max
        /\ (Len(w) = d \/ Len(w) = max \/ w[Len(w)] \in Eos)
        /\ \A i \in 1..(Len(w) - 1) : w[i] \notin Eos
    BY <1>1 DEF IsVisible
  <1>6. \A i \in 1..Len(v) : i \in 1..Len(w) => v[i] = w[i]
    <2> TAKE i \in 1..Len(v)
    <2> HAVE i \in 1..Len(w)
    <2>1. v[i] = st.tokens[k + i] /\ w[i] = new.tokens[k + i]
      BY <1>1 DEF IsVisible
    <2>2. k + i \in 1..st.committed
      BY <1>2, <1>4
    <2> QED
      BY <2>1, <2>2
  <1> HIDE DEF v, w, c, d, max, k
  <1>7. Len(v) <= Len(w)
    <2> SUFFICES ASSUME Len(w) < Len(v) PROVE FALSE
      BY <1>4, <1>5
    <2>1. Len(w) \in 1..Len(v) /\ Len(w) \in 1..Len(w) /\ Len(w) \in 1..(Len(v) - 1)
          /\ Len(w) # d /\ Len(w) # max
      BY <1>2, <1>3, <1>4, <1>5
    <2>2. v[Len(w)] = w[Len(w)] /\ w[Len(w)] \in Eos
      BY <1>5, <1>6, <2>1
    <2> QED
      BY <1>4, <2>1, <2>2
  <1>8. Len(w) <= Len(v) + Gamma
    <2> SUFFICES ASSUME Len(v) + Gamma < Len(w) PROVE FALSE
      BY <1>2, <1>4, <1>5
    <2>1. Len(v) # c /\ Len(v) # max /\ Len(v) \in 1..Len(v) /\ Len(v) \in 1..Len(w)
          /\ Len(v) \in 1..(Len(w) - 1)
      BY <1>2, <1>3, <1>4, <1>5
    <2>2. v[Len(v)] = w[Len(v)] /\ v[Len(v)] \in Eos
      BY <1>4, <1>6, <2>1
    <2> QED
      BY <1>5, <2>1, <2>2
  <1>9. SubSeq(w, 1, Len(v)) = v
    <2>1. Len(v) \in Nat /\ Len(v) <= Len(v) /\ \A i \in 1..Len(v) : w[i] = v[i]
      <3>1. \A i \in 1..Len(v) : i \in 1..Len(w)
        BY <1>4, <1>5, <1>7
      <3> QED
        BY <1>4, <1>6, <3>1
    <2>2. SubSeq(w, 1, Len(v)) = SubSeq(v, 1, Len(v))
      BY <1>4, <1>5, <1>7, <2>1, SamePrefix
    <2> QED
      BY <1>4, <2>2, SubSeqFull
  <1>10. ASSUME NEW i \in (Len(v) + 1)..Len(w)
         PROVE  /\ ~StoppedAt(SubSeq(w, 1, i - 1), r)
                /\ w[i] \in TargetSupport(Prompt[r] \o SubSeq(w, 1, i - 1))
    <2>1. i \in 1..Len(w)
      BY <1>4, <1>5
    <2> QED
      BY <2>1, VisibleJustified DEF w
  <1>11. Len(w) \in Len(v)..(Len(v) + Gamma)
    BY <1>2, <1>4, <1>5, <1>7, <1>8
  <1>12. ContinuesBy(r, Gamma, v, w)
    BY <1>9, <1>10, <1>11 DEF ContinuesBy
  <1> QED
    BY <1>12 DEF v, w

\* A finished request shows a completion that has stopped.
LEMMA FinishedStops ==
  ASSUME NEW r \in Request, NEW st, Sound(st, r), IsFinished(st, r)
  PROVE  StoppedAt(Visible(st, r), r)
  <1> DEFINE v == Visible(st, r)
             c == CommittedCompletion(st, PromptLen(r))
             max == MaxTokens[r]
  <1>1. IsVisible(st, r, v)
    BY VisibleIs
  <1>2. /\ c \in Seq(Token) /\ Len(c) = st.committed - PromptLen(r) /\ Len(c) \in Nat \ {0}
        /\ \A i \in 1..Len(c) : c[i] = st.tokens[PromptLen(r) + i]
    BY CommittedIs
  <1>3. Len(c) >= max \/ \E i \in 1..Len(c) : c[i] \in Eos
    BY DEF IsFinished, Finished
  <1>4. /\ Len(v) \in 1..Len(c) /\ Len(v) <= max
        /\ (Len(v) = Len(c) \/ Len(v) = max \/ v[Len(v)] \in Eos)
        /\ \A i \in 1..Len(v) : v[i] = st.tokens[PromptLen(r) + i]
    BY <1>1, <1>2 DEF IsVisible
  <1>5. max \in Nat
    BY BatchAssumption
  <1> HIDE DEF v, c, max
  <1>6. Len(v) \in 1..Len(v) /\ Len(v) \in Nat
    BY <1>2, <1>4
  <1>7. CASE Len(v) = max \/ v[Len(v)] \in Eos
    BY <1>5, <1>6, <1>7 DEF StoppedAt, max, v
  <1>8. CASE Len(v) = Len(c)
    <2>1. CASE Len(c) >= max
      BY <1>8, <2>1 DEF StoppedAt, max, v
    <2>2. CASE \E i \in 1..Len(c) : c[i] \in Eos
      <3>1. PICK i \in 1..Len(c) : c[i] \in Eos
        BY <2>2
      <3>2. v[i] \in Eos /\ i \in 1..Len(v)
        BY <1>2, <1>4, <1>8, <3>1
      <3> QED
        BY <3>2 DEF StoppedAt, v
    <2> QED
      BY <1>3, <2>1, <2>2
  <1> QED
    BY <1>4, <1>7, <1>8

------------------------------------------------------------------------------
(* Prefill.                                                                *)

\* Every prompt fits the page table, and the model has an opinion about what
\* follows it.
LEMMA PromptFits ==
  ASSUME NEW r \in Request
  PROVE  /\ Prompt[r] \in Seq(Token) /\ PromptLen(r) \in Nat \ {0}
         /\ PromptLen(r) <= Capacity
         /\ TargetSupport(Prompt[r]) \subseteq Token /\ TargetSupport(Prompt[r]) # {}
  <1>1. /\ Prompt[r] \in Seq(Token) /\ Prompt[r] # <<>> /\ MaxTokens[r] \in Nat /\ Gamma \in Nat
        /\ Len(Prompt[r]) + MaxTokens[r] + Gamma <= MaxModelLen /\ MaxModelLen \in Nat
    BY BatchAssumption
  <1>2. PromptLen(r) \in Nat \ {0} /\ PromptLen(r) = Len(Prompt[r])
    BY <1>1, EmptySeq DEF PromptLen
  <1>3. PromptLen(r) <= Capacity /\ Capacity \in Nat
    BY <1>1, <1>2, CapacityFits
  <1>4. Prompt[r] \in [1..PromptLen(r) -> Token] /\ PromptLen(r) \in 0..Capacity
    BY <1>1, <1>2, <1>3
  <1> QED
    BY <1>1, <1>2, <1>3, <1>4, SupportAssumption

\* The first token is one the target could have written.
LEMMA FirstTokensAre ==
  ASSUME NEW r \in Request
  PROVE  FirstTokens(r) \subseteq TargetSupport(Prompt[r]) /\ FirstTokens(r) \subseteq Token
         /\ FirstTokens(r) # {}
  <1>1. TargetSupport(Prompt[r]) \subseteq Token /\ TargetSupport(Prompt[r]) # {}
    BY PromptFits
  <1>2. Argmax(Prompt[r]) \in TargetSupport(Prompt[r])
    BY <1>1 DEF Argmax
  <1> QED
    BY <1>1, <1>2 DEF FirstTokens

\* The state after prefill.
LEMMA PrefillSound ==
  ASSUME NEW r \in Request, NEW first \in FirstTokens(r),
         NEW st, st = PrefilledState(Prompt[r], first)
  PROVE  Sound(st, r) /\ st.pre /\ Len(st.tokens) = PromptLen(r) + 1
         /\ st.committed = PromptLen(r) + 1
  <1> DEFINE k == PromptLen(r)
  <1>1. Prompt[r] \in Seq(Token) /\ k \in Nat \ {0} /\ k = Len(Prompt[r])
    BY PromptFits DEF PromptLen
  <1>2. first \in Token /\ first \in TargetSupport(Prompt[r])
    BY FirstTokensAre
  <1>3. st = [ tokens |-> Append(Prompt[r], first), pre |-> TRUE,
               committed |-> k + 1, pending |-> 0, epoch |-> 0, segments |-> 0, current |-> 0 ]
    BY DEF PrefilledState, PromptLen
  <1> DEFINE t == Append(Prompt[r], first)
  <1>4. /\ t \in Seq(Token) /\ Len(t) = k + 1 /\ t[k + 1] = first
        /\ \A i \in 1..k : t[i] = Prompt[r][i]
    BY <1>1, <1>2, AppendProperties
  <1>5. SubSeq(t, 1, k) = Prompt[r]
    <2>1. Len(t) \in Nat /\ k <= Len(t) /\ k <= Len(Prompt[r]) /\ k \in Nat
      BY <1>1, <1>4
    <2> HIDE DEF t
    <2>2. SubSeq(t, 1, k) = SubSeq(Prompt[r], 1, k)
      BY <1>1, <1>4, <2>1, SamePrefix
    <2> QED
      BY <1>1, <2>2, SubSeqFull
  <1> HIDE DEF k, t
  <1>6. /\ st.tokens = t /\ st.pre = TRUE /\ st.committed = k + 1 /\ st.pending = 0
        /\ st.epoch = 0 /\ st.segments = 0 /\ st.current = 0
    BY <1>3 DEF t
  <1>7. st \in PipelineState
    <2>1. k + 1 \in Nat
      BY <1>1
    <2> QED
      BY <1>3, <1>4, <2>1 DEF PipelineState, t
  <1>8. \A p \in (k + 1)..st.committed : st.tokens[p] \in TargetSupport(SubSeq(st.tokens, 1, p - 1))
    <2> TAKE p \in (k + 1)..st.committed
    <2>1. p = k + 1 /\ p - 1 = k
      BY <1>1, <1>6
    <2> QED
      BY <1>2, <1>4, <1>5, <1>6, <2>1, ZenonT(60)
  <1>9. st.segments + st.current = st.committed - k - 1 /\ k < st.committed
    BY <1>1, <1>6
  <1> QED
    BY <1>4, <1>6, <1>7, <1>8, <1>9 DEF Sound, k

\* The cache after prefill holds the prompt.
LEMMA PrefillFresh ==
  ASSUME NEW r \in Request, NEW first \in FirstTokens(r), NEW captured \in BOOLEAN,
         NEW st, st = PrefilledState(Prompt[r], first),
         NEW cache, cache = PrefilledCache(r, first, captured)
  PROVE  cache \in Cache /\ FreshTo(cache, st.tokens, Len(st.tokens) - 1)
         /\ FreshTo(cache, st.tokens, Len(st.tokens) - Size(st))
  <1> DEFINE k == PromptLen(r)
             extra == IF captured THEN [i \in 1..(Gamma + 1) |-> first] ELSE <<>>
             all == Prompt[r] \o extra
  <1>1. Prompt[r] \in Seq(Token) /\ k \in Nat \ {0} /\ k = Len(Prompt[r]) /\ k <= Capacity
        /\ Capacity \in Nat
    BY PromptFits, CapacityFits DEF PromptLen
  <1>2. first \in Token /\ Gamma \in Nat
    BY FirstTokensAre, BatchAssumption
  <1>3. extra \in Seq(Token)
    <2>1. CASE captured
      <3>1. extra = [i \in 1..(Gamma + 1) |-> first] /\ Gamma + 1 \in Nat
        BY <1>2, <2>1
      <3> QED
        BY <1>2, <3>1
    <2>2. CASE ~captured
      BY <2>2
    <2> QED
      BY <2>1, <2>2
  <1> HIDE DEF extra
  <1>4. /\ all \in Seq(Token) /\ Len(all) = Len(Prompt[r]) + Len(extra)
        /\ \A i \in 1..Len(Prompt[r]) : all[i] = Prompt[r][i]
    BY <1>1, <1>3, ConcatProperties
  <1> HIDE DEF all
  <1>5. Len(all) \in Nat /\ k <= Len(all) /\ \A i \in 1..Len(all) : all[i] \in Token
    <2>1. Len(extra) \in Nat /\ Len(all) \in Nat
      BY <1>3, <1>4
    <2> QED
      BY <1>1, <1>4, <2>1
  <1>6. cache = [p \in 1..Capacity |->
                    IF p \in 1..(1 + Len(all) - 1) THEN all[p - 1 + 1] ELSE NoToken]
    BY ZenonT(60) DEF PrefilledCache, Written, EmptyCache, all, extra
  <1>7. \A p \in 1..Capacity : cache[p] = IF p \in 1..Len(all) THEN all[p] ELSE NoToken
    BY <1>5, <1>6
  <1>8. cache \in Cache
    <2>1. \A p \in 1..Capacity : (IF p \in 1..Len(all) THEN all[p] ELSE NoToken) \in Token \cup {NoToken}
      BY <1>5
    <2>2. cache = [p \in 1..Capacity |-> cache[p]]
      BY <1>6
    <2> QED
      BY <1>7, <2>1, <2>2 DEF Cache
  <1>9. Sound(st, r) /\ st.pre /\ Len(st.tokens) = k + 1
    BY PrefillSound
  <1>10. Len(st.tokens) - 1 = k /\ Size(st) = 1
    BY <1>1, <1>9 DEF Size, VerificationSize
  <1>11. \A p \in 1..k : cache[p] = st.tokens[p]
    <2> TAKE p \in 1..k
    <2>1. p \in 1..Capacity /\ p \in 1..Len(all)
      BY <1>1, <1>5
    <2>2. cache[p] = Prompt[r][p]
      BY <1>1, <1>4, <1>7, <2>1
    <2> QED
      BY <1>9, <2>2 DEF Sound, k
  <1> QED
    BY <1>8, <1>10, <1>11 DEF FreshTo

\* What a request shows after prefill: its first token.
LEMMA PrefillVisible ==
  ASSUME NEW r \in Request, NEW first \in FirstTokens(r),
         NEW st, st = PrefilledState(Prompt[r], first)
  PROVE  Len(Visible(st, r)) = 1 /\ ContinuesBy(r, Gamma, <<>>, Visible(st, r))
  <1> DEFINE v == Visible(st, r)
  <1>1. Sound(st, r) /\ st.committed = PromptLen(r) + 1 /\ PromptLen(r) \in Nat
    BY PrefillSound, PromptFits
  <1>2. IsVisible(st, r, v)
    BY <1>1, VisibleIs
  <1>3. Len(v) = 1 /\ v \in Seq(Token)
    <2>1. Len(v) \in 1..(st.committed - PromptLen(r))
      BY <1>2 DEF IsVisible
    <2>2. st.committed - PromptLen(r) = 1
      BY <1>1
    <2>3. Len(v) \in 1..1
      BY <2>1, <2>2, ZenonT(60)
    <2>4. v \in Seq(Token)
      BY <1>2 DEF IsVisible
    <2> HIDE DEF v
    <2> QED
      BY <2>3, <2>4
  <1>4. \A i \in 1..Len(v) : /\ ~StoppedAt(SubSeq(v, 1, i - 1), r)
                              /\ v[i] \in TargetSupport(Prompt[r] \o SubSeq(v, 1, i - 1))
    BY <1>1, VisibleJustified
  <1>5. Len(<<>>) = 0 /\ SubSeq(v, 1, Len(<<>>)) = <<>> /\ Gamma \in Nat \ {0}
    BY BatchAssumption
  <1> HIDE DEF v
  <1>6. ContinuesBy(r, Gamma, <<>>, v)
    BY <1>3, <1>4, <1>5 DEF ContinuesBy
  <1> QED
    BY <1>3, <1>6 DEF v

=============================================================================
