---------------------------- MODULE PearlLoopProofs ----------------------------
(***************************************************************************)
(* Facts about one replica of the linear PEARL loop: what the loop top     *)
(* does to the queue and the batch, what a round does to the states and    *)
(* the caches of its rows, and how far a request can outgrow max_tokens.   *)
(* The proofs about the two replicas together cite them.                   *)
(***************************************************************************)
EXTENDS PearlRounds, PearlBatchProofs

USE SMTT(20), ZenonT(60)

------------------------------------------------------------------------------
(* Counting rows.                                                          *)

\* A one-to-one correspondence preserves the cardinality.
LEMMA Matched ==
  ASSUME NEW S, NEW T, IsFiniteSet(S), NEW f \in [S -> T],
         \A a, b \in S : f[a] = f[b] => a = b,
         \A t \in T : \E a \in S : f[a] = t
  PROVE  IsFiniteSet(T) /\ Cardinality(T) = Cardinality(S)
  <1>1. f \in Bijection(S, T)
    BY DEF Bijection, Injection, Surjection, IsInjective
  <1>2. ExistsBijection(S, T)
    BY <1>1 DEF ExistsBijection
  <1> QED
    BY <1>2, FS_Bijection

\* A batch without repetitions has as many rows in S as S has members.
LEMMA DistinctCount ==
  ASSUME NEW R, NEW s \in Seq(R), Distinct(s), NEW S, S \subseteq Members(s)
  PROVE  /\ IsFiniteSet(S)
         /\ Cardinality(S) = Cardinality({i \in 1..Len(s) : s[i] \in S})
         /\ Cardinality(Members(s)) = Len(s) /\ IsFiniteSet(Members(s))
  <1> DEFINE I == {i \in 1..Len(s) : s[i] \in S}
             f == [i \in I |-> s[i]]
             g == [i \in 1..Len(s) |-> s[i]]
  <1>1. Len(s) \in Nat /\ IsFiniteSet(1..Len(s)) /\ Cardinality(1..Len(s)) = Len(s)
    <2>1. Len(s) \in Nat /\ 1 \in Int /\ Len(s) \in Int
      OBVIOUS
    <2> QED
      BY <2>1, FS_Interval
  <1>2. IsFiniteSet(I)
    <2>1. I \in SUBSET (1..Len(s))
      OBVIOUS
    <2> QED
      BY <1>1, <2>1, FS_Subset
  <1>3. IsFiniteSet(S) /\ Cardinality(S) = Cardinality(I)
    <2>1. f \in [I -> S]
      OBVIOUS
    <2>2. \A a, b \in I : f[a] = f[b] => a = b
      BY DEF Distinct
    <2>3. \A t \in S : \E a \in I : f[a] = t
      BY DEF Members
    <2> HIDE DEF f, I
    <2> QED
      BY <1>2, <2>1, <2>2, <2>3, Matched, ZenonT(60)
  <1>4. IsFiniteSet(Members(s)) /\ Cardinality(Members(s)) = Cardinality(1..Len(s))
    <2>1. g \in [1..Len(s) -> Members(s)]
      BY DEF Members
    <2>2. \A a, b \in 1..Len(s) : g[a] = g[b] => a = b
      BY DEF Distinct
    <2>3. \A t \in Members(s) : \E a \in 1..Len(s) : g[a] = t
      BY DEF Members
    <2> HIDE DEF g
    <2> QED
      BY <1>1, <2>1, <2>2, <2>3, Matched
  <1> QED
    BY <1>1, <1>3, <1>4

\* Of a finite set of numbers, k have fewer than k smaller ones.
LEMMA RankCount ==
  ASSUME NEW S \in SUBSET Nat, IsFiniteSet(S), NEW k \in Nat, k <= Cardinality(S)
  PROVE  Cardinality({r \in S : Cardinality({q \in S : q < r}) < k}) = k
  <1> DEFINE n == Cardinality(S)
             below(r) == {q \in S : q < r}
             rank == [r \in S |-> Cardinality(below(r))]
             A == {r \in S : Cardinality({q \in S : q < r}) < k}
  <1>1. n \in Nat
    BY FS_CardinalityType
  <1>2. ASSUME NEW r \in S PROVE IsFiniteSet(below(r)) /\ Cardinality(below(r)) \in 0..(n - 1)
    <2>1. below(r) \in SUBSET S /\ r \in S /\ r \notin below(r)
      OBVIOUS
    <2>2. IsFiniteSet(below(r)) /\ Cardinality(below(r)) <= n /\ below(r) # S
      BY <2>1, FS_Subset
    <2>3. Cardinality(below(r)) # n
      BY <2>1, FS_Subset
    <2>4. Cardinality(below(r)) \in Nat
      BY <2>2, FS_CardinalityType
    <2> QED
      BY <1>1, <2>2, <2>3, <2>4
  <1>3. ASSUME NEW r \in S, NEW q \in S, q < r
        PROVE  Cardinality(below(q)) < Cardinality(below(r))
    <2>0. \A x \in S : x \in Int
      OBVIOUS
    <2>1. below(q) \in SUBSET below(r) /\ q \in below(r) /\ q \notin below(q)
      <3>1. \A x \in S : x < q => x < r
        BY <1>3, <2>0
      <3>2. ~(q < q)
        BY <2>0
      <3> QED
        BY <1>3, <3>1, <3>2, ZenonT(60)
    <2>2. IsFiniteSet(below(r))
      BY <1>2
    <2>3. Cardinality(below(q)) <= Cardinality(below(r)) /\ Cardinality(below(q)) # Cardinality(below(r))
      BY <2>1, <2>2, FS_Subset
    <2>4. Cardinality(below(q)) \in Nat /\ Cardinality(below(r)) \in Nat
      BY <1>2
    <2> QED
      BY <2>3, <2>4
  <1> HIDE DEF below
  <1>4. rank \in [S -> 0..(n - 1)]
    BY <1>2
  <1>5. \A a, b \in S : rank[a] = rank[b] => a = b
    <2> SUFFICES ASSUME NEW a \in S, NEW b \in S, rank[a] = rank[b], a # b PROVE FALSE
      OBVIOUS
    <2>1. a < b \/ b < a
      OBVIOUS
    <2>2. rank[a] \in Int /\ rank[b] \in Int
      BY <1>4
    <2>3. rank[a] < rank[b] \/ rank[b] < rank[a]
      BY <1>3, <2>1
    <2> QED
      BY <2>2, <2>3
  <1>6. IsFiniteSet(0..(n - 1)) /\ Cardinality(0..(n - 1)) = n
    <2>1. 0 \in Int /\ n - 1 \in Int
      BY <1>1
    <2>2. Cardinality(0..(n - 1)) = (IF 0 > n - 1 THEN 0 ELSE n - 1 - 0 + 1) /\ IsFiniteSet(0..(n - 1))
      BY <2>1, FS_Interval
    <2> HIDE DEF n
    <2> QED
      BY <1>1, <2>2
  <1>7. \A t \in 0..(n - 1) : \E a \in S : rank[a] = t
    <2>1. rank \in Injection(S, 0..(n - 1))
      BY <1>4, <1>5 DEF Injection, IsInjective
    <2>2. rank \in Surjection(S, 0..(n - 1))
      <3> HIDE DEF rank, n
      <3> QED
        BY <1>6, <2>1, FS_Injection DEF n
    <2> QED
      BY <2>2, ZenonT(60) DEF Surjection
  <1>8. A = {r \in S : rank[r] < k}
    BY DEF below
  <1>9. IsFiniteSet(A)
    <2>1. A \in SUBSET S
      OBVIOUS
    <2> QED
      BY <2>1, FS_Subset, ZenonT(60)
  <1> HIDE DEF A, rank, n
  <1>10. k - 1 \in Int /\ k <= n
    BY DEF n
  <1> DEFINE f == [r \in A |-> rank[r]]
  <1>11. f \in [A -> 0..(k - 1)]
    <2> SUFFICES ASSUME NEW r \in A PROVE rank[r] \in 0..(k - 1)
      OBVIOUS
    <2>1. r \in S /\ rank[r] < k /\ rank[r] \in 0..(n - 1)
      BY <1>4, <1>8
    <2> QED
      BY <1>1, <2>1
  <1>12. \A a, b \in A : f[a] = f[b] => a = b
    BY <1>5, <1>8
  <1>13. \A t \in 0..(k - 1) : \E a \in A : f[a] = t
    <2> TAKE t \in 0..(k - 1)
    <2>1. t \in 0..(n - 1) /\ t < k
      BY <1>1, <1>10
    <2>2. PICK a \in S : rank[a] = t
      BY <1>7, <2>1
    <2>3. a \in A
      BY <1>8, <2>1, <2>2
    <2> QED
      BY <2>2, <2>3
  <1> HIDE DEF f
  <1>14. Cardinality(0..(k - 1)) = Cardinality(A)
    BY <1>9, <1>11, <1>12, <1>13, Matched, ZenonT(60)
  <1>15. Cardinality(0..(k - 1)) = k
    <2>1. Cardinality(0..(k - 1)) = IF 0 > k - 1 THEN 0 ELSE k - 1 - 0 + 1
      BY <1>10, FS_Interval
    <2> QED
      BY <2>1
  <1> QED
    BY <1>14, <1>15 DEF A

------------------------------------------------------------------------------
(* The replica of one side.                                                *)

\* The loop top as one step.
LoopTop(rep) ==
    LET top == Refreshed(rep) IN [top EXCEPT !.rows = Canonical(top.states, Chosen(top))]

IsReplica(rep) ==
    /\ rep = [ states |-> rep.states, completed |-> rep.completed, active |-> rep.active,
               next |-> rep.next, rows |-> rep.rows ]
    /\ rep.states \in [Request -> PipelineState]
    /\ DOMAIN rep.completed \subseteq Request
    /\ rep.active \in Seq(Request)
    /\ rep.next \in Nat
    /\ rep.rows \in Seq(Request)

\* The queue: the admitted requests are the active and the completed ones, and
\* the batch is full while requests wait.
QueueOK(rep) ==
    /\ Distinct(rep.active)
    /\ Members(rep.active) \cap DOMAIN rep.completed = {}
    /\ Members(rep.active) \cup DOMAIN rep.completed = 0..(rep.next - 1)
    /\ rep.next \in InitialBatchSize..NumRequests
    /\ rep.next < NumRequests => Len(rep.active) = InitialBatchSize

ReplicaOK(rep) ==
    /\ IsReplica(rep)
    /\ \A r \in Request : Sound(rep.states[r], r)
    /\ \A r \in DOMAIN rep.completed : /\ Sound(rep.completed[r], r)
                                       /\ IsFinished(rep.completed[r], r)
    /\ QueueOK(rep)

\* A replica that has passed the loop top and seen no verdict since.
Topped(rep) ==
    /\ \A r \in DOMAIN rep.completed : rep.completed[r] = rep.states[r]
    /\ Distinct(rep.rows)
    /\ rep.rows = <<>> => \A r \in Request : IsFinished(rep.states[r], r)

\* What the target says about each unverified token of a state.
TargetOutputs(st) ==
    [i \in 1..Size(st) |-> TargetSupport(SubSeq(st.tokens, 1, st.committed + i - 1))]

RowState(rep, i) == rep.states[rep.rows[i]]

\* v is a verdict the target could have given on the window w.
Justified(st, w, v) ==
    /\ TargetSays(st, TargetOutputs(st))
    /\ Legal(v, TargetOutputs(st), VerificationWindow(st, w))

\* The row of r.
RowOf(rep, r) == CHOOSE i \in 1..Len(rep.rows) : rep.rows[i] = r

\* A replica after the verdicts on its rows.
Applied(rep, verdicts, windows) ==
    [rep EXCEPT !.states = [r \in Request |->
        IF \E i \in 1..Len(rep.rows) : rep.rows[i] = r
        THEN ApplyTargetVerification(rep.states[r], Size(rep.states[r]),
                verdicts[RowOf(rep, r)].accepted, verdicts[RowOf(rep, r)].correction,
                windows[RowOf(rep, r)])
        ELSE rep.states[r]]]

------------------------------------------------------------------------------
(* The loop top.                                                           *)

\* The requests in order, and their number.
LEMMA AllRequestsIs ==
  /\ AllRequests \in Seq(Request) /\ Distinct(AllRequests)
  /\ Members(AllRequests) = Request /\ Len(AllRequests) = NumRequests
  /\ \A i \in 1..NumRequests : AllRequests[i] = i - 1
  /\ IsFiniteSet(Request) /\ Cardinality(Request) = NumRequests /\ NumRequests \in Nat \ {0}
  <1>1. IsFiniteSet(Request) /\ Cardinality(Request) = NumRequests
    BY RequestsInOrder, DistinctCount, ZenonT(60)
  <1> QED
    BY <1>1, RequestsInOrder

\* The k smallest members of a set of requests.
LEMMA SmallestIs ==
  ASSUME NEW S \in SUBSET Request, NEW k \in Nat, k <= Cardinality(S)
  PROVE  /\ Smallest(S, k) \in Seq(Request) /\ Len(Smallest(S, k)) = k
         /\ Members(Smallest(S, k)) \subseteq S /\ Distinct(Smallest(S, k))
  <1> DEFINE low == {r \in S : Cardinality({q \in S : q < r}) < k}
  <1>1. S \in SUBSET Nat /\ IsFiniteSet(S)
    <2>1. Request \subseteq Nat
      BY AllRequestsIs DEF Request
    <2> QED
      BY <2>1, AllRequestsIs, FS_Subset, ZenonT(60)
  <1>2. Cardinality(low) = k
    BY <1>1, RankCount
  <1>3. low \subseteq Members(AllRequests)
    BY AllRequestsIs
  <1>4. Cardinality(low) = Cardinality({i \in 1..Len(AllRequests) : AllRequests[i] \in low})
    <2> HIDE DEF low
    <2> QED
      BY <1>3, AllRequestsIs, DistinctCount, ZenonT(60)
  <1>5. Smallest(S, k) = Keep(AllRequests, low)
    BY DEF Smallest
  <1>6. low \subseteq S
    OBVIOUS
  <1> HIDE DEF low
  <1>7. Kept(Request, AllRequests, low, Smallest(S, k))
    BY <1>5, AllRequestsIs, KeepIs
  <1> QED
    BY <1>2, <1>4, <1>6, <1>7, AllRequestsIs DEF Kept

\* Reordering the rows loses and repeats none.
LEMMA CanonicalIs ==
  ASSUME NEW states, NEW rows \in Seq(Request)
  PROVE  /\ Canonical(states, rows) \in Seq(Request)
         /\ Len(Canonical(states, rows)) = Len(rows)
         /\ Members(Canonical(states, rows)) = Members(rows)
         /\ Distinct(rows) => Distinct(Canonical(states, rows))
  <1> DEFINE P == {r \in Request : ~states[r].pre}
             Q == {r \in Request : states[r].pre}
             a == Keep(rows, P)
             b == Keep(rows, Q)
             I == {i \in 1..Len(rows) : rows[i] \in P}
             J == {i \in 1..Len(rows) : rows[i] \in Q}
  <1>1. Canonical(states, rows) = a \o b
    BY DEF Canonical
  <1>2. P \cap Q = {} /\ P \cup Q = Request /\ Members(rows) \subseteq Request
    BY DEF Members
  <1>3. I \cap J = {} /\ I \cup J = 1..Len(rows)
    BY <1>2
  <1> HIDE DEF P, Q
  <1>4. /\ a \in Seq(Request) /\ Members(a) = Members(rows) \cap P
        /\ (Distinct(rows) => Distinct(a)) /\ Len(a) = Cardinality(I)
    <2>1. Kept(Request, rows, P, a)
      BY KeepIs
    <2> QED
      BY <2>1 DEF Kept
  <1>5. /\ b \in Seq(Request) /\ Members(b) = Members(rows) \cap Q
        /\ (Distinct(rows) => Distinct(b)) /\ Len(b) = Cardinality(J)
    <2>1. Kept(Request, rows, Q, b)
      BY KeepIs
    <2> QED
      BY <2>1 DEF Kept
  <1>6. Cardinality(I) + Cardinality(J) = Len(rows)
    <2>1. Len(rows) \in Nat /\ 1 \in Int /\ Len(rows) \in Int
      OBVIOUS
    <2>a. /\ IsFiniteSet(1..Len(rows))
          /\ Cardinality(1..Len(rows)) = IF 1 > Len(rows) THEN 0 ELSE Len(rows) - 1 + 1
      BY <2>1, FS_Interval, SMTT(30)
    <2>b. (IF 1 > Len(rows) THEN 0 ELSE Len(rows) - 1 + 1) = Len(rows)
      BY <2>1
    <2>2. IsFiniteSet(1..Len(rows)) /\ Cardinality(1..Len(rows)) = Len(rows)
      BY <2>a, <2>b
    <2>3. I \in SUBSET (1..Len(rows)) /\ J \in SUBSET (1..Len(rows))
      OBVIOUS
    <2> HIDE DEF I, J
    <2>4. IsFiniteSet(I) /\ IsFiniteSet(J)
      BY <2>2, <2>3, FS_Subset, ZenonT(60)
    <2>5. Cardinality(I \cup J) = Cardinality(I) + Cardinality(J) - Cardinality(I \cap J)
      BY <2>4, FS_Union
    <2>6. Cardinality(I \cap J) = 0 /\ Cardinality(I) \in Nat /\ Cardinality(J) \in Nat
      BY <1>3, <2>4, FS_EmptySet, FS_CardinalityType, ZenonT(60)
    <2>7. Cardinality(I \cup J) = Len(rows)
      BY <1>3, <2>2, ZenonT(60)
    <2> QED
      BY <2>5, <2>6, <2>7
  <1> HIDE DEF a, b, I, J
  <1>7. /\ a \o b \in Seq(Request) /\ Len(a \o b) = Len(a) + Len(b)
        /\ Members(a \o b) = Members(a) \cup Members(b)
        /\ Distinct(a) /\ Distinct(b) /\ Members(a) \cap Members(b) = {} => Distinct(a \o b)
    <2>1. Joined(Request, a, b, a \o b)
      BY <1>4, <1>5, JoinedIs
    <2> QED
      BY <2>1 DEF Joined
  <1>8. Members(a) \cup Members(b) = Members(rows) /\ Members(a) \cap Members(b) = {}
    BY <1>2, <1>4, <1>5
  <1> QED
    BY <1>1, <1>4, <1>5, <1>6, <1>7, <1>8

\* The size of the batch.
LEMMA BatchSizes ==
  /\ InitialBatchSize \in 1..NumRequests /\ NumRequests \in Nat \ {0}
  /\ ContinuousBatching => InitialBatchSize < NumRequests
  /\ ~ContinuousBatching => InitialBatchSize = NumRequests
  <1>1. NumRequests \in Nat \ {0} /\ MaxNumSeqs \in Nat \ {0}
    BY BatchAssumption
  <1>2. CASE NumRequests < MaxNumSeqs
    BY <1>1, <1>2 DEF InitialBatchSize, ContinuousBatching
  <1>3. CASE ~(NumRequests < MaxNumSeqs)
    <2>1. InitialBatchSize = MaxNumSeqs
      BY <1>3 DEF InitialBatchSize
    <2>2. ~ContinuousBatching => ~(NumRequests > MaxNumSeqs)
      BY RoundsAssumption DEF ContinuousBatching
    <2> QED
      BY <1>1, <1>3, <2>1, <2>2 DEF ContinuousBatching
  <1> QED
    BY <1>2, <1>3

\* The shape of a replica.
LEMMA ReplicaIs ==
  ASSUME NEW rep, ReplicaOK(rep)
  PROVE  /\ rep.rows \in Seq(Request) /\ Len(rep.rows) \in Nat
         /\ rep = [ states |-> rep.states, completed |-> rep.completed, active |-> rep.active,
                    next |-> rep.next, rows |-> rep.rows ]
         /\ rep.states \in [Request -> PipelineState]
  <1>1. IsReplica(rep)
    BY DEF ReplicaOK
  <1>2. rep.rows \in Seq(Request)
    BY <1>1 DEF IsReplica
  <1>3. Len(rep.rows) \in Nat
    BY <1>2
  <1>4. /\ rep = [ states |-> rep.states, completed |-> rep.completed, active |-> rep.active,
                   next |-> rep.next, rows |-> rep.rows ]
        /\ rep.states \in [Request -> PipelineState]
    BY <1>1 DEF IsReplica
  <1> QED
    BY <1>2, <1>3, <1>4

\* Requests that finish were active.
LEMMA FinishedWereActive ==
  ASSUME NEW rep, IsReplica(rep), QueueOK(rep)
  PROVE  /\ NewlyFinished(rep) \subseteq Members(rep.active)
         /\ NewlyFinished(rep) \subseteq Request \ DOMAIN rep.completed
         /\ \A r \in NewlyFinished(rep) : IsFinished(rep.states[r], r)
  <1>1. \A r \in NewlyFinished(rep) : r \in Request \ DOMAIN rep.completed /\ IsFinished(rep.states[r], r)
    BY DEF NewlyFinished
  <1>2. ASSUME NEW r \in NewlyFinished(rep) PROVE r \in Members(rep.active)
    <2>1. CASE ContinuousBatching
      BY <2>1 DEF NewlyFinished, Members
    <2>2. CASE ~ContinuousBatching
      <3>1. rep.next = NumRequests
        BY <2>2, BatchSizes DEF QueueOK
      <3>2. r \in 0..(rep.next - 1)
        BY <1>1, <3>1 DEF Request
      <3> QED
        BY <1>1, <3>2 DEF QueueOK
    <2> QED
      BY <2>1, <2>2
  <1> QED
    BY <1>1, <1>2

\* The requests admitted next.
LEMMA AdmittedIs ==
  ASSUME NEW n \in Nat, NEW count \in Nat, n + count <= NumRequests,
         NEW t, t = [i \in 1..count |-> n + i - 1]
  PROVE  /\ t \in Seq(Request) /\ Len(t) = count /\ Distinct(t)
         /\ Members(t) = n..(n + count - 1)
  <1>1. NumRequests \in Nat
    BY BatchAssumption
  <1>2. \A i \in 1..count : n + i - 1 \in Request
    BY <1>1 DEF Request
  <1>3. t \in Seq(Request) /\ Len(t) = count /\ \A i \in 1..count : t[i] = n + i - 1
    BY <1>2
  <1>4. Distinct(t)
    <2>1. \A i, j \in 1..count : n + i - 1 = n + j - 1 => i = j
      OBVIOUS
    <2> QED
      BY <1>3, <2>1 DEF Distinct
  <1>5. Members(t) = n..(n + count - 1)
    <2>1. \A i \in 1..count : n + i - 1 \in n..(n + count - 1)
      OBVIOUS
    <2>2. Members(t) \subseteq n..(n + count - 1)
      BY <1>3, <2>1 DEF Members
    <2>3. ASSUME NEW x \in n..(n + count - 1) PROVE x \in Members(t)
      <3>1. x - n + 1 \in 1..count /\ n + (x - n + 1) - 1 = x
        OBVIOUS
      <3> QED
        BY <1>3, <3>1 DEF Members
    <2> QED
      BY <2>2, <2>3, ZenonT(60)
  <1> QED
    BY <1>3, <1>4, <1>5

\* The refill keeps the queue in order.
LEMMA RefillOK ==
  ASSUME NEW rep, IsReplica(rep), QueueOK(rep)
  PROVE  /\ Refilled(rep).active \in Seq(Request) /\ Refilled(rep).next \in Nat
         /\ QueueOK(Refreshed(rep))
  <1> DEFINE F == NewlyFinished(rep)
             M == Members(rep.active)
             C == DOMAIN rep.completed
             kept == Keep(rep.active, Request \ F)
             left == NumRequests - rep.next
             count == IF Cardinality(F) < left THEN Cardinality(F) ELSE left
             t == [i \in 1..count |-> rep.next + i - 1]
             new == Refreshed(rep)
             n == rep.next
             m == rep.next + count
  <1>1. /\ rep.active \in Seq(Request) /\ Distinct(rep.active) /\ M \cap C = {} /\ M \cup C = 0..(n - 1)
        /\ n \in InitialBatchSize..NumRequests /\ (n < NumRequests => Len(rep.active) = InitialBatchSize)
        /\ C \subseteq Request
    BY DEF IsReplica, QueueOK
  <1>2. F \subseteq M /\ F \subseteq Request \ C
    BY FinishedWereActive
  <1>3. /\ new.active = kept \o t /\ new.next = m /\ DOMAIN new.completed = C \cup F
        /\ Refilled(rep).active = kept \o t /\ Refilled(rep).next = m
    BY ZenonT(60) DEF Refreshed, Refilled
  <1>4. M \subseteq Request
    BY <1>1 DEF Members
  <1> HIDE DEF F, M, C, new
  <1>5. /\ IsFiniteSet(M) /\ Cardinality(M) = Len(rep.active) /\ IsFiniteSet(F)
        /\ Len(rep.active) \in Nat /\ Cardinality(F) \in Nat
    <2>1. IsFiniteSet(M) /\ Cardinality(M) = Len(rep.active)
      BY <1>1, DistinctCount, ZenonT(60) DEF M
    <2>2. F \in SUBSET M
      BY <1>2
    <2>3. IsFiniteSet(F)
      BY <2>1, <2>2, FS_Subset
    <2> QED
      BY <1>1, <2>1, <2>3, FS_CardinalityType
  <1>6. /\ kept \in Seq(Request) /\ Members(kept) = M \ F /\ Distinct(kept)
        /\ Len(kept) = Len(rep.active) - Cardinality(F)
    <2>1. Kept(Request, rep.active, Request \ F, kept)
      BY <1>1, KeepIs
    <2>2. /\ kept \in Seq(Request) /\ Members(kept) = M \cap (Request \ F) /\ Distinct(kept)
          /\ Len(kept) = Cardinality({i \in 1..Len(rep.active) : rep.active[i] \in Request \ F})
      BY <1>1, <2>1, ZenonT(60) DEF Kept, M
    <2>3. M \cap (Request \ F) = M \ F
      BY <1>4
    <2>4. {i \in 1..Len(rep.active) : rep.active[i] \in Request \ F}
             = {i \in 1..Len(rep.active) : rep.active[i] \in M \ F}
      BY <1>1, <1>4 DEF M, Members
    <2>5. Cardinality(M \ F) = Cardinality({i \in 1..Len(rep.active) : rep.active[i] \in M \ F})
      <3>1. M \ F \subseteq Members(rep.active)
        BY DEF M
      <3> QED
        BY <1>1, <3>1, DistinctCount, ZenonT(60)
    <2>6. Cardinality(M \ F) = Cardinality(M) - Cardinality(M \cap F) /\ M \cap F = F
      BY <1>2, <1>5, FS_Difference, ZenonT(60)
    <2> HIDE DEF kept
    <2> QED
      BY <1>5, <2>2, <2>3, <2>4, <2>5, <2>6, ZenonT(60)
  <1>7. /\ n \in Nat /\ NumRequests \in Nat /\ left \in Nat /\ count \in Nat /\ n + count <= NumRequests
        /\ count <= Cardinality(F) /\ (n + count < NumRequests => count = Cardinality(F))
        /\ InitialBatchSize \in Nat
    <2>1. InitialBatchSize \in Nat /\ NumRequests \in Nat
      BY BatchSizes
    <2>2. n \in Nat /\ n <= NumRequests
      BY <1>1, <2>1
    <2> HIDE DEF n
    <2> QED
      BY <1>5, <2>1, <2>2 DEF n
  <1> HIDE DEF kept, count
  <1>8. t \in Seq(Request) /\ Len(t) = count /\ Distinct(t) /\ Members(t) = n..(m - 1)
    <2>1. t \in Seq(Request) /\ Len(t) = count /\ Distinct(t) /\ Members(t) = n..(n + count - 1)
      BY <1>7, AdmittedIs, ZenonT(60)
    <2>2. n + count - 1 = m - 1
      BY <1>7
    <2> HIDE DEF t, n, m
    <2> QED
      BY <2>1, <2>2
  <1> HIDE DEF t
  <1>9. Members(kept) \cap Members(t) = {}
    <2>1. Members(kept) \subseteq 0..(n - 1)
      BY <1>1, <1>6
    <2>2. (0..(n - 1)) \cap (n..(m - 1)) = {}
      BY <1>7
    <2> QED
      BY <1>8, <2>1, <2>2
  <1>10. /\ new.active \in Seq(Request) /\ Len(new.active) = Len(kept) + count
         /\ Members(new.active) = (M \ F) \cup (n..(m - 1)) /\ Distinct(new.active)
    <2> DEFINE u == kept \o t
    <2>1. /\ u \in Seq(Request) /\ Len(u) = Len(kept) + Len(t)
          /\ Members(u) = Members(kept) \cup Members(t) /\ Distinct(u)
      <3>1. Joined(Request, kept, t, u)
        BY <1>6, <1>8, JoinedIs
      <3> QED
        BY <1>6, <1>8, <1>9, <3>1 DEF Joined
    <2>2. new.active = u
      BY <1>3
    <2> HIDE DEF u, m, n
    <2> QED
      BY <1>6, <1>8, <2>1, <2>2
  <1>11. Members(new.active) \cap DOMAIN new.completed = {}
    <2>1. C \cup F \subseteq 0..(n - 1)
      BY <1>1, <1>2
    <2>2. (C \cup F) \cap (n..(m - 1)) = {}
      <3>1. (0..(n - 1)) \cap (n..(m - 1)) = {}
        BY <1>7
      <3> QED
        BY <2>1, <3>1
    <2> QED
      BY <1>1, <1>3, <1>10, <2>2
  <1>12. Members(new.active) \cup DOMAIN new.completed = 0..(new.next - 1)
    <2>1. (0..(n - 1)) \cup (n..(m - 1)) = 0..(m - 1)
      BY <1>7
    <2>2. ((M \ F) \cup (n..(m - 1))) \cup (C \cup F) = (0..(n - 1)) \cup (n..(m - 1))
      BY <1>1, <1>2
    <2> QED
      BY <1>3, <1>10, <2>1, <2>2
  <1>13. /\ new.next \in InitialBatchSize..NumRequests /\ new.next \in Nat
         /\ (new.next < NumRequests => Len(new.active) = InitialBatchSize)
    <2>1. new.next = n + count /\ n >= InitialBatchSize
      BY <1>1, <1>3, <1>7
    <2>2. new.next \in InitialBatchSize..NumRequests /\ new.next \in Nat
      BY <1>7, <2>1
    <2>3. ASSUME new.next < NumRequests PROVE Len(new.active) = InitialBatchSize
      <3>1. n < NumRequests /\ count = Cardinality(F)
        BY <1>7, <2>1, <2>3
      <3>2. Len(rep.active) = InitialBatchSize
        BY <1>1, <3>1
      <3> QED
        BY <1>5, <1>6, <1>7, <1>10, <3>1, <3>2
    <2> QED
      BY <2>2, <2>3
  <1> QED
    BY <1>3, <1>10, <1>11, <1>12, <1>13 DEF QueueOK, new

\* A draining batch has enough completed rows to fill its bucket.
LEMMA PaddingFits ==
  ASSUME NEW rep, IsReplica(rep), QueueOK(rep), ContinuousBatching
  PROVE  /\ PaddingCount(rep.active) \in Nat
         /\ PaddingCount(rep.active) <= Cardinality(DOMAIN rep.completed)
         /\ DOMAIN rep.completed \ Members(rep.active) = DOMAIN rep.completed
         /\ rep.active = <<>> => DOMAIN rep.completed = Request
  <1> DEFINE C == DOMAIN rep.completed
             M == Members(rep.active)
             len == Len(rep.active)
             I == InitialBatchSize
             bucket == IF len > TailBucketSize THEN I ELSE TailBucketSize
             n == rep.next
  <1>1. /\ rep.active \in Seq(Request) /\ Distinct(rep.active) /\ M \cap C = {} /\ M \cup C = 0..(n - 1)
        /\ n \in I..NumRequests /\ (n < NumRequests => len = I)
        /\ C \subseteq Request /\ len \in Nat
    BY DEF IsReplica, QueueOK
  <1>2. I \in 1..NumRequests /\ I < NumRequests /\ NumRequests \in Nat
    BY BatchSizes
  <1>3. TailBucketSize \in Nat /\ TailBucketSize <= I /\ TailBucketSize >= 1
    <2>1. I \in Nat /\ I >= 1
      BY <1>2
    <2>2. TailBucketSize = IF I < 2 THEN 1 ELSE I \div 2
      BY DEF TailBucketSize
    <2> HIDE DEF I
    <2> QED
      BY <2>1, <2>2
  <1>4. PaddingCount(rep.active) = IF len = 0 \/ bucket <= len THEN 0 ELSE bucket - len
    BY DEF PaddingCount
  <1>5. len = Cardinality(M) /\ IsFiniteSet(M)
    BY <1>1, DistinctCount, ZenonT(60)
  <1>6. IsFiniteSet(C) /\ Cardinality(C) \in Nat
    <2>1. C \in SUBSET Request
      BY <1>1
    <2> QED
      BY <2>1, AllRequestsIs, FS_Subset, FS_CardinalityType
  <1>7. Cardinality(C) + len = n /\ n \in Nat
    <2>1. Cardinality(M \cup C) = Cardinality(M) + Cardinality(C) - Cardinality(M \cap C)
      BY <1>5, <1>6, FS_Union
    <2>2. Cardinality(M \cap C) = 0
      BY <1>1, FS_EmptySet, ZenonT(60)
    <2>3. n \in Nat /\ 0 \in Int /\ n - 1 \in Int
      BY <1>1, <1>2
    <2>4. Cardinality(0..(n - 1)) = IF 0 > n - 1 THEN 0 ELSE n - 1 - 0 + 1
      BY <2>3, FS_Interval, ZenonT(60)
    <2>5. Cardinality(0..(n - 1)) = n
      <3> HIDE DEF n
      <3> QED
        BY <2>3, <2>4
    <2>6. Cardinality(M \cup C) = n
      BY <1>1, <2>5, ZenonT(60)
    <2>7. Cardinality(M) = len /\ len \in Nat /\ Cardinality(C) \in Nat
      BY <1>1, <1>5, <1>6
    <2> HIDE DEF n, len, M, C
    <2> QED
      BY <2>1, <2>2, <2>3, <2>6, <2>7
  <1> HIDE DEF C, M, len, I, n
  <1>8. bucket \in Nat /\ bucket <= I
    BY <1>1, <1>2, <1>3
  <1>9. PaddingCount(rep.active) \in Nat /\ PaddingCount(rep.active) <= Cardinality(C)
    <2> HIDE DEF bucket
    <2>1. CASE len = 0 \/ bucket <= len
      BY <1>4, <1>6, <2>1
    <2>2. CASE ~(len = 0 \/ bucket <= len)
      <3>1. PaddingCount(rep.active) = bucket - len
        BY <1>4, <2>2
      <3>2. len # I
        BY <1>1, <1>2, <1>8, <2>2
      <3>3. n = NumRequests
        BY <1>1, <1>2, <3>2
      <3> QED
        BY <1>1, <1>2, <1>6, <1>7, <1>8, <2>2, <3>1, <3>3
    <2> QED
      BY <2>1, <2>2
  <1>10. C \ M = C
    BY <1>1
  <1>11. ASSUME rep.active = <<>> PROVE C = Request
    <2>1. len = 0 /\ M = {}
      BY <1>11 DEF len, M, Members
    <2>2. n = NumRequests
      BY <1>1, <1>2, <2>1
    <2> QED
      BY <1>1, <2>1, <2>2 DEF Request
  <1> QED
    BY <1>9, <1>10, <1>11 DEF C, M

\* The rows of a round.
LEMMA ChosenOK ==
  ASSUME NEW rep, IsReplica(rep), QueueOK(rep),
         \A r \in DOMAIN rep.completed : IsFinished(rep.states[r], r)
  PROVE  /\ Chosen(rep) \in Seq(Request) /\ Distinct(Chosen(rep))
         /\ Chosen(rep) = <<>> => \A r \in Request : IsFinished(rep.states[r], r)
         /\ ContinuousBatching /\ Chosen(rep) # <<>>
               => Len(Chosen(rep)) = Len(rep.active) + PaddingCount(rep.active)
  <1> DEFINE U == {r \in Request : ~IsFinished(rep.states[r], r)}
             unfinished == Keep(AllRequests, U)
             C == DOMAIN rep.completed
             pad == PaddingIndices(rep.active, rep.completed)
  <1>1. /\ rep.active \in Seq(Request) /\ Distinct(rep.active) /\ C \subseteq Request
        /\ Members(rep.active) \cap C = {}
    BY DEF IsReplica, QueueOK
  <1>2. CASE ContinuousBatching /\ C = Request
    <2>1. Chosen(rep) = <<>>
      BY <1>2 DEF Chosen
    <2> QED
      BY <1>2, <2>1 DEF Distinct
  <1>3. CASE ContinuousBatching /\ C # Request
    <2>1. Chosen(rep) = rep.active \o pad
      BY <1>3, ZenonT(60) DEF Chosen
    <2>2. pad = Smallest(C, PaddingCount(rep.active)) /\ PaddingCount(rep.active) \in Nat
          /\ rep.active # <<>>
      BY <1>3, PaddingFits, ZenonT(60) DEF PaddingIndices, Members
    <2>3. pad \in Seq(Request) /\ Len(pad) = PaddingCount(rep.active) /\ Members(pad) \subseteq C
          /\ Distinct(pad)
      <3>1. C \in SUBSET Request /\ PaddingCount(rep.active) <= Cardinality(C)
        BY <1>1, <1>3, PaddingFits
      <3> QED
        BY <2>2, <3>1, SmallestIs
    <2> HIDE DEF pad
    <2>4. Joined(Request, rep.active, pad, Chosen(rep))
      BY <1>1, <2>1, <2>3, JoinedIs
    <2>5. Members(rep.active) \cap Members(pad) = {}
      BY <1>1, <2>3
    <2>6. /\ Chosen(rep) \in Seq(Request) /\ Distinct(Chosen(rep))
          /\ Len(Chosen(rep)) = Len(rep.active) + PaddingCount(rep.active)
      BY <1>1, <2>3, <2>4, <2>5 DEF Joined
    <2>7. Chosen(rep) # <<>>
      <3>1. Len(rep.active) \in Nat \ {0}
        BY <1>1, <2>2
      <3>2. Len(Chosen(rep)) > 0
        BY <2>2, <2>6, <3>1
      <3> QED
        BY <3>2
    <2> QED
      BY <2>6, <2>7
  <1>4. CASE ~ContinuousBatching
    <2>1. Kept(Request, AllRequests, U, unfinished)
      BY AllRequestsIs, KeepIs
    <2>2. unfinished \in Seq(Request) /\ Members(unfinished) = U /\ Distinct(unfinished)
      BY <2>1, AllRequestsIs DEF Kept
    <2>3. Chosen(rep) = IF PadFinishedRequests /\ unfinished # <<>> THEN AllRequests ELSE unfinished
      BY <1>4 DEF Chosen
    <2> HIDE DEF unfinished
    <2>4. unfinished = <<>> => U = {}
      BY <2>2 DEF Members
    <2>5. AllRequests # <<>>
      BY AllRequestsIs
    <2>6. CASE PadFinishedRequests /\ unfinished # <<>>
      BY <1>4, <2>3, <2>5, <2>6, AllRequestsIs
    <2>7. CASE ~(PadFinishedRequests /\ unfinished # <<>>)
      BY <1>4, <2>2, <2>3, <2>4, <2>7
    <2> QED
      BY <2>6, <2>7
  <1> QED
    BY <1>2, <1>3, <1>4

\* What the loop top does to a replica.
TopOf(rep, new) ==
    /\ ReplicaOK(new)
    /\ Topped(new)
    /\ TailBucketFilled(new)
    /\ Restored(new) = Restored(rep)

\* The loop top keeps a replica in order, records the finished requests and
\* changes no result.
LEMMA LoopTopOK ==
  ASSUME NEW rep, ReplicaOK(rep)
  PROVE  TopOf(rep, LoopTop(rep))
  <1> DEFINE top == Refreshed(rep)
             new == LoopTop(rep)
             C == DOMAIN rep.completed
             F == NewlyFinished(rep)
             rows == Canonical(top.states, Chosen(top))
  <1>1. /\ IsReplica(rep) /\ QueueOK(rep) /\ C \subseteq Request
        /\ rep.states \in [Request -> PipelineState]
        /\ \A r \in Request : Sound(rep.states[r], r)
        /\ \A r \in C : Sound(rep.completed[r], r) /\ IsFinished(rep.completed[r], r)
    BY DEF ReplicaOK, IsReplica
  <1>2. F \subseteq Request \ C /\ \A r \in F : IsFinished(rep.states[r], r)
    BY <1>1, FinishedWereActive
  <1>3. /\ top = [ states |-> Restored(rep),
                   completed |-> [r \in C \cup F |-> Restored(rep)[r]],
                   active |-> Refilled(rep).active, next |-> Refilled(rep).next, rows |-> <<>> ]
    BY DEF Refreshed
  <1>4. Refilled(rep).active \in Seq(Request) /\ Refilled(rep).next \in Nat /\ QueueOK(top)
    BY <1>1, RefillOK
  <1>5. \A r \in Request : Restored(rep)[r] = IF r \in C THEN rep.completed[r] ELSE rep.states[r]
    BY DEF Restored
  <1>6. \A r \in Request : Sound(Restored(rep)[r], r) /\ Restored(rep)[r] \in PipelineState
    <2> TAKE r \in Request
    <2>1. Sound(Restored(rep)[r], r)
      BY <1>1, <1>5, ZenonT(60)
    <2> QED
      BY <2>1, ZenonT(60) DEF Sound
  <1>7. Restored(rep) \in [Request -> PipelineState]
    BY <1>6 DEF Restored
  <1>8. \A r \in C \cup F : IsFinished(Restored(rep)[r], r)
    BY <1>1, <1>2, <1>5
  <1> HIDE DEF top
  <1>9. /\ top.states = Restored(rep) /\ DOMAIN top.completed = C \cup F
        /\ \A r \in C \cup F : top.completed[r] = Restored(rep)[r]
        /\ top.active = Refilled(rep).active /\ top.next = Refilled(rep).next /\ top.rows = <<>>
    BY <1>3
  <1>10. IsReplica(top)
    BY <1>1, <1>2, <1>3, <1>4, <1>7, <1>9 DEF IsReplica
  <1>11. \A r \in DOMAIN top.completed : IsFinished(top.states[r], r)
    BY <1>8, <1>9
  <1>12. /\ Chosen(top) \in Seq(Request) /\ Distinct(Chosen(top))
         /\ Chosen(top) = <<>> => \A r \in Request : IsFinished(top.states[r], r)
         /\ ContinuousBatching /\ Chosen(top) # <<>>
               => Len(Chosen(top)) = Len(top.active) + PaddingCount(top.active)
    BY <1>4, <1>10, <1>11, ChosenOK
  <1>13. rows \in Seq(Request) /\ Len(rows) = Len(Chosen(top)) /\ Distinct(rows)
    BY <1>12, CanonicalIs
  <1>14. new = [top EXCEPT !.rows = rows]
    BY DEF LoopTop, top
  <1> HIDE DEF rows, new
  <1>15. /\ new.states = top.states /\ new.completed = top.completed /\ new.active = top.active
         /\ new.next = top.next /\ new.rows = rows
         /\ new = [ states |-> new.states, completed |-> new.completed, active |-> new.active,
                    next |-> new.next, rows |-> new.rows ]
    BY <1>3, <1>14, ZenonT(60)
  <1>16. IsReplica(new)
    BY <1>10, <1>13, <1>15 DEF IsReplica
  <1>17. QueueOK(new)
    BY <1>4, <1>15 DEF QueueOK
  <1>18. ReplicaOK(new)
    BY <1>1, <1>2, <1>6, <1>8, <1>9, <1>15, <1>16, <1>17, ZenonT(60) DEF ReplicaOK
  <1>19. Topped(new)
    <2>1. rows = <<>> => Chosen(top) = <<>>
      BY <1>12, <1>13
    <2> QED
      BY <1>9, <1>12, <1>13, <1>15, <2>1 DEF Topped
  <1>20. TailBucketFilled(new)
    <2>1. Chosen(top) = <<>> => rows = <<>>
      BY <1>13
    <2> QED
      BY <1>12, <1>13, <1>15, <2>1 DEF TailBucketFilled
  <1>21. Restored(new) = Restored(rep)
    <2>1. ASSUME NEW r \in Request
          PROVE  (IF r \in DOMAIN new.completed THEN new.completed[r] ELSE new.states[r]) = Restored(rep)[r]
      BY <1>9, <1>15
    <2>2. Restored(new) = [r \in Request |-> Restored(rep)[r]]
      BY <2>1 DEF Restored
    <2>3. Restored(rep) = [r \in Request |-> Restored(rep)[r]]
      BY <1>7
    <2> QED
      BY <2>2, <2>3
  <1> QED
    BY <1>18, <1>19, <1>20, <1>21 DEF TopOf, new

------------------------------------------------------------------------------
(* Rows, verdicts and caches.                                              *)

\* A window is a sequence of Gamma tokens.
LEMMA WindowIsSeq ==
  ASSUME NEW w \in [1..Gamma -> Token]
  PROVE  w \in Seq(Token) /\ Len(w) = Gamma /\ Len(w) \in 1..Gamma
  <1>1. Gamma \in Nat \ {0}
    BY BatchAssumption
  <1> QED
    BY <1>1

\* A row is found by its request.
LEMMA RowFound ==
  ASSUME NEW rep, Distinct(rep.rows), NEW i \in 1..Len(rep.rows)
  PROVE  RowOf(rep, rep.rows[i]) = i
  <1>1. \A n \in 1..Len(rep.rows) : rep.rows[n] = rep.rows[i] => n = i
    BY DEF Distinct
  <1>2. RowOf(rep, rep.rows[i]) \in 1..Len(rep.rows)
        /\ rep.rows[RowOf(rep, rep.rows[i])] = rep.rows[i]
    BY DEF RowOf
  <1> QED
    BY <1>1, <1>2

FedBy(rep, cache, r, starts, feeds, i) ==
    FedCache(rep, cache, r, starts, feeds) = Written(cache, starts[i], feeds[i])

\* A row writes its own feed.
LEMMA RowFed ==
  ASSUME NEW rep, Distinct(rep.rows), NEW i \in 1..Len(rep.rows), NEW r, r = rep.rows[i],
         NEW cache, NEW starts, NEW feeds
  PROVE  FedBy(rep, cache, r, starts, feeds, i)
  <1> DEFINE mine == {n \in 1..Len(rep.rows) : rep.rows[n] = r}
  <1>1. mine = {i}
    BY DEF Distinct
  <1>2. (CHOOSE n \in mine : TRUE) = i /\ mine # {}
    BY <1>1
  <1>3. FedCache(rep, cache, r, starts, feeds)
          = IF mine = {} THEN cache
            ELSE Written(cache, starts[CHOOSE n \in mine : TRUE], feeds[CHOOSE n \in mine : TRUE])
    BY DEF FedCache
  <1> HIDE DEF mine
  <1>4. FedCache(rep, cache, r, starts, feeds) = Written(cache, starts[i], feeds[i])
    BY <1>2, <1>3, ZenonT(60)
  <1> QED
    BY <1>4 DEF FedBy

\* A request without a row keeps its cache.
LEMMA NotFed ==
  ASSUME NEW rep, NEW r, r \notin Members(rep.rows), NEW cache, NEW starts, NEW feeds
  PROVE  FedCache(rep, cache, r, starts, feeds) = cache
  BY DEF FedCache, Members

\* A justified verdict takes a sound state to a sound one.
LEMMA JustifiedStep ==
  ASSUME NEW r \in Request, NEW st, Sound(st, r), NEW w \in [1..Gamma -> Token],
         NEW v, Justified(st, w, v),
         NEW new, new = ApplyTargetVerification(st, Size(st), v.accepted, v.correction, w)
  PROVE  Sound(new, r) /\ Step(st, w, new)
  <1>1. w \in Seq(Token) /\ Len(w) \in 1..Gamma
    BY WindowIsSeq
  <1>2. TargetSays(st, TargetOutputs(st)) /\ Legal(v, TargetOutputs(st), VerificationWindow(st, w))
    BY DEF Justified
  <1> QED
    BY <1>1, <1>2, AppliedSound

\* What the verdicts of a round do to a replica.
RoundOf(rep, windows, new) ==
    /\ ReplicaOK(new)
    /\ new.completed = rep.completed /\ new.rows = rep.rows
    /\ \A r \in Request : r \notin Members(rep.rows) => new.states[r] = rep.states[r]
    /\ \A i \in 1..Len(rep.rows) : Step(RowState(rep, i), windows[i], new.states[rep.rows[i]])

\* The verdicts of a round keep a replica in order.
LEMMA AppliedOK ==
  ASSUME NEW rep, ReplicaOK(rep), Topped(rep), NEW verdicts,
         NEW windows \in [1..Len(rep.rows) -> [1..Gamma -> Token]],
         \A i \in 1..Len(rep.rows) : Justified(RowState(rep, i), windows[i], verdicts[i])
  PROVE  RoundOf(rep, windows, Applied(rep, verdicts, windows))
  <1> DEFINE new == Applied(rep, verdicts, windows)
             to(r) == ApplyTargetVerification(rep.states[r], Size(rep.states[r]),
                         verdicts[RowOf(rep, r)].accepted, verdicts[RowOf(rep, r)].correction,
                         windows[RowOf(rep, r)])
             states == [r \in Request |-> IF \E i \in 1..Len(rep.rows) : rep.rows[i] = r
                                          THEN to(r) ELSE rep.states[r]]
  <1>1. /\ IsReplica(rep) /\ QueueOK(rep) /\ Distinct(rep.rows) /\ rep.rows \in Seq(Request)
        /\ \A r \in Request : Sound(rep.states[r], r)
        /\ \A r \in DOMAIN rep.completed : Sound(rep.completed[r], r) /\ IsFinished(rep.completed[r], r)
    BY DEF ReplicaOK, Topped, IsReplica
  <1>2. new = [rep EXCEPT !.states = states]
    BY DEF Applied
  <1>3. ASSUME NEW r \in Request, r \notin Members(rep.rows) PROVE states[r] = rep.states[r]
    BY <1>3, ZenonT(60) DEF Members
  <1>4. ASSUME NEW i \in 1..Len(rep.rows)
        PROVE  /\ Sound(states[rep.rows[i]], rep.rows[i])
               /\ Step(RowState(rep, i), windows[i], states[rep.rows[i]])
    <2> DEFINE r == rep.rows[i]
    <2>1. r \in Request /\ RowOf(rep, r) = i
      BY <1>1, RowFound, ElementOfSeq, ZenonT(60)
    <2>2. states[r] = to(r)
      BY <2>1, ZenonT(60)
    <2>3. states[r] = ApplyTargetVerification(rep.states[r], Size(rep.states[r]),
                         verdicts[i].accepted, verdicts[i].correction, windows[i])
      BY <2>1, <2>2, ZenonT(60)
    <2>4. Sound(rep.states[r], r) /\ windows[i] \in [1..Gamma -> Token]
          /\ Justified(rep.states[r], windows[i], verdicts[i])
      BY <1>1, <2>1 DEF RowState
    <2> HIDE DEF r, states
    <2>5. Sound(states[r], r) /\ Step(rep.states[r], windows[i], states[r])
      BY <2>1, <2>3, <2>4, JustifiedStep, ZenonT(60)
    <2> QED
      BY <2>5 DEF r, RowState
  <1>5. \A r \in Request : Sound(states[r], r)
    <2> TAKE r \in Request
    <2>1. CASE r \in Members(rep.rows)
      <3>1. PICK i \in 1..Len(rep.rows) : rep.rows[i] = r
        BY <2>1, ZenonT(60) DEF Members
      <3> HIDE DEF states
      <3> QED
        BY <1>4, <3>1
    <2>2. CASE r \notin Members(rep.rows)
      BY <1>1, <1>3, <2>2, ZenonT(60)
    <2> QED
      BY <2>1, <2>2, ZenonT(60)
  <1>6. states = [r \in Request |-> states[r]]
    OBVIOUS
  <1> HIDE DEF states, new
  <1>7. states \in [Request -> PipelineState]
    BY <1>5, <1>6 DEF Sound
  <1>8. /\ new.states = states /\ new.completed = rep.completed /\ new.active = rep.active
        /\ new.next = rep.next /\ new.rows = rep.rows
        /\ new = [ states |-> new.states, completed |-> new.completed, active |-> new.active,
                   next |-> new.next, rows |-> new.rows ]
    BY <1>1, <1>2 DEF IsReplica
  <1>9. IsReplica(new)
    BY <1>1, <1>7, <1>8 DEF IsReplica
  <1>10. QueueOK(new)
    BY <1>1, <1>8 DEF QueueOK
  <1>11. ReplicaOK(new)
    BY <1>1, <1>5, <1>8, <1>9, <1>10 DEF ReplicaOK
  <1> QED
    BY <1>3, <1>4, <1>8, <1>11 DEF RoundOf, new

\* The rows of a replica in order are requests with sound states.
LEMMA RowsSound ==
  ASSUME NEW rep, ReplicaOK(rep), NEW i \in 1..Len(rep.rows)
  PROVE  rep.rows[i] \in Request /\ Sound(RowState(rep, i), rep.rows[i])
         /\ RowState(rep, i) = rep.states[rep.rows[i]]
  <1>1. rep.rows \in Seq(Request)
    BY ReplicaIs
  <1>2. rep.rows[i] \in Request
    BY <1>1, ElementOfSeq
  <1> QED
    BY <1>2 DEF ReplicaOK, RowState

\* The draft's caches before and after its forwards over the windows.
DraftFedAll(rep, old, windows, starts, feeds, new) ==
    /\ windows \in [1..Len(rep.rows) -> [1..Gamma -> Token]]
    /\ \A i \in 1..Len(rep.rows) : ~(DraftLastPosition(RowState(rep, i), Gamma) > Capacity)
    /\ \A i \in 1..Len(rep.rows) : starts[i] = Len(RowState(rep, i).tokens)
    /\ \A i \in 1..Len(rep.rows) : feeds[i] = DraftFeed(RowState(rep, i), windows[i])
    /\ new = [r \in Request |-> FedCache(rep, old[r], r, starts, feeds)]

DraftCaches(rep, windows, new) ==
    /\ new \in [Request -> Cache]
    /\ \A r \in Request : FreshTo(new[r], rep.states[r].tokens, Len(rep.states[r].tokens) - 1)
    /\ \A i \in 1..Len(rep.rows) :
          FreshTo(new[rep.rows[i]], RowState(rep, i).tokens \o windows[i],
                  Len(RowState(rep, i).tokens) + Gamma - 1)

\* The target's caches before and after its forward.
TargetFedAll(rep, old, widths, starts, feeds, new) ==
    /\ widths = ModelWidths(RowSizes(rep))
    /\ \A i \in 1..Len(rep.rows) :
          ~(TargetStart(RowState(rep, i), RowSize(rep, i)) + widths[i] - 1 > Capacity)
    /\ \A i \in 1..Len(rep.rows) : starts[i] = TargetStart(RowState(rep, i), RowSize(rep, i))
    /\ \A i \in 1..Len(rep.rows) : feeds[i] = TargetFeed(RowState(rep, i), RowSize(rep, i), widths[i])
    /\ new = [r \in Request |-> FedCache(rep, old[r], r, starts, feeds)]

TargetCaches(rep, new) ==
    /\ new \in [Request -> Cache]
    /\ \A r \in Request : FreshTo(new[r], rep.states[r].tokens,
                                  Len(rep.states[r].tokens) - Size(rep.states[r]))
    /\ \A i \in 1..Len(rep.rows) :
          /\ FreshTo(new[rep.rows[i]], RowState(rep, i).tokens, Len(RowState(rep, i).tokens))
          /\ Len(RowState(rep, i).tokens) <= Capacity

\* The caches after the draft's forwards.
LEMMA DraftForwardCaches ==
  ASSUME NEW rep, ReplicaOK(rep), Topped(rep), NEW old \in [Request -> Cache],
         \A r \in Request : FreshTo(old[r], rep.states[r].tokens, Len(rep.states[r].tokens) - 1),
         NEW windows, NEW starts, NEW feeds, NEW new,
         DraftFedAll(rep, old, windows, starts, feeds, new)
  PROVE  DraftCaches(rep, windows, new)
  <1> USE DEF DraftFedAll
  <1>1. ASSUME NEW i \in 1..Len(rep.rows)
        PROVE  LET r == rep.rows[i]
                   st == RowState(rep, i)
               IN  /\ new[r] \in Cache
                   /\ FreshTo(new[r], st.tokens \o windows[i], Len(st.tokens) + Gamma - 1)
                   /\ FreshTo(new[r], st.tokens, Len(st.tokens) - 1)
    <2> DEFINE r == rep.rows[i]
               st == RowState(rep, i)
               w == windows[i]
    <2>1. r \in Request /\ Sound(st, r) /\ st = rep.states[r]
      BY RowsSound, ZenonT(60)
    <2>2. w \in Seq(Token) /\ Len(w) = Gamma /\ Len(w) \in 1..Gamma
      BY WindowIsSeq, ZenonT(60)
    <2>3. new[r] = Written(old[r], Len(st.tokens), DraftFeed(st, w))
      <3>1. FedCache(rep, old[r], r, starts, feeds) = Written(old[r], starts[i], feeds[i])
        <4>1. Distinct(rep.rows)
          BY ZenonT(60) DEF Topped
        <4>2. i \in 1..Len(rep.rows) /\ r = rep.rows[i]
          OBVIOUS
        <4>3. FedBy(rep, old[r], r, starts, feeds, i)
          BY <4>1, <4>2, RowFed, ZenonT(60)
        <4> QED
          BY <4>3, ZenonT(60) DEF FedBy
      <3>2. new[r] = FedCache(rep, old[r], r, starts, feeds)
        BY <2>1, ZenonT(60)
      <3> QED
        BY <3>1, <3>2, ZenonT(60)
    <2>4. old[r] \in Cache /\ FreshTo(old[r], st.tokens, Len(st.tokens) - 1)
      BY <2>1
    <2>5. DraftLastPosition(st, Len(w)) <= Capacity
      <3>1. Len(st.tokens) \in Nat /\ Gamma \in Nat /\ Capacity \in Nat
        BY <2>1, SoundSize, BatchAssumption, CapacityFits, ZenonT(60)
      <3>2. ~(DraftLastPosition(st, Gamma) > Capacity)
        OBVIOUS
      <3> HIDE DEF st, w
      <3> QED
        BY <2>2, <3>1, <3>2 DEF DraftLastPosition
    <2> HIDE DEF r, st, w
    <2>6. /\ new[r] \in Cache /\ FreshTo(new[r], st.tokens \o w, Len(st.tokens) + Len(w) - 1)
          /\ \A p \in 1..(Len(st.tokens) - 1) : new[r][p] = old[r][p]
      BY <2>1, <2>2, <2>3, <2>4, <2>5, DraftFed
    <2>7. FreshTo(new[r], st.tokens, Len(st.tokens) - 1)
      BY <2>4, <2>6, ZenonT(60) DEF FreshTo
    <2> QED
      BY <2>2, <2>6, <2>7, ZenonT(60) DEF r, st, w
  <1>2. ASSUME NEW r \in Request, r \notin Members(rep.rows) PROVE new[r] = old[r]
    BY <1>2, NotFed
  <1>3. ASSUME NEW r \in Request
        PROVE  new[r] \in Cache
               /\ FreshTo(new[r], rep.states[r].tokens, Len(rep.states[r].tokens) - 1)
    <2>1. CASE r \in Members(rep.rows)
      <3>1. PICK i \in 1..Len(rep.rows) : rep.rows[i] = r
        BY <2>1, ZenonT(60) DEF Members
      <3>2. RowState(rep, i) = rep.states[r]
        BY <3>1 DEF RowState
      <3> QED
        BY <1>1, <3>1, <3>2, ZenonT(60)
    <2>2. CASE r \notin Members(rep.rows)
      BY <1>2, <2>2
    <2> QED
      BY <2>1, <2>2
  <1>4. new \in [Request -> Cache]
    BY <1>3
  <1> QED
    BY <1>1, <1>3, <1>4, ZenonT(60) DEF DraftCaches

\* The caches after the target's forward.
LEMMA TargetForwardCaches ==
  ASSUME NEW rep, ReplicaOK(rep), Topped(rep), NEW old \in [Request -> Cache],
         \A r \in Request : FreshTo(old[r], rep.states[r].tokens,
                                    Len(rep.states[r].tokens) - Size(rep.states[r])),
         NEW widths, NEW starts, NEW feeds, NEW new,
         TargetFedAll(rep, old, widths, starts, feeds, new)
  PROVE  TargetCaches(rep, new)
  <1> USE DEF TargetFedAll
  <1>1. ASSUME NEW i \in 1..Len(rep.rows)
        PROVE  LET r == rep.rows[i]
                   st == RowState(rep, i)
               IN  /\ new[r] \in Cache
                   /\ FreshTo(new[r], st.tokens, Len(st.tokens)) /\ Len(st.tokens) <= Capacity
                   /\ FreshTo(new[r], st.tokens, Len(st.tokens) - Size(st))
    <2> DEFINE r == rep.rows[i]
               st == RowState(rep, i)
    <2>1. r \in Request /\ Sound(st, r) /\ st = rep.states[r]
      BY RowsSound
    <2>2. RowSize(rep, i) = Size(st)
      BY ZenonT(60) DEF RowSize, Size, RowState
    <2>3. widths[i] \in Nat /\ Size(st) <= widths[i]
      <3> DEFINE sizes == RowSizes(rep)
      <3>1. Len(rep.rows) \in Nat
        BY ReplicaIs
      <3>2. Len(sizes) = Len(rep.rows) /\ sizes[i] = Size(st)
        BY <2>2, <3>1 DEF RowSizes
      <3>3. Size(st) \in 1..Gamma
        BY <2>1, SoundSize, ZenonT(60)
      <3> HIDE DEF sizes, st
      <3> QED
        BY <3>1, <3>2, <3>3, WidthsFit DEF sizes
    <2>4. new[r] = Written(old[r], TargetStart(st, Size(st)), TargetFeed(st, Size(st), widths[i]))
      <3>1. FedCache(rep, old[r], r, starts, feeds) = Written(old[r], starts[i], feeds[i])
        <4>1. Distinct(rep.rows)
          BY DEF Topped
        <4>2. i \in 1..Len(rep.rows) /\ r = rep.rows[i]
          OBVIOUS
        <4>3. FedBy(rep, old[r], r, starts, feeds, i)
          BY <4>1, <4>2, RowFed, ZenonT(60)
        <4> QED
          BY <4>3, ZenonT(60) DEF FedBy
      <3>2. new[r] = FedCache(rep, old[r], r, starts, feeds)
        BY <2>1, ZenonT(60)
      <3> QED
        BY <2>2, <3>1, <3>2, ZenonT(60)
    <2>5. old[r] \in Cache /\ FreshTo(old[r], st.tokens, Len(st.tokens) - Size(st))
      BY <2>1
    <2>6. TargetStart(st, Size(st)) + widths[i] - 1 <= Capacity
      <3>1. Len(st.tokens) \in Nat /\ Size(st) \in Nat /\ Capacity \in Nat
        <4>1. Len(st.tokens) \in Nat /\ Size(st) \in 1..Gamma
          BY <2>1, SoundSize, ZenonT(60)
        <4>2. Capacity \in Nat /\ Gamma \in Nat
          BY CapacityFits, BatchAssumption, ZenonT(60)
        <4> HIDE DEF TargetFedAll, st, r
        <4> QED
          BY <4>1, <4>2
      <3>2. ~(TargetStart(st, Size(st)) + widths[i] - 1 > Capacity)
        BY <2>2
      <3>3. TargetStart(st, Size(st)) \in Int
        BY <3>1 DEF TargetStart
      <3>4. widths[i] \in Nat
        BY <2>3, ZenonT(60)
      <3> HIDE DEF TargetFedAll, r, st
      <3> QED
        BY <3>1, <3>2, <3>3, <3>4
    <2> HIDE DEF r, st
    <2>7. /\ new[r] \in Cache /\ FreshTo(new[r], st.tokens, Len(st.tokens))
          /\ Len(st.tokens) <= Capacity
          /\ \A p \in 1..(Len(st.tokens) - Size(st)) : new[r][p] = old[r][p]
      BY <2>1, <2>3, <2>4, <2>5, <2>6, TargetFed
    <2>8. FreshTo(new[r], st.tokens, Len(st.tokens) - Size(st))
      BY <2>5, <2>7, ZenonT(60) DEF FreshTo
    <2> QED
      BY <2>7, <2>8, ZenonT(60) DEF r, st
  <1>2. ASSUME NEW r \in Request, r \notin Members(rep.rows) PROVE new[r] = old[r]
    <2>1. FedCache(rep, old[r], r, starts, feeds) = old[r]
      <3> HIDE DEF TargetFedAll
      <3> QED
        BY <1>2, NotFed
    <2> QED
      BY <2>1, ZenonT(60)
  <1>3. ASSUME NEW r \in Request
        PROVE  new[r] \in Cache
               /\ FreshTo(new[r], rep.states[r].tokens,
                          Len(rep.states[r].tokens) - Size(rep.states[r]))
    <2>1. CASE r \in Members(rep.rows)
      <3>1. PICK i \in 1..Len(rep.rows) : rep.rows[i] = r
        BY <2>1, ZenonT(60) DEF Members
      <3>2. RowState(rep, i) = rep.states[r]
        BY <3>1, ZenonT(60) DEF RowState
      <3> QED
        BY <1>1, <3>1, <3>2, ZenonT(60)
    <2>2. CASE r \notin Members(rep.rows)
      BY <1>2, <2>2
    <2> QED
      BY <2>1, <2>2, ZenonT(60)
  <1>4. new \in [Request -> Cache]
    BY <1>3
  <1> QED
    BY <1>1, <1>3, <1>4, ZenonT(60) DEF TargetCaches

\* What the target's forward returns for a row.
ForwardSays(st, outputs) ==
    /\ outputs = TargetOutputs(st)
    /\ SupportsOK(outputs, Size(st))
    /\ TargetSays(st, outputs)

\* With a fresh cache the forward's outputs are the target's.
LEMMA OutputsAre ==
  ASSUME NEW r \in Request, NEW st, Sound(st, r), NEW cache \in Cache,
         FreshTo(cache, st.tokens, Len(st.tokens)), Len(st.tokens) <= Capacity
  PROVE  ForwardSays(st, Predictions(cache, st, Size(st)))
  <1> DEFINE P == Predictions(cache, st, Size(st))
  <1>1. SupportsOK(P, Size(st)) /\ TargetSays(st, P)
    BY PredictionsSay
  <1>2. P = [i \in 1..Size(st) |-> P[i]]
    BY DEF Predictions
  <1> HIDE DEF P
  <1>3. \A i \in 1..Size(st) : P[i] = TargetSupport(SubSeq(st.tokens, 1, st.committed + i - 1))
    BY <1>1 DEF TargetSays
  <1>4. P = TargetOutputs(st)
    BY <1>2, <1>3 DEF TargetOutputs
  <1> QED
    BY <1>1, <1>4 DEF ForwardSays, P

\* What the round's forwards left in the caches of a side.
RoundCached(s, rep, windows, caches) ==
    /\ \A r \in Request : FreshTo(caches[r], rep.states[r].tokens,
                                  Len(rep.states[r].tokens) - Rewritten(s, rep.states[r]))
    /\ \A i \in 1..Len(rep.rows) :
          LET st == RowState(rep, i)
          IN  IF s = "draft"
              THEN FreshTo(caches[rep.rows[i]], st.tokens \o windows[i], Len(st.tokens) + Gamma - 1)
              ELSE FreshTo(caches[rep.rows[i]], st.tokens, Len(st.tokens))

Cached(s, rep, caches) ==
    \A r \in Request :
        LET st == Restored(rep)[r]
        IN  FreshTo(caches[r], st.tokens, Len(st.tokens) - Rewritten(s, st))

\* After the verdicts the caches are fresh for the new states.
LEMMA AppliedCaches ==
  ASSUME NEW s \in Side, NEW rep, ReplicaOK(rep), Topped(rep),
         NEW windows \in [1..Len(rep.rows) -> [1..Gamma -> Token]],
         NEW new, RoundOf(rep, windows, new),
         NEW caches, RoundCached(s, rep, windows, caches)
  PROVE  Cached(s, new, caches)
  <1> SUFFICES ASSUME NEW r \in Request
               PROVE  FreshTo(caches[r], Restored(new)[r].tokens,
                              Len(Restored(new)[r].tokens) - Rewritten(s, Restored(new)[r]))
    BY DEF Cached
  <1>1. CASE r \in DOMAIN rep.completed
    <2>1. Restored(new)[r] = rep.states[r]
      BY <1>1, ZenonT(60) DEF Restored, RoundOf, Topped
    <2> QED
      BY <2>1 DEF RoundCached
  <1>2. CASE r \notin DOMAIN rep.completed /\ r \notin Members(rep.rows)
    <2>1. Restored(new)[r] = rep.states[r]
      BY <1>2 DEF Restored, RoundOf
    <2> QED
      BY <2>1 DEF RoundCached
  <1>3. CASE r \notin DOMAIN rep.completed /\ r \in Members(rep.rows)
    <2>1. PICK i \in 1..Len(rep.rows) : rep.rows[i] = r
      BY <1>3, ZenonT(60) DEF Members
    <2>2. Restored(new)[r] = new.states[r]
      BY <1>3 DEF Restored, RoundOf
    <2> DEFINE st == RowState(rep, i)
               st2 == new.states[r]
               w == windows[i]
               c == caches[r]
    <2>3. Sound(st, r) /\ Sound(st2, r)
      BY <2>1, RowsSound, ZenonT(60) DEF RoundOf, ReplicaOK
    <2>4. Step(st, w, st2)
      BY <2>1, ZenonT(60) DEF RoundOf
    <2>5. w \in Seq(Token) /\ Len(w) = Gamma /\ Len(w) \in 1..Gamma
      BY WindowIsSeq
    <2>6. IF s = "draft" THEN FreshTo(c, st.tokens \o w, Len(st.tokens) + Len(w) - 1)
                         ELSE FreshTo(c, st.tokens, Len(st.tokens))
      BY <2>1, <2>5, ZenonT(60) DEF RoundCached
    <2> HIDE DEF st, st2, w, c
    <2>7. /\ FreshTo(c, st.tokens, Len(st.tokens)) => FreshTo(c, st2.tokens, Len(st2.tokens) - Size(st2))
          /\ FreshTo(c, st.tokens \o w, Len(st.tokens) + Len(w) - 1)
              => FreshTo(c, st2.tokens, Len(st2.tokens) - 1)
      BY <2>3, <2>4, <2>5, AppliedFresh, ZenonT(60)
    <2>8. FreshTo(c, st2.tokens, Len(st2.tokens) - Rewritten(s, st2))
      BY <2>6, <2>7, ZenonT(60) DEF Rewritten, Side
    <2> QED
      BY <2>2, <2>8, ZenonT(60) DEF st2, c
  <1> QED
    BY <1>1, <1>2, <1>3, ZenonT(60)

\* A justified verdict passes the draft's checks.
LEMMA JustifiedValid ==
  ASSUME NEW r \in Request, NEW st, Sound(st, r), NEW w \in [1..Gamma -> Token],
         NEW v, Justified(st, w, v)
  PROVE  ValidVerification(Gamma, Size(st), v.accepted, v.correction, w)
  <1>1. w \in Seq(Token) /\ Len(w) = Gamma /\ Len(w) \in 1..Gamma
    BY WindowIsSeq
  <1>2. Len(VerificationWindow(st, w)) = Size(st)
    BY <1>1, WindowIsTail
  <1>3. Size(st) \in 1..Gamma
    BY SoundSize
  <1>4. v.accepted \in 0..Size(st) /\ (v.accepted = Size(st) <=> v.correction = NoToken)
    BY <1>2 DEF Justified, Legal
  <1> QED
    BY <1>1, <1>3, <1>4 DEF ValidVerification

------------------------------------------------------------------------------
(* When a batch stays inside its page tables.  A request stops at          *)
(* max_tokens only at a loop top, so its last round commits up to Gamma    *)
(* tokens more and the draft is by then a window ahead; a finished row     *)
(* that pads the batch is run once more from its recorded state.           *)

Padding == PadFinishedRequests \/ ContinuousBatching

\* Room for the positions the rounds of every request may write.
EnoughRoom ==
    \A r \in Request :
        PromptLen(r) + MaxTokens[r] + (IF Padding THEN 3 * Gamma - 3 ELSE 2 * Gamma - 3) <= Capacity

\* The most a round commits (one token after prefill, at least).
Overshoot == IF Gamma = 1 THEN 2 ELSE Gamma

\* A state that a round may have left behind.
Fits(st, r) == st.committed <= PromptLen(r) + MaxTokens[r] - 1 + Overshoot

\* A state that a round starts from, of a request not recorded as complete.  It
\* is unfinished or the state after prefill, which may be complete already.
Room(st, r) == st.committed + (IF st.pre THEN 0 ELSE 1) <= PromptLen(r) + MaxTokens[r]

ReplicaFits(rep) ==
    /\ \A r \in Request : r \notin DOMAIN rep.completed => Fits(rep.states[r], r)
    /\ \A r \in DOMAIN rep.completed : Fits(rep.completed[r], r)
    /\ \A r \in Request : r >= rep.next => /\ rep.states[r].pre
                                           /\ rep.states[r].committed = PromptLen(r) + 1
    /\ Padding \/ DOMAIN rep.completed = {}

RowsFit(rep) ==
    \A r \in Members(rep.rows) : r < rep.next
                              /\ (r \in DOMAIN rep.completed \/ Room(rep.states[r], r))

\* The numbers the bounds are made of.
LEMMA RoomNumbers ==
  /\ Gamma \in Nat \ {0} /\ Capacity \in Nat
  /\ \A r \in Request : /\ PromptLen(r) \in Nat /\ MaxTokens[r] \in Nat \ {0}
                        /\ PromptLen(r) + MaxTokens[r] + Gamma <= Capacity
  <1>1. Gamma \in Nat \ {0} /\ MaxModelLen \in Nat
    BY BatchAssumption
  <1>2. Capacity \in Nat /\ MaxModelLen <= Capacity
    BY CapacityFits
  <1> HIDE DEF Capacity
  <1>3. ASSUME NEW r \in Request
        PROVE  /\ PromptLen(r) \in Nat /\ MaxTokens[r] \in Nat \ {0}
               /\ PromptLen(r) + MaxTokens[r] + Gamma <= Capacity
    <2>1. Prompt[r] \in Seq(Token) /\ MaxTokens[r] \in Nat \ {0}
          /\ Len(Prompt[r]) + MaxTokens[r] + Gamma <= MaxModelLen
      BY BatchAssumption
    <2>2. Len(Prompt[r]) \in Nat
      BY <2>1
    <2> QED
      BY <1>1, <1>2, <2>1, <2>2 DEF PromptLen
  <1> QED
    BY <1>1, <1>2, <1>3

\* An unfinished request has committed less than max_tokens.
LEMMA UnfinishedRoom ==
  ASSUME NEW r \in Request, NEW st, Sound(st, r), ~IsFinished(st, r)
  PROVE  Room(st, r)
  <1> DEFINE c == CommittedCompletion(st, PromptLen(r))
  <1>1. Len(c) = st.committed - PromptLen(r) /\ Len(c) \in Nat
    BY CommittedIs
  <1>2. ~(Len(c) >= MaxTokens[r])
    BY DEF IsFinished, Finished
  <1>3. st.committed \in Nat /\ PromptLen(r) \in Nat /\ MaxTokens[r] \in Nat
    BY RoomNumbers, SoundSize
  <1> HIDE DEF c
  <1> QED
    BY <1>1, <1>2, <1>3 DEF Room

\* A round started with room leaves a state that fits.
LEMMA RoomFits ==
  ASSUME NEW r \in Request, NEW st, Sound(st, r), Room(st, r),
         NEW w, NEW new, Step(st, w, new)
  PROVE  Fits(new, r)
  <1>1. /\ Size(st) \in 1..Gamma /\ st.committed \in Nat /\ st.pre \in BOOLEAN
        /\ PromptLen(r) \in Nat /\ MaxTokens[r] \in Nat /\ Gamma \in Nat \ {0}
    BY RoomNumbers, SoundSize
  <1>2. st.pre => Size(st) = 1
    BY DEF Size, VerificationSize
  <1>3. new.committed \in st.committed..(st.committed + Size(st))
    BY DEF Step
  <1> QED
    BY <1>1, <1>2, <1>3 DEF Room, Fits, Overshoot

\* The rows a round chooses are admitted; those of an unpadded batch are unfinished.
LEMMA ChosenAdmitted ==
  ASSUME NEW rep, IsReplica(rep), QueueOK(rep)
  PROVE  /\ Members(Chosen(rep)) \subseteq {r \in Request : r < rep.next}
         /\ ~Padding => \A r \in Members(Chosen(rep)) : ~IsFinished(rep.states[r], r)
  <1> DEFINE U == {r \in Request : ~IsFinished(rep.states[r], r)}
             unfinished == Keep(AllRequests, U)
             C == DOMAIN rep.completed
             pad == PaddingIndices(rep.active, rep.completed)
  <1>1. /\ rep.active \in Seq(Request) /\ C \subseteq Request /\ rep.next \in Nat
        /\ Members(rep.active) \cup C = 0..(rep.next - 1)
    BY DEF IsReplica, QueueOK
  <1>2. CASE ContinuousBatching /\ C = Request
    <2>1. Chosen(rep) = <<>>
      BY <1>2 DEF Chosen
    <2> QED
      BY <2>1 DEF Members
  <1>3. CASE ContinuousBatching /\ C # Request
    <2>1. Chosen(rep) = rep.active \o pad
      BY <1>3, ZenonT(60) DEF Chosen
    <2>2. pad = Smallest(C, PaddingCount(rep.active))
      BY <1>3, PaddingFits, ZenonT(60) DEF PaddingIndices, Members
    <2>3. pad \in Seq(Request) /\ Members(pad) \subseteq C
      <3>1. C \in SUBSET Request /\ PaddingCount(rep.active) <= Cardinality(C)
            /\ PaddingCount(rep.active) \in Nat
        BY <1>1, <1>3, PaddingFits, ZenonT(60)
      <3> QED
        BY <2>2, <3>1, SmallestIs
    <2> HIDE DEF pad
    <2>4. Joined(Request, rep.active, pad, Chosen(rep))
      BY <1>1, <2>1, <2>3, JoinedIs, ZenonT(60)
    <2>5. Members(Chosen(rep)) = Members(rep.active) \cup Members(pad)
      BY <2>4 DEF Joined
    <2>6. Members(rep.active) \subseteq Request
      BY <1>1, ElementOfSeq DEF Members
    <2> QED
      BY <1>1, <1>3, <2>3, <2>5, <2>6 DEF Padding
  <1>4. CASE ~ContinuousBatching
    <2>1. Kept(Request, AllRequests, U, unfinished)
      BY AllRequestsIs, KeepIs
    <2>2. Members(unfinished) \subseteq U
      BY <2>1, ZenonT(60) DEF Kept
    <2>3. Chosen(rep) = IF PadFinishedRequests /\ unfinished # <<>> THEN AllRequests ELSE unfinished
      BY <1>4 DEF Chosen
    <2> HIDE DEF unfinished
    <2>4. Members(AllRequests) \subseteq Request
      BY AllRequestsIs, ZenonT(60) DEF Members
    <2>5. rep.next = NumRequests /\ \A r \in Request : r < rep.next
      <3>1. rep.next = NumRequests /\ NumRequests \in Nat
        BY <1>4, BatchSizes DEF QueueOK
      <3> QED
        BY <3>1 DEF Request
    <2> QED
      BY <2>2, <2>3, <2>4, <2>5 DEF Padding
  <1> QED
    BY <1>2, <1>3, <1>4

\* The loop top records only states that fit and chooses rows that have room.
LEMMA TopFits ==
  ASSUME NEW rep, ReplicaOK(rep), ReplicaFits(rep)
  PROVE  ReplicaFits(LoopTop(rep)) /\ RowsFit(LoopTop(rep))
  <1> DEFINE top == Refreshed(rep)
             new == LoopTop(rep)
             C == DOMAIN rep.completed
             F == NewlyFinished(rep)
             rows == Canonical(top.states, Chosen(top))
  <1>1. /\ IsReplica(rep) /\ QueueOK(rep) /\ C \subseteq Request
        /\ \A r \in Request : Sound(rep.states[r], r)
        /\ \A r \in C : Sound(rep.completed[r], r) /\ IsFinished(rep.completed[r], r)
        /\ rep.next \in Nat /\ rep.active \in Seq(Request)
        /\ Members(rep.active) \cup C = 0..(rep.next - 1)
        /\ rep.next <= NumRequests
    <2>1. /\ IsReplica(rep) /\ QueueOK(rep)
          /\ \A r \in Request : Sound(rep.states[r], r)
          /\ \A r \in C : Sound(rep.completed[r], r) /\ IsFinished(rep.completed[r], r)
      BY DEF ReplicaOK
    <2>2. rep.next \in Nat /\ rep.active \in Seq(Request) /\ C \subseteq Request
      BY <2>1 DEF IsReplica
    <2>3. Members(rep.active) \cup C = 0..(rep.next - 1) /\ rep.next <= NumRequests
      BY <2>1 DEF QueueOK
    <2> QED
      BY <2>1, <2>2, <2>3, ZenonT(60)
  <1>2. F \subseteq Request \ C /\ F \subseteq Members(rep.active)
    BY <1>1, FinishedWereActive, ZenonT(60)
  <1>3. TopOf(rep, new)
    BY LoopTopOK
  <1>4. top = [ states |-> Restored(rep),
                completed |-> [r \in C \cup F |-> Restored(rep)[r]],
                active |-> Refilled(rep).active, next |-> Refilled(rep).next, rows |-> <<>> ]
    BY DEF Refreshed
  <1>5. Refilled(rep).active \in Seq(Request) /\ Refilled(rep).next \in Nat /\ QueueOK(top)
    BY <1>1, RefillOK, ZenonT(60)
  <1>6. Refilled(rep).next >= rep.next
    <2>1. IsFiniteSet(F)
      BY <1>2, AllRequestsIs, FS_Subset
    <2>2. Cardinality(F) \in Nat
      BY <2>1, FS_CardinalityType
    <2>3. NumRequests \in Nat
      BY BatchAssumption
    <2>4. Refilled(rep).next = rep.next + (IF Cardinality(F) < NumRequests - rep.next
                                           THEN Cardinality(F) ELSE NumRequests - rep.next)
      BY DEF Refilled
    <2>5. rep.next \in Nat /\ rep.next <= NumRequests
      BY <1>1, ZenonT(60)
    <2> HIDE DEF F
    <2> QED
      BY <2>2, <2>3, <2>4, <2>5
  <1>7. \A r \in Request : Restored(rep)[r] = IF r \in C THEN rep.completed[r] ELSE rep.states[r]
    BY DEF Restored
  <1>8. new = [top EXCEPT !.rows = rows]
    BY DEF LoopTop, top
  <1>9. /\ top.states = Restored(rep) /\ DOMAIN top.completed = C \cup F
        /\ \A r \in C \cup F : top.completed[r] = Restored(rep)[r]
        /\ top.active = Refilled(rep).active /\ top.next = Refilled(rep).next /\ top.rows = <<>>
    BY <1>4
  <1>10. IsReplica(top)
    <2>1. IsReplica(new)
      BY <1>3, ZenonT(60) DEF TopOf, ReplicaOK
    <2>2. new.states = top.states /\ new.completed = top.completed
      BY <1>4, <1>8
    <2>3. top.states \in [Request -> PipelineState] /\ DOMAIN top.completed \subseteq Request
      BY <2>1, <2>2 DEF IsReplica
    <2> QED
      BY <1>4, <1>5, <1>9, <2>3 DEF IsReplica
  <1> HIDE DEF top
  <1>11. /\ Members(Chosen(top)) \subseteq {r \in Request : r < top.next}
         /\ ~Padding => \A r \in Members(Chosen(top)) : ~IsFinished(top.states[r], r)
    BY <1>5, <1>10, ChosenAdmitted
  <1>12. Members(rows) = Members(Chosen(top))
    <2>1. Chosen(top) \in Seq(Request)
      <3>1. \A r \in DOMAIN top.completed : IsFinished(top.states[r], r)
        <4>1. \A r \in F : IsFinished(rep.states[r], r)
          BY DEF NewlyFinished
        <4> QED
          BY <1>1, <1>2, <1>7, <1>9, <4>1, ZenonT(60)
      <3> QED
        BY <1>5, <1>10, <3>1, ChosenOK
    <2> QED
      BY <2>1, CanonicalIs
  <1> HIDE DEF rows, new
  <1>13. /\ new.states = top.states /\ new.completed = top.completed
         /\ new.next = top.next /\ new.rows = rows
    BY <1>4, <1>8
  <1>14. /\ \A r \in Request : r \notin C => Fits(rep.states[r], r)
         /\ \A r \in C : Fits(rep.completed[r], r)
         /\ \A r \in Request : r >= rep.next => /\ rep.states[r].pre
                                                /\ rep.states[r].committed = PromptLen(r) + 1
         /\ Padding \/ C = {}
    BY DEF ReplicaFits
  <1>15. ReplicaFits(new)
    <2>1. ASSUME NEW r \in Request, r \notin DOMAIN new.completed PROVE Fits(new.states[r], r)
      BY <1>7, <1>9, <1>13, <1>14, <2>1, ZenonT(60)
    <2>2. ASSUME NEW r \in DOMAIN new.completed PROVE Fits(new.completed[r], r)
      <3>1. r \in C \cup F /\ r \in Request /\ new.completed[r] = Restored(rep)[r]
        BY <1>1, <1>2, <1>9, <1>13, ZenonT(60)
      <3> QED
        BY <1>7, <1>14, <3>1, ZenonT(60)
    <2>3. ASSUME NEW r \in Request, r >= new.next
          PROVE  new.states[r].pre /\ new.states[r].committed = PromptLen(r) + 1
      <3>1. r \in Nat /\ r >= rep.next
        <4>1. r \in Nat
          BY DEF Request
        <4>2. r >= Refilled(rep).next
          BY <1>9, <1>13, <2>3, ZenonT(60)
        <4>3. rep.next \in Nat /\ Refilled(rep).next \in Nat
          BY <1>1, <1>5, ZenonT(60)
        <4> QED
          BY <1>6, <4>1, <4>2, <4>3
      <3>2. r \notin C
        BY <1>1, <3>1
      <3> QED
        BY <1>7, <1>9, <1>13, <1>14, <3>1, <3>2, ZenonT(60)
    <2>4. Padding \/ DOMAIN new.completed = {}
      <3>1. ~Padding => F = {}
        BY DEF Padding, NewlyFinished
      <3> QED
        BY <1>9, <1>13, <1>14, <3>1, ZenonT(60)
    <2> QED
      BY <2>1, <2>2, <2>3, <2>4 DEF ReplicaFits
  <1>16. ASSUME NEW r \in Members(new.rows)
         PROVE  r < new.next /\ (r \in DOMAIN new.completed \/ Room(new.states[r], r))
    <2>1. r \in Request /\ r < new.next /\ r \in Members(Chosen(top))
      BY <1>11, <1>12, <1>13
    <2>2. SUFFICES ASSUME r \notin C, r \notin F PROVE Room(rep.states[r], r)
      BY <1>7, <1>9, <1>13, <2>1, ZenonT(60)
    <2>3. Sound(rep.states[r], r) /\ new.states[r] = rep.states[r]
      BY <1>1, <1>7, <1>9, <1>13, <2>1, <2>2, ZenonT(60)
    <2>4. CASE r >= rep.next
      <3>1. rep.states[r].pre /\ rep.states[r].committed = PromptLen(r) + 1
        BY <1>14, <2>1, <2>4
      <3>2. PromptLen(r) \in Nat /\ MaxTokens[r] \in Nat \ {0}
        BY <2>1, RoomNumbers
      <3> QED
        BY <3>1, <3>2 DEF Room
    <2>5. CASE ~(r >= rep.next)
      <3>1. r \in Members(rep.active)
        <4>1. r \in Nat
          BY <2>1, AllRequestsIs DEF Request
        <4>2. r \in 0..(rep.next - 1)
          BY <1>1, <2>5, <4>1
        <4> QED
          BY <1>1, <2>2, <4>2, ZenonT(60)
      <3>2. ~IsFinished(rep.states[r], r)
        <4>1. CASE Padding
          <5>1. \E i \in 1..Len(rep.active) : rep.active[i] = r
            BY <3>1 DEF Members
          <5> QED
            BY <2>1, <2>2, <4>1, <5>1, ZenonT(60) DEF NewlyFinished, Padding
        <4>2. CASE ~Padding
          BY <1>11, <1>13, <2>1, <2>3, <4>2
        <4> QED
          BY <4>1, <4>2
      <3> QED
        BY <2>1, <2>3, <3>2, UnfinishedRoom, ZenonT(60)
    <2> QED
      BY <2>4, <2>5, ZenonT(60)
  <1> QED
    BY <1>15, <1>16 DEF RowsFit, new

\* The verdicts of a round leave states that fit.
LEMMA RoundFits ==
  ASSUME NEW rep, ReplicaOK(rep), ReplicaFits(rep), RowsFit(rep), NEW windows,
         NEW new, RoundOf(rep, windows, new), new.next = rep.next
  PROVE  ReplicaFits(new)
  <1>1. /\ \A r \in Request : r \notin DOMAIN rep.completed => Fits(rep.states[r], r)
        /\ \A r \in DOMAIN rep.completed : Fits(rep.completed[r], r)
        /\ \A r \in Request : r >= rep.next => /\ rep.states[r].pre
                                               /\ rep.states[r].committed = PromptLen(r) + 1
        /\ Padding \/ DOMAIN rep.completed = {}
    BY DEF ReplicaFits
  <1>2. /\ new.completed = rep.completed
        /\ \A r \in Request : r \notin Members(rep.rows) => new.states[r] = rep.states[r]
        /\ \A i \in 1..Len(rep.rows) : Step(RowState(rep, i), windows[i], new.states[rep.rows[i]])
    BY DEF RoundOf
  <1>3. \A r \in Request : Sound(rep.states[r], r)
    BY ZenonT(60) DEF ReplicaOK
  <1>4. ASSUME NEW r \in Request, r \notin DOMAIN new.completed PROVE Fits(new.states[r], r)
    <2>1. CASE r \in Members(rep.rows)
      <3>1. PICK i \in 1..Len(rep.rows) : rep.rows[i] = r
        BY <2>1, ZenonT(60) DEF Members
      <3>2. Step(rep.states[r], windows[i], new.states[r])
        BY <1>2, <3>1 DEF RowState
      <3>3. Room(rep.states[r], r)
        BY <1>2, <1>4, <2>1 DEF RowsFit
      <3> QED
        BY <1>3, <3>2, <3>3, RoomFits, ZenonT(60)
    <2>2. CASE r \notin Members(rep.rows)
      BY <1>1, <1>2, <1>4, <2>2, ZenonT(60)
    <2> QED
      BY <2>1, <2>2
  <1>5. ASSUME NEW r \in Request, r >= new.next
        PROVE  new.states[r].pre /\ new.states[r].committed = PromptLen(r) + 1
    <2>1. r \in Nat /\ rep.next \in Nat
      BY AllRequestsIs DEF Request, ReplicaOK, IsReplica
    <2>2. r \notin Members(rep.rows)
      BY <1>5, <2>1 DEF RowsFit
    <2> QED
      BY <1>1, <1>2, <1>5, <2>2, ZenonT(60)
  <1> QED
    BY <1>1, <1>2, <1>4, <1>5, ZenonT(60) DEF ReplicaFits

\* The last position a round writes for a row is inside the page table.
LEMMA RowsInside ==
  ASSUME EnoughRoom, NEW rep, ReplicaOK(rep), Topped(rep), ReplicaFits(rep), RowsFit(rep),
         NEW i \in 1..Len(rep.rows)
  PROVE  Len(RowState(rep, i).tokens) + Gamma - 1 <= Capacity
  <1> DEFINE r == rep.rows[i]
             st == RowState(rep, i)
             k == PromptLen(r) + MaxTokens[r]
  <1>1. r \in Request /\ Sound(st, r) /\ st = rep.states[r]
    BY RowsSound
  <1>2. r \in DOMAIN rep.completed \/ Room(st, r)
    BY <1>1 DEF RowsFit, Members
  <1>3. r \in DOMAIN rep.completed => Fits(st, r) /\ Padding
    BY <1>1, ZenonT(60) DEF Topped, ReplicaFits
  <1>4. k + (IF Padding THEN 3 * Gamma - 3 ELSE 2 * Gamma - 3) <= Capacity /\ k + Gamma <= Capacity
        /\ k \in Nat /\ Gamma \in Nat \ {0} /\ Capacity \in Nat
    BY <1>1, RoomNumbers DEF EnoughRoom
  <1>5. /\ Size(st) \in 1..Gamma /\ st.committed = Len(st.tokens) - Size(st) + 1
        /\ Len(st.tokens) \in Nat /\ st.committed \in Nat
    BY <1>1, SoundSize, ZenonT(60)
  <1>6. st.pre => Size(st) = 1
    BY DEF Size, VerificationSize
  <1>7. Room(st, r) => st.committed + (IF st.pre THEN 0 ELSE 1) <= k
    BY DEF Room
  <1>8. Fits(st, r) => st.committed <= k - 1 + Overshoot
    <2>1. PromptLen(r) \in Nat /\ MaxTokens[r] \in Nat /\ Overshoot \in Nat
      BY <1>1, RoomNumbers DEF Overshoot
    <2> HIDE DEF r, st
    <2> QED
      BY <2>1 DEF Fits
  <1> DEFINE len == Len(st.tokens)
             com == st.committed
             size == Size(st)
             cap == Capacity
  <1>9. com = len - size + 1 /\ size \in 1..Gamma /\ len \in Nat /\ com \in Nat /\ cap \in Nat
    BY <1>4, <1>5
  <1> HIDE DEF r, k, len, com, size, cap
  <1>10. CASE Room(st, r)
    <2>1. CASE st.pre
      <3>1. com <= k /\ size = 1 /\ k + Gamma <= cap
        <4>1. com + 0 <= k
          BY <1>7, <1>10, <2>1 DEF com
        <4>2. size = 1
          BY <1>6, <2>1 DEF size
        <4>3. k + Gamma <= cap
          BY <1>4 DEF cap
        <4> QED
          BY <1>4, <1>9, <4>1, <4>2, <4>3
      <3>2. len + Gamma - 1 <= cap
        BY <1>4, <1>9, <3>1
      <3> QED
        BY <3>2 DEF len, cap
    <2>2. CASE ~st.pre
      <3>1. com + 1 <= k /\ k + 2 * Gamma - 3 <= cap
        <4>1. com + 1 <= k
          BY <1>7, <1>10, <2>2 DEF com
        <4>2. k + 2 * Gamma - 3 <= cap
          BY <1>4 DEF cap
        <4> QED
          BY <4>1, <4>2
      <3>2. len + Gamma - 1 <= cap
        BY <1>4, <1>9, <3>1
      <3> QED
        BY <3>2 DEF len, cap
    <2> QED
      BY <2>1, <2>2
  <1>11. CASE Fits(st, r) /\ Padding
    <2>1. com <= k - 1 + Overshoot /\ k + 3 * Gamma - 3 <= cap /\ k + Gamma <= cap
      BY <1>4, <1>8, <1>11 DEF com, cap
    <2>2. k \in Nat /\ Gamma \in Nat \ {0}
      BY <1>4, ZenonT(60)
    <2>3. len + Gamma - 1 <= cap
      BY <1>9, <2>1, <2>2 DEF Overshoot
    <2> QED
      BY <2>3, ZenonT(60) DEF len, cap
  <1> QED
    BY <1>2, <1>3, <1>10, <1>11
==============================================================================
