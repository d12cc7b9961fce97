-------------------------- MODULE MappedOffloadProofs --------------------------
(***************************************************************************)
(* Proofs that the mapped offload handler accounts for every job and keeps *)
(* what the NPU still uses, for any number of jobs, pools and block counts *)
(* and every way in which submissions, polls and shutdowns can fail.       *)
(*                                                                         *)
(* The argument: a deque holds its jobs in increasing order, all below the *)
(* next job id, and the device only works on jobs that are in the deque.   *)
(* Polling takes a completed prefix off the deque, so whatever remains, in *)
(* the deque or on the device, is younger than what has been reported.     *)
(***************************************************************************)
EXTENDS MappedOffload, FiniteSetTheorems, TLAPS

USE SMTT(20), ZenonT(60)

Tracked(d) == {transfers[d][i].job : i \in DOMAIN transfers[d]}
Running(d) == {device[d][i].job : i \in DOMAIN device[d]}

\* The deques and device queues are sequences, job ids are numbers.
QueuesOK ==
  /\ next_job \in [Directions -> Nat]
  /\ transfers = [d \in Directions |-> transfers[d]]
  /\ device = [d \in Directions |-> device[d]]
  /\ \A d \in Directions :
       /\ \E S : transfers[d] \in Seq(S)
       /\ \E S : device[d] \in Seq(S)
       /\ \A i \in DOMAIN transfers[d] : transfers[d][i].job \in Nat

\* A deque is in submission order and covers the work on the device.
InOrder ==
  \A d \in Directions :
    /\ \A i, k \in DOMAIN transfers[d] : i < k => transfers[d][i].job < transfers[d][k].job
    /\ \A i \in DOMAIN transfers[d] : transfers[d][i].job < next_job[d]
    /\ Running(d) \subseteq Tracked(d)

\* Only submitted jobs have a result, and results are about the jobs of the model.
ResultsOK ==
  /\ results = [d \in Directions |-> results[d]]
  /\ \A d \in Directions :
       /\ results[d] = [j \in 1..MaxJobs[d] |-> results[d][j]]
       /\ \A j \in 1..MaxJobs[d] :
             results[d][j] # "none" => j < next_job[d]

\* A tracked transfer has no result yet but what its submission told the caller.
OutcomesOK ==
  \A d \in Directions :
    /\ next_job[d] >= 1
    /\ \A i \in DOMAIN transfers[d] :
         /\ transfers[d][i].job \in 1..MaxJobs[d]
         /\ results[d][transfers[d][i].job] = IF transfers[d][i].ok THEN "accepted" ELSE "raised"

IInv == QueuesOK /\ InOrder /\ ResultsOK /\ OutcomesOK /\ JobsTracked

--------------------------------------------------------------------------------
\* What a list holds is what it is a list of.
LEMMA ElementOfSeq == ASSUME NEW S, NEW s \in Seq(S), NEW n \in 1..Len(s) PROVE s[n] \in S
  OBVIOUS

\* The empty list, and the length of any other.
LEMMA EmptySeq ==
  ASSUME NEW S
  PROVE  << >> \in Seq(S) /\ Len(<< >>) = 0 /\ (\A s \in Seq(S) : s # << >> => Len(s) \in Nat \ {0})
  OBVIOUS

\* A list is a function on the places up to its length.
LEMMA LenProperties ==
  ASSUME NEW S, NEW s \in Seq(S)
  PROVE  Len(s) \in Nat /\ DOMAIN s = 1..Len(s) /\ s \in [1..Len(s) -> S]
  OBVIOUS

\* Lists of one length with the same members are the same list.
LEMMA SeqEqual ==
  ASSUME NEW S, NEW s \in Seq(S), NEW t \in Seq(S), Len(s) = Len(t), \A i \in 1..Len(s) : s[i] = t[i]
  PROVE  s = t
  <1>1. Len(s) \in Nat /\ s = [i \in 1..Len(s) |-> s[i]] /\ t = [i \in 1..Len(t) |-> t[i]]
    OBVIOUS
  <1> QED
    BY <1>1

\* The members of a list with one more at its end.
LEMMA AppendProperties ==
  ASSUME NEW S, NEW s \in Seq(S), NEW e \in S
  PROVE  /\ Append(s, e) \in Seq(S) /\ Append(s, e) # << >> /\ Len(Append(s, e)) = Len(s) + 1
         /\ (\A i \in 1..Len(s) : Append(s, e)[i] = s[i]) /\ Append(s, e)[Len(s) + 1] = e
  OBVIOUS

\* The members of two lists put together.
LEMMA ConcatProperties ==
  ASSUME NEW S, NEW s \in Seq(S), NEW t \in Seq(S)
  PROVE  /\ s \o t \in Seq(S) /\ Len(s \o t) = Len(s) + Len(t)
         /\ \A i \in 1..Len(s) + Len(t) : (s \o t)[i] = IF i <= Len(s) THEN s[i] ELSE t[i - Len(s)]
  OBVIOUS

\* The members of a part of a list.
LEMMA SubSeqProperties ==
  ASSUME NEW S, NEW s, NEW m \in Int, NEW n \in Int, \A i \in m..n : s[i] \in S
  PROVE  /\ SubSeq(s, m, n) \in Seq(S) /\ Len(SubSeq(s, m, n)) = (IF m <= n THEN n - m + 1 ELSE 0)
         /\ \A i \in 1..n - m + 1 : SubSeq(s, m, n)[i] = s[m + i - 1]
  OBVIOUS

\* The part of a list that is all of it.
LEMMA SubSeqFull == ASSUME NEW S, NEW s \in Seq(S) PROVE SubSeq(s, 1, Len(s)) = s
  OBVIOUS

\* The first member of a list, and the list of the others.
LEMMA HeadTailProperties ==
  ASSUME NEW S, NEW s \in Seq(S), s # << >>
  PROVE  /\ Head(s) \in S /\ Tail(s) \in Seq(S) /\ Len(Tail(s)) = Len(s) - 1
         /\ \A i \in 1..Len(Tail(s)) : Tail(s)[i] = s[i + 1]
  OBVIOUS

\* The list of the others is the part from the second place on.
LEMMA TailIsSubSeq == ASSUME NEW S, NEW s \in Seq(S), s # << >> PROVE Tail(s) = SubSeq(s, 2, Len(s))
  <1>1. Tail(s) \in Seq(S) /\ SubSeq(s, 2, Len(s)) \in Seq(S)
    BY SubSeqProperties, HeadTailProperties
  <1>4. Len(s) \in Nat \ {0} /\ \A i \in 2..Len(s) : s[i] \in S
    BY EmptySeq
  <1>2. Len(s) \in Nat \ {0} /\ Len(Tail(s)) = Len(SubSeq(s, 2, Len(s)))
    <2>1. Len(Tail(s)) = Len(s) - 1
      BY HeadTailProperties
    <2>2. Len(SubSeq(s, 2, Len(s))) = IF 2 <= Len(s) THEN Len(s) - 2 + 1 ELSE 0
      BY <1>4
    <2> QED
      BY <1>4, <2>1, <2>2
  <1>3. \A i \in 1..Len(Tail(s)) : Tail(s)[i] = SubSeq(s, 2, Len(s))[i]
    BY <1>2, SubSeqProperties, HeadTailProperties
  <1> QED
    BY <1>1, <1>2, <1>3, SeqEqual

\* A non-empty set of naturals with an upper bound has a greatest element.
LEMMA MaxExists ==
  ASSUME NEW n \in Nat, NEW T \in SUBSET (0..n), T # {}
  PROVE  Max(T) \in T
  <1> DEFINE R == {ss \in Nat \X Nat : ss[1] < ss[2]}
             D == {n - x : x \in T}
  <1>1. IsWellFoundedOn(R, Nat)
    BY NatLessThanWellFounded DEF OpToRel
  <1>2. D \subseteq Nat /\ D # {}
    <2>1. \A x \in T : n - x \in Nat /\ n - x \in D
      OBVIOUS
    <2>2. PICK x : x \in T
      OBVIOUS
    <2>3. D # {}
      BY <2>1, <2>2
    <2> QED
      BY <2>1, <2>3
  <1>3. PICK y \in D : \A z \in D : ~(<<z, y>> \in R)
    <2> HIDE DEF D, R
    <2> QED
      BY <1>1, <1>2, WFMin, ZenonT(60)
  <1>4. PICK x \in T : y = n - x
    BY <1>3
  <1>5. \A z \in D : z \in Nat /\ y \in Nat /\ ~(z < y)
    BY <1>2, <1>3, ZenonT(60)
  <1>6. \A w \in T : x >= w
    BY <1>4, <1>5
  <1> QED
    BY <1>4, <1>6, ZenonT(60) DEF Max

\* What get_finished takes off a deque: a prefix of it whose jobs are complete.
LEMMA FinishedIsPrefix ==
  ASSUME IInv, NEW d \in Directions
  PROVE  \E n \in 0..Len(transfers[d]) :
           /\ Finished(d) = SubSeq(transfers[d], 1, n)
           /\ Len(Finished(d)) = n
           /\ \A i \in 1..n : Finished(d)[i] = transfers[d][i]
           /\ DOMAIN Finished(d) = 1..n
           /\ \A i \in 1..n : Complete(d, transfers[d][i])
  <1> DEFINE done(n) == \A i \in 1..n : /\ ~transfers[d][i].needs_stream_sync
                                        /\ Complete(d, transfers[d][i])
             T == {n \in 0..Len(transfers[d]) : done(n)}
             m == Max(T)
  <1>1. PICK S : transfers[d] \in Seq(S)
    BY DEF IInv, QueuesOK
  <1>2. Len(transfers[d]) \in Nat /\ DOMAIN transfers[d] = 1..Len(transfers[d])
    BY <1>1
  <1>3. 0 \in T
    BY <1>2
  <1>4. m \in T
    <2>1. T \in SUBSET (0..Len(transfers[d])) /\ T # {}
      BY <1>3
    <2> HIDE DEF T
    <2> QED
      BY <1>2, <2>1, MaxExists, ZenonT(60)
  <1>5. m \in 0..Len(transfers[d]) /\ done(m)
    BY <1>4
  <1>6. Finished(d) = SubSeq(transfers[d], 1, m)
    BY DEF Finished
  <1> HIDE DEF m
  <1>7. \A i \in 1..m : transfers[d][i] \in S
    BY <1>1, <1>2, <1>5
  <1>8. /\ Len(SubSeq(transfers[d], 1, m)) = m
        /\ SubSeq(transfers[d], 1, m) \in Seq(S)
        /\ \A i \in 1..m : SubSeq(transfers[d], 1, m)[i] = transfers[d][i]
    BY <1>2, <1>5, <1>7, SubSeqProperties
  <1>9. DOMAIN SubSeq(transfers[d], 1, m) = 1..m
    BY <1>8
  <1> QED
    BY <1>5, <1>6, <1>8, <1>9

--------------------------------------------------------------------------------
\* A step that takes no job and leaves deques, device and results alone.
LEMMA JobsUnchanged ==
  ASSUME IInv, UNCHANGED <<transfers, device, results, next_job>>
  PROVE  IInv' /\ JobStep
  <1>1. \A d \in Directions : Tracked(d)' = Tracked(d) /\ Running(d)' = Running(d)
    BY DEF Tracked, Running
  <1>2. IInv'
    BY <1>1 DEF IInv, QueuesOK, InOrder, ResultsOK, OutcomesOK, JobsTracked, Directions
  <1>3. JobStep
    BY ZenonT(60) DEF JobStep
  <1> QED
    BY <1>2, <1>3

\* A submission that raises takes a job id and gives it a final result.
LEMMA JobRaises ==
  ASSUME IInv, NEW d \in Directions, next_job[d] <= MaxJobs[d],
         next_job' = [next_job EXCEPT ![d] = @ + 1],
         transfers' = transfers,
         device' = device \/ device' = [device EXCEPT ![d] = << >>],
         results' = [results EXCEPT ![d][next_job[d]] = "raised"]
  PROVE  IInv' /\ JobStep
  <1>1. \A e \in Directions : next_job[e] \in Nat /\ next_job'[e] \in Nat /\ next_job[e] <= next_job'[e]
    BY DEF IInv, QueuesOK
  <1>2. \A e \in Directions : device'[e] = device[e] \/ device'[e] = << >>
    BY DEF IInv, QueuesOK
  <1>3. QueuesOK'
    <2>1. \A e \in Directions : \E S : device'[e] \in Seq(S)
      <3> SUFFICES ASSUME NEW e \in Directions PROVE \E S : device'[e] \in Seq(S)
        OBVIOUS
      <3>1. \E S : device[e] \in Seq(S)
        BY DEF IInv, QueuesOK
      <3>2. << >> \in Seq({})
        OBVIOUS
      <3> QED
        BY <1>2, <3>1, <3>2, ZenonT(60)
    <2>2. device' = [e \in Directions |-> device'[e]]
      BY DEF IInv, QueuesOK
    <2>3. next_job' \in [Directions -> Nat]
      BY <1>1 DEF IInv, QueuesOK
    <2> QED
      BY <2>1, <2>2, <2>3 DEF IInv, QueuesOK, Directions
  <1>4. \A e \in Directions : Tracked(e)' = Tracked(e) /\ Running(e)' \subseteq Running(e)
    BY <1>2 DEF Tracked, Running
  <1>5. InOrder'
    BY <1>1, <1>3, <1>4 DEF IInv, QueuesOK, InOrder, Directions
  <1>6. /\ results' = [e \in Directions |-> results'[e]]
        /\ \A e \in Directions : results'[e] = [j \in 1..MaxJobs[e] |-> results'[e][j]]
        /\ \A e \in Directions : \A j \in 1..MaxJobs[e] :
             \/ results'[e][j] = results[e][j]
             \/ e = d /\ j = next_job[d] /\ results'[e][j] = "raised"
    BY ZenonT(60) DEF IInv, ResultsOK
  <1>7. \A e \in Directions : MaxJobs[e] \in Nat
    BY OffloadAssumption DEF Directions
  <1>8. ResultsOK'
    <2>1. ASSUME NEW e \in Directions, NEW j \in 1..MaxJobs[e], results'[e][j] # "none"
          PROVE  j < next_job'[e]
      <3>1. CASE results'[e][j] = results[e][j]
        <4>1. j < next_job[e]
          BY <2>1, <3>1 DEF IInv, ResultsOK
        <4> QED
          BY <1>1, <1>7, <4>1
      <3>2. CASE e = d /\ j = next_job[d]
        BY <1>1, <1>7, <3>2 DEF IInv, QueuesOK
      <3> QED
        BY <1>6, <3>1, <3>2
    <2> QED
      BY <1>6, <2>1 DEF ResultsOK, Directions
  <1>10. OutcomesOK'
    <2> SUFFICES ASSUME NEW e \in Directions
                 PROVE  /\ next_job'[e] >= 1
                        /\ \A i \in DOMAIN transfers[e] :
                             /\ transfers[e][i].job \in 1..MaxJobs[e]
                             /\ results'[e][transfers[e][i].job]
                                  = IF transfers[e][i].ok THEN "accepted" ELSE "raised"
      BY DEF OutcomesOK, Directions
    <2>1. next_job'[e] >= 1
      BY <1>1 DEF IInv, OutcomesOK
    <2>2. ASSUME NEW i \in DOMAIN transfers[e]
          PROVE  /\ transfers[e][i].job \in 1..MaxJobs[e]
                 /\ results'[e][transfers[e][i].job] = results[e][transfers[e][i].job]
      <3>1. transfers[e][i].job \in 1..MaxJobs[e]
        BY DEF IInv, OutcomesOK
      <3>2. transfers[e][i].job # next_job[e]
        BY <1>1, <1>7, <3>1 DEF IInv, InOrder
      <3> QED
        BY <1>6, <3>1, <3>2
    <2> QED
      BY <2>1, <2>2 DEF IInv, OutcomesOK
  <1>11. JobStep
    <2> SUFFICES ASSUME NEW e \in Directions, NEW j \in 1..MaxJobs[e],
                        results'[e][j] # results[e][j]
                 PROVE  results[e][j] = "none" /\ results'[e][j] = "raised"
      BY DEF JobStep
    <2>1. e = d /\ j = next_job[d] /\ results'[e][j] = "raised"
      BY <1>6
    <2>2. ~(j < next_job[e])
      BY <1>1, <2>1
    <2> QED
      BY <2>1, <2>2 DEF IInv, ResultsOK
  <1>9. JobsTracked'
    <2> SUFFICES ASSUME NEW e \in Directions, NEW j \in 1..MaxJobs[e]
                 PROVE  /\ results'[e][j] = "accepted" => j \in Tracked(e)'
                        /\ results'[e][j] \in {"success", "failure"} =>
                             /\ \A i \in Tracked(e)' : j < i
                             /\ \A i \in DOMAIN device'[e] : device'[e][i].job > j
      BY DEF JobsTracked, Tracked, Directions
    <2>1. \A i \in DOMAIN device'[e] : i \in DOMAIN device[e] /\ device'[e][i] = device[e][i]
      BY <1>2
    <2> QED
      BY <1>4, <1>6, <2>1 DEF IInv, JobsTracked, Tracked
  <1> QED
    BY <1>3, <1>5, <1>8, <1>9, <1>10, <1>11 DEF IInv

\* A submission that is tracked: its job is the youngest of the deque.
LEMMA JobTracked ==
  ASSUME IInv, NEW d \in Directions, NEW n, NEW k, NEW ok \in BOOLEAN, NEW sync \in BOOLEAN,
         SubmitTracked(d, n, k, ok, sync)
  PROVE  IInv' /\ JobStep
  <1> DEFINE t == Transfer(d, n, ok, sync)
             w == [job |-> t.job, lane |-> t.lane, buffer |-> t.buffer]
             x == next_job[d]
  <1>1. /\ t.job = x /\ t.ok = ok /\ w.job = x /\ x \in Nat /\ x <= MaxJobs[d]
        /\ next_job' = [next_job EXCEPT ![d] = @ + 1]
        /\ transfers' = [transfers EXCEPT ![d] = Append(@, t)]
        /\ device' = [device EXCEPT ![d] = Append(@, w)]
        /\ results' = [results EXCEPT ![d][x] = IF ok THEN "accepted" ELSE "raised"]
    BY DEF SubmitTracked, Submitting, Transfer, IInv, QueuesOK
  <1> HIDE DEF t, w
  <1>2. PICK S : transfers[d] \in Seq(S)
    BY DEF IInv, QueuesOK
  <1>3. PICK W : device[d] \in Seq(W)
    BY DEF IInv, QueuesOK
  <1>4. \A e \in Directions : next_job[e] \in Nat /\ next_job'[e] \in Nat /\ next_job[e] <= next_job'[e]
    BY <1>1 DEF IInv, QueuesOK
  <1>5. \A e \in Directions \ {d} : transfers'[e] = transfers[e] /\ device'[e] = device[e]
    BY <1>1 DEF IInv, QueuesOK
  <1>6. /\ transfers'[d] \in Seq(S \cup {t})
        /\ transfers'[d] = Append(transfers[d], t)
        /\ DOMAIN transfers'[d] = 1..(Len(transfers[d]) + 1)
        /\ DOMAIN transfers[d] = 1..Len(transfers[d])
        /\ Len(transfers[d]) \in Nat
        /\ \A i \in 1..Len(transfers[d]) : transfers'[d][i] = transfers[d][i]
        /\ transfers'[d][Len(transfers[d]) + 1] = t
    <2>1. transfers[d] \in Seq(S \cup {t})
      BY <1>2
    <2>2. transfers'[d] = Append(transfers[d], t)
      BY <1>1 DEF IInv, QueuesOK
    <2> QED
      BY <2>1, <2>2, AppendProperties
  <1>7. /\ device'[d] \in Seq(W \cup {w})
        /\ DOMAIN device'[d] = 1..(Len(device[d]) + 1)
        /\ DOMAIN device[d] = 1..Len(device[d])
        /\ Len(device[d]) \in Nat
        /\ \A i \in 1..Len(device[d]) : device'[d][i] = device[d][i]
        /\ device'[d][Len(device[d]) + 1] = w
    <2>1. device[d] \in Seq(W \cup {w})
      BY <1>3
    <2>2. device'[d] = Append(device[d], w)
      BY <1>1 DEF IInv, QueuesOK
    <2> QED
      BY <2>1, <2>2, AppendProperties
  <1>8. Tracked(d)' = Tracked(d) \cup {x}
    BY <1>1, <1>6 DEF Tracked
  <1>9. Running(d)' = Running(d) \cup {x}
    BY <1>1, <1>7 DEF Running
  <1>10. \A e \in Directions \ {d} : Tracked(e)' = Tracked(e) /\ Running(e)' = Running(e)
    BY <1>5 DEF Tracked, Running
  <1>11. QueuesOK'
    <2>1. transfers' = [e \in Directions |-> transfers'[e]] /\ device' = [e \in Directions |-> device'[e]]
      BY <1>1, ZenonT(60) DEF IInv, QueuesOK
    <2>2. next_job' \in [Directions -> Nat]
      BY <1>1 DEF IInv, QueuesOK
    <2>3. \A e \in Directions : (\E Z : transfers'[e] \in Seq(Z)) /\ (\E Z : device'[e] \in Seq(Z))
      BY <1>5, <1>6, <1>7, ZenonT(60) DEF IInv, QueuesOK
    <2>4. \A e \in Directions : \A i \in DOMAIN transfers'[e] : transfers'[e][i].job \in Nat
      BY <1>1, <1>5, <1>6 DEF IInv, QueuesOK
    <2> QED
      BY <2>1, <2>2, <2>3, <2>4 DEF QueuesOK, Directions
  <1>12. InOrder'
    <2>1. \A i, j \in DOMAIN transfers'[d] : i < j => transfers'[d][i].job < transfers'[d][j].job
      <3> SUFFICES ASSUME NEW i \in DOMAIN transfers'[d], NEW j \in DOMAIN transfers'[d], i < j
                   PROVE  transfers'[d][i].job < transfers'[d][j].job
        OBVIOUS
      <3>1. i \in DOMAIN transfers[d] /\ transfers'[d][i] = transfers[d][i]
        BY <1>6
      <3>2. CASE j = Len(transfers[d]) + 1
        <4>1. transfers[d][i].job < x
          BY <3>1 DEF IInv, InOrder
        <4> QED
          BY <1>1, <1>6, <3>1, <3>2, <4>1
      <3>3. CASE j # Len(transfers[d]) + 1
        <4>1. j \in DOMAIN transfers[d] /\ transfers'[d][j] = transfers[d][j]
          BY <1>6, <3>3
        <4> QED
          BY <3>1, <4>1 DEF IInv, InOrder
      <3> QED
        BY <3>2, <3>3
    <2>2. ASSUME NEW i \in DOMAIN transfers'[d]
          PROVE  transfers'[d][i].job < next_job'[d]
      <3>1. x \in Nat /\ next_job'[d] = x + 1
        BY <1>1 DEF IInv, QueuesOK
      <3>2. CASE i = Len(transfers[d]) + 1
        BY <1>1, <1>6, <3>1, <3>2
      <3>3. CASE i # Len(transfers[d]) + 1
        <4>1. i \in DOMAIN transfers[d] /\ transfers'[d][i] = transfers[d][i]
          BY <1>6, <3>3
        <4>2. transfers[d][i].job \in Nat /\ transfers[d][i].job < x
          BY <4>1 DEF IInv, QueuesOK, InOrder
        <4> QED
          BY <3>1, <4>1, <4>2
      <3> QED
        BY <3>2, <3>3
    <2>3. \A e \in Directions : Running(e)' \subseteq Tracked(e)'
      BY <1>8, <1>9, <1>10 DEF IInv, InOrder
    <2>4. \A e \in Directions \ {d} : next_job'[e] = next_job[e]
      BY <1>1 DEF IInv, QueuesOK
    <2> QED
      BY <1>5, <2>1, <2>2, <2>3, <2>4 DEF IInv, InOrder, Directions
  <1>13. /\ results' = [e \in Directions |-> results'[e]]
         /\ \A e \in Directions : results'[e] = [j \in 1..MaxJobs[e] |-> results'[e][j]]
         /\ \A e \in Directions : \A j \in 1..MaxJobs[e] :
              \/ results'[e][j] = results[e][j]
              \/ e = d /\ j = x /\ results'[e][j] = IF ok THEN "accepted" ELSE "raised"
    BY <1>1, ZenonT(60) DEF IInv, ResultsOK
  <1>14. ResultsOK'
    <2>1. \A e \in Directions : MaxJobs[e] \in Nat
      BY OffloadAssumption DEF Directions
    <2>2. ASSUME NEW e \in Directions, NEW j \in 1..MaxJobs[e], results'[e][j] # "none"
          PROVE  j < next_job'[e]
      <3>1. CASE results'[e][j] = results[e][j]
        <4>1. j < next_job[e]
          BY <2>2, <3>1 DEF IInv, ResultsOK
        <4> QED
          BY <1>4, <2>1, <4>1
      <3>2. CASE e = d /\ j = x
        <4>1. next_job'[d] = x + 1
          BY <1>1 DEF IInv, QueuesOK
        <4> QED
          BY <1>1, <3>2, <4>1
      <3> QED
        BY <1>13, <3>1, <3>2
    <2> QED
      BY <1>13, <2>2 DEF ResultsOK, Directions
  <1>15. JobsTracked'
    <2> SUFFICES ASSUME NEW e \in Directions, NEW j \in 1..MaxJobs[e]
                 PROVE  /\ results'[e][j] = "accepted" => j \in Tracked(e)'
                        /\ results'[e][j] \in {"success", "failure"} =>
                             /\ \A i \in Tracked(e)' : j < i
                             /\ \A i \in DOMAIN device'[e] : device'[e][i].job > j
      BY DEF JobsTracked, Tracked, Directions
    <2>1. /\ results[e][j] = "accepted" => j \in Tracked(e)
          /\ results[e][j] \in {"success", "failure"} =>
               /\ j < next_job[e]
               /\ \A i \in Tracked(e) : j < i
               /\ \A i \in DOMAIN device[e] : device[e][i].job > j
      BY DEF IInv, ResultsOK, JobsTracked, Tracked
    <2>2. MaxJobs[e] \in Nat
      BY OffloadAssumption DEF Directions
    <2>3. CASE e # d
      BY <1>5, <1>10, <1>13, <2>1, <2>3
    <2>4. CASE e = d
      BY <1>1, <1>7, <1>8, <1>13, <2>1, <2>2, <2>4
    <2> QED
      BY <2>3, <2>4
  <1>16. OutcomesOK'
    <2> SUFFICES ASSUME NEW e \in Directions
                 PROVE  /\ next_job'[e] >= 1
                        /\ \A i \in DOMAIN transfers'[e] :
                             /\ transfers'[e][i].job \in 1..MaxJobs[e]
                             /\ results'[e][transfers'[e][i].job]
                                  = IF transfers'[e][i].ok THEN "accepted" ELSE "raised"
      BY DEF OutcomesOK, Directions
    <2>1. next_job'[e] >= 1
      BY <1>4 DEF IInv, OutcomesOK
    <2>2. ASSUME NEW i \in DOMAIN transfers[e]
          PROVE  /\ transfers[e][i].job \in 1..MaxJobs[e]
                 /\ results'[e][transfers[e][i].job]
                      = IF transfers[e][i].ok THEN "accepted" ELSE "raised"
      <3>1. /\ transfers[e][i].job \in 1..MaxJobs[e]
            /\ results[e][transfers[e][i].job] = IF transfers[e][i].ok THEN "accepted" ELSE "raised"
        BY DEF IInv, OutcomesOK
      <3>2. transfers[e][i].job < next_job[e]
        BY DEF IInv, InOrder
      <3>3. transfers[e][i].job # next_job[e]
        <4>1. transfers[e][i].job \in Nat
          BY DEF IInv, QueuesOK
        <4> QED
          BY <1>4, <3>2, <4>1
      <3> QED
        BY <1>13, <3>1, <3>3
    <2>3. CASE e # d
      BY <1>5, <2>1, <2>2, <2>3
    <2>4. CASE e = d
      <3>1. x \in 1..MaxJobs[d]
        BY <1>1, OffloadAssumption DEF IInv, OutcomesOK, Directions
      <3>2. results'[d][x] = IF ok THEN "accepted" ELSE "raised"
        BY <1>1, <3>1, ZenonT(60) DEF IInv, ResultsOK
      <3>3. ASSUME NEW i \in DOMAIN transfers'[d]
            PROVE  /\ transfers'[d][i].job \in 1..MaxJobs[d]
                   /\ results'[d][transfers'[d][i].job]
                        = IF transfers'[d][i].ok THEN "accepted" ELSE "raised"
        <4>1. CASE i = Len(transfers[d]) + 1
          BY <1>1, <1>6, <3>1, <3>2, <4>1
        <4>2. CASE i # Len(transfers[d]) + 1
          <5>1. i \in DOMAIN transfers[d] /\ transfers'[d][i] = transfers[d][i]
            BY <1>6, <4>2
          <5> QED
            BY <2>2, <2>4, <5>1
        <4> QED
          BY <4>1, <4>2
      <3> QED
        BY <2>1, <2>4, <3>3
    <2> QED
      BY <2>3, <2>4
  <1>17. JobStep
    <2> SUFFICES ASSUME NEW e \in Directions, NEW j \in 1..MaxJobs[e],
                        results'[e][j] # results[e][j]
                 PROVE  results[e][j] = "none" /\ results'[e][j] \in {"accepted", "raised"}
      BY DEF JobStep
    <2>1. e = d /\ j = x /\ results'[e][j] \in {"accepted", "raised"}
      BY <1>13
    <2>2. ~(j < next_job[e])
      BY <1>4, <2>1
    <2> QED
      BY <2>1, <2>2 DEF IInv, ResultsOK
  <1> QED
    BY <1>11, <1>12, <1>14, <1>15, <1>16, <1>17 DEF IInv

\* A deque without its first m transfers.
Rest(d, m) == SubSeq(transfers[d], m + 1, Len(transfers[d]))

\* Taking the first m transfers off a deque, all of them complete: the rest is
\* younger than them, in the deque and on the device.
LEMMA PrefixLeaves ==
  ASSUME IInv, NEW d \in Directions, NEW m \in 0..Len(transfers[d]),
         \A i \in 1..m : Complete(d, transfers[d][i])
  PROVE  /\ \E S : Rest(d, m) \in Seq(S)
         /\ DOMAIN Rest(d, m) = 1..(Len(transfers[d]) - m)
         /\ \A i \in DOMAIN Rest(d, m) : m + i \in DOMAIN transfers[d] /\ Rest(d, m)[i] = transfers[d][m + i]
         /\ \A i \in 1..m, k \in DOMAIN Rest(d, m) : transfers[d][i].job < Rest(d, m)[k].job
         /\ \A i \in DOMAIN device[d] : \E k \in DOMAIN Rest(d, m) : Rest(d, m)[k].job = device[d][i].job
  <1> DEFINE rest == Rest(d, m)
  <1>1. PICK S : transfers[d] \in Seq(S)
    BY DEF IInv, QueuesOK
  <1>2. Len(transfers[d]) \in Nat /\ DOMAIN transfers[d] = 1..Len(transfers[d])
    BY <1>1
  <1>3. \A i \in (m + 1)..Len(transfers[d]) : transfers[d][i] \in S
    BY <1>1, <1>2
  <1>4. /\ rest \in Seq(S)
        /\ Len(rest) = IF m + 1 <= Len(transfers[d]) THEN Len(transfers[d]) - (m + 1) + 1 ELSE 0
        /\ \A i \in 1..(Len(transfers[d]) - (m + 1) + 1) : rest[i] = transfers[d][(m + 1) + i - 1]
    BY <1>2, <1>3, SubSeqProperties DEF Rest
  <1> HIDE DEF rest
  <1>5. DOMAIN rest = 1..(Len(transfers[d]) - m)
    BY <1>2, <1>4
  <1>6. \A i \in DOMAIN rest : m + i \in DOMAIN transfers[d] /\ rest[i] = transfers[d][m + i]
    BY <1>2, <1>4, <1>5
  <1>7. \A i \in 1..m, k \in DOMAIN rest : transfers[d][i].job < rest[k].job
    <2> SUFFICES ASSUME NEW i \in 1..m, NEW k \in DOMAIN rest
                 PROVE  transfers[d][i].job < rest[k].job
      OBVIOUS
    <2>1. i \in DOMAIN transfers[d] /\ m + k \in DOMAIN transfers[d] /\ i < m + k
      BY <1>2, <1>5, <1>6
    <2> QED
      BY <1>6, <2>1 DEF IInv, InOrder
  <1>8. ASSUME NEW i \in DOMAIN device[d]
        PROVE  \E k \in DOMAIN rest : rest[k].job = device[d][i].job
    <2>0. device[d][i].job \in Tracked(d)
      <3>1. device[d][i].job \in Running(d)
        BY ZenonT(60) DEF Running
      <3>2. Running(d) \subseteq Tracked(d)
        BY ZenonT(60) DEF IInv, InOrder
      <3> QED
        BY <3>1, <3>2, ZenonT(60)
    <2>1. PICK p \in DOMAIN transfers[d] : transfers[d][p].job = device[d][i].job
      BY <2>0, ZenonT(60) DEF Tracked
    <2>2. p \notin 1..m
      BY <2>1 DEF Complete
    <2>3. p - m \in DOMAIN rest
      BY <1>2, <1>5, <2>1, <2>2
    <2>4. m + (p - m) = p
      BY <1>2
    <2> QED
      BY <1>6, <2>1, <2>3, <2>4
  <1> QED
    BY <1>4, <1>5, <1>6, <1>7, <1>8, ZenonT(60) DEF rest

\* A step that takes the completed prefix of length m[d] off each deque, and
\* gives the jobs of the prefixes, and no others, a final result.
TakesPrefixes(m) ==
  /\ UNCHANGED <<device, next_job>>
  /\ \A d \in Directions : m[d] \in 0..Len(transfers[d])
  /\ transfers' = [d \in Directions |-> transfers'[d]]
  /\ \A d \in Directions : transfers'[d] = Rest(d, m[d])
  /\ \A d \in Directions : \A i \in 1..m[d] : Complete(d, transfers[d][i])
  /\ results' = [d \in Directions |-> results'[d]]
  /\ \A d \in Directions : results'[d] = [j \in 1..MaxJobs[d] |-> results'[d][j]]
  /\ \A d \in Directions : \A j \in 1..MaxJobs[d] :
       IF \E i \in 1..m[d] : transfers[d][i].job = j
         THEN results'[d][j] \in {"success", "failure", "dropped"}
         ELSE results'[d][j] = results[d][j]
  /\ \A d \in Directions : \A i \in 1..m[d] :
       results'[d][transfers[d][i].job]
         \in {IF transfers[d][i].ok THEN "success" ELSE "failure", "dropped"}

\* Deques that lose complete prefixes, whose jobs are reported or dropped.
LEMMA PrefixesLeave ==
  ASSUME IInv, NEW m, TakesPrefixes(m)
  PROVE  IInv' /\ JobStep
  <1> USE DEF TakesPrefixes
  <1>1. ASSUME NEW d \in Directions
        PROVE  /\ \E S : transfers'[d] \in Seq(S)
               /\ \A i \in DOMAIN transfers'[d] :
                    /\ i \in Nat
                    /\ m[d] + i \in DOMAIN transfers[d]
                    /\ transfers'[d][i] = transfers[d][m[d] + i]
               /\ \A i \in 1..m[d], k \in DOMAIN transfers'[d] :
                    transfers[d][i].job < transfers'[d][k].job
               /\ Running(d)' \subseteq Tracked(d)'
               /\ Tracked(d)' \subseteq Tracked(d)
               /\ \A i \in DOMAIN transfers[d] :
                    i \in 1..m[d] \/ transfers[d][i].job \in Tracked(d)'
    <2> DEFINE rest == transfers'[d]
               n == m[d]
    <2>1. n \in 0..Len(transfers[d]) /\ rest = Rest(d, n)
      OBVIOUS
    <2>2. \A i \in 1..n : Complete(d, transfers[d][i])
      OBVIOUS
    <2>3. \E S : transfers[d] \in Seq(S)
      BY DEF IInv, QueuesOK
    <2>4. Len(transfers[d]) \in Nat /\ DOMAIN transfers[d] = 1..Len(transfers[d])
      BY <2>3
    <2> HIDE DEF rest, n
    <2>a. /\ \E S : Rest(d, n) \in Seq(S)
          /\ DOMAIN Rest(d, n) = 1..(Len(transfers[d]) - n)
          /\ \A i \in DOMAIN Rest(d, n) :
               n + i \in DOMAIN transfers[d] /\ Rest(d, n)[i] = transfers[d][n + i]
          /\ \A i \in 1..n, k \in DOMAIN Rest(d, n) : transfers[d][i].job < Rest(d, n)[k].job
          /\ \A i \in DOMAIN device[d] :
               \E k \in DOMAIN Rest(d, n) : Rest(d, n)[k].job = device[d][i].job
      BY <2>1, <2>2, PrefixLeaves, ZenonT(60)
    <2>5. /\ DOMAIN rest = 1..(Len(transfers[d]) - n)
          /\ \A i \in DOMAIN rest : n + i \in DOMAIN transfers[d] /\ rest[i] = transfers[d][n + i]
          /\ \A i \in 1..n, k \in DOMAIN rest : transfers[d][i].job < rest[k].job
          /\ \A i \in DOMAIN device[d] : \E k \in DOMAIN rest : rest[k].job = device[d][i].job
      BY <2>1, <2>a
    <2>b. \E S : rest \in Seq(S)
      BY <2>1, <2>a
    <2>6. Running(d)' \subseteq Tracked(d)'
      BY <2>5 DEF Running, Tracked, rest
    <2>7. Tracked(d)' \subseteq Tracked(d)
      BY <2>5 DEF Tracked, rest
    <2>8. ASSUME NEW i \in DOMAIN transfers[d], i \notin 1..n
          PROVE  transfers[d][i].job \in Tracked(d)'
      <3>1. i - n \in DOMAIN rest /\ n + (i - n) = i
        BY <2>1, <2>4, <2>5, <2>8
      <3>2. rest[i - n] = transfers[d][i]
        BY <2>5, <3>1
      <3> QED
        BY <3>1, <3>2 DEF Tracked, rest
    <2>9. \A i \in DOMAIN rest : i \in Nat
      BY <2>5
    <2>c. /\ \A i \in DOMAIN transfers'[d] :
               /\ i \in Nat
               /\ m[d] + i \in DOMAIN transfers[d]
               /\ transfers'[d][i] = transfers[d][m[d] + i]
          /\ \A i \in 1..m[d], k \in DOMAIN transfers'[d] :
               transfers[d][i].job < transfers'[d][k].job
      BY <2>5, <2>9 DEF rest, n
    <2>d. \A i \in DOMAIN transfers[d] : i \in 1..m[d] \/ transfers[d][i].job \in Tracked(d)'
      BY <2>8 DEF n
    <2>e. \E S : transfers'[d] \in Seq(S)
      BY <2>b DEF rest
    <2> QED
      BY <2>c, <2>d, <2>e, <2>6, <2>7
  <1>2. QueuesOK'
    <2>1. ASSUME NEW d \in Directions, NEW i \in DOMAIN transfers'[d]
          PROVE  transfers'[d][i].job \in Nat
      <3>1. m[d] + i \in DOMAIN transfers[d] /\ transfers'[d][i] = transfers[d][m[d] + i]
        BY <1>1
      <3> QED
        BY <3>1 DEF IInv, QueuesOK
    <2>2. \A d \in Directions : (\E S : transfers'[d] \in Seq(S)) /\ (\E S : device'[d] \in Seq(S))
      BY <1>1 DEF IInv, QueuesOK
    <2> QED
      BY <2>1, <2>2 DEF IInv, QueuesOK, Directions
  <1>3. InOrder'
    <2>1. ASSUME NEW d \in Directions, NEW i \in DOMAIN transfers'[d], NEW k \in DOMAIN transfers'[d],
                 i < k
          PROVE  transfers'[d][i].job < transfers'[d][k].job
      <3>1. m[d] + i < m[d] + k
        BY <1>1, <2>1
      <3> QED
        BY <1>1, <2>1, <3>1 DEF IInv, InOrder
    <2>2. ASSUME NEW d \in Directions, NEW i \in DOMAIN transfers'[d]
          PROVE  transfers'[d][i].job < next_job'[d]
      BY <1>1, <2>2 DEF IInv, InOrder
    <2> QED
      BY <1>1, <2>1, <2>2, ZenonT(60) DEF InOrder, Directions
  <1>4. ASSUME NEW d \in Directions, NEW j \in 1..MaxJobs[d], NEW i \in 1..m[d],
               transfers[d][i].job = j
        PROVE  j < next_job[d]
    <2>1. \E S : transfers[d] \in Seq(S)
      BY DEF IInv, QueuesOK
    <2>2. i \in DOMAIN transfers[d]
      BY <2>1
    <2> QED
      BY <1>4, <2>2 DEF IInv, InOrder
  <1>5. ResultsOK'
    <2>1. ASSUME NEW d \in Directions, NEW j \in 1..MaxJobs[d], results'[d][j] # "none"
          PROVE  j < next_job'[d]
      BY <1>4, <2>1 DEF IInv, ResultsOK
    <2> QED
      BY <2>1 DEF ResultsOK, Directions
  <1>6. JobsTracked'
    <2> SUFFICES ASSUME NEW d \in Directions, NEW j \in 1..MaxJobs[d]
                 PROVE  /\ results'[d][j] = "accepted" => j \in Tracked(d)'
                        /\ results'[d][j] \in {"success", "failure"} =>
                             \A i \in Tracked(d)' : j < i
                        /\ results'[d][j] \in {"success", "failure"} =>
                             \A i \in DOMAIN device'[d] : device'[d][i].job > j
      BY DEF JobsTracked, Tracked, Directions
    <2>1. ASSUME results'[d][j] = "accepted"
          PROVE  j \in Tracked(d)'
      <3>1. results[d][j] = "accepted" /\ ~(\E i \in 1..m[d] : transfers[d][i].job = j)
        BY <2>1
      <3>2. PICK i \in DOMAIN transfers[d] : transfers[d][i].job = j
        BY <3>1 DEF IInv, JobsTracked
      <3> QED
        BY <1>1, <3>1, <3>2
    <2>2. ASSUME results'[d][j] \in {"success", "failure"}
          PROVE  \A i \in Tracked(d)' : j < i
      <3>1. CASE \E i \in 1..m[d] : transfers[d][i].job = j
        BY <1>1, <3>1 DEF Tracked
      <3>2. CASE ~(\E i \in 1..m[d] : transfers[d][i].job = j)
        <4>1. results[d][j] \in {"success", "failure"}
          BY <2>2, <3>2
        <4>2. \A i \in Tracked(d) : j < i
          BY <4>1 DEF IInv, JobsTracked, Tracked
        <4> QED
          BY <1>1, <4>2
      <3> QED
        BY <3>1, <3>2
    <2>3. ASSUME results'[d][j] \in {"success", "failure"}
          PROVE  \A i \in DOMAIN device'[d] : device'[d][i].job > j
      <3> SUFFICES ASSUME NEW i \in DOMAIN device'[d]
                   PROVE  device'[d][i].job > j
        OBVIOUS
      <3>1. device'[d][i].job \in Tracked(d)'
        BY <1>1 DEF Running
      <3>2. device'[d][i].job \in Nat
        <4>1. device'[d][i].job \in Tracked(d)
          BY <1>1, <3>1
        <4> QED
          BY <4>1 DEF Tracked, IInv, QueuesOK
      <3>3. j < device'[d][i].job
        BY <2>2, <2>3, <3>1
      <3>4. j \in Int
        OBVIOUS
      <3> QED
        BY <3>2, <3>3, <3>4
    <2> QED
      BY <2>1, <2>2, <2>3
  <1>7. ASSUME NEW d \in Directions, NEW i \in 1..m[d]
        PROVE  i \in DOMAIN transfers[d]
    <2>1. \E S : transfers[d] \in Seq(S)
      BY DEF IInv, QueuesOK
    <2> QED
      BY <2>1
  <1>8. OutcomesOK'
    <2>1. ASSUME NEW d \in Directions, NEW k \in DOMAIN transfers'[d]
          PROVE  /\ transfers'[d][k].job \in 1..MaxJobs[d]
                 /\ results'[d][transfers'[d][k].job]
                      = IF transfers'[d][k].ok THEN "accepted" ELSE "raised"
      <3>1. m[d] + k \in DOMAIN transfers[d] /\ transfers'[d][k] = transfers[d][m[d] + k]
        BY <1>1
      <3>2. /\ transfers'[d][k].job \in 1..MaxJobs[d]
            /\ results[d][transfers'[d][k].job]
                 = IF transfers'[d][k].ok THEN "accepted" ELSE "raised"
        BY <3>1 DEF IInv, OutcomesOK
      <3>3. \A i \in 1..m[d] : transfers[d][i].job < transfers'[d][k].job
        BY <1>1
      <3>4. \A i \in 1..m[d] : transfers[d][i].job # transfers'[d][k].job
        <4>1. \A i \in 1..m[d] : transfers[d][i].job \in Nat
          BY <1>7 DEF IInv, QueuesOK
        <4>2. transfers'[d][k].job \in Nat
          BY <1>2 DEF QueuesOK
        <4> QED
          BY <3>3, <4>1, <4>2
      <3>5. results'[d][transfers'[d][k].job] = results[d][transfers'[d][k].job]
        <4> DEFINE j == transfers'[d][k].job
        <4>1. j \in 1..MaxJobs[d] /\ ~(\E i \in 1..m[d] : transfers[d][i].job = j)
          BY <3>2, <3>4
        <4> HIDE DEF j
        <4>2. results'[d][j] = results[d][j]
          BY <4>1
        <4> QED
          BY <4>2 DEF j
      <3> QED
        BY <3>2, <3>5
    <2>2. \A d \in Directions : next_job'[d] >= 1
      BY DEF IInv, OutcomesOK
    <2> QED
      BY <2>1, <2>2, ZenonT(60) DEF OutcomesOK, Directions
  <1>9. JobStep
    <2> SUFFICES ASSUME NEW d \in Directions, NEW j \in 1..MaxJobs[d],
                        results'[d][j] # results[d][j]
                 PROVE  \/ results[d][j] = "accepted" /\ results'[d][j] \in {"success", "dropped"}
                        \/ results[d][j] = "raised" /\ results'[d][j] \in {"failure", "dropped"}
      BY DEF JobStep
    <2>1. PICK i \in 1..m[d] : transfers[d][i].job = j
      OBVIOUS
    <2>2. results[d][j] = IF transfers[d][i].ok THEN "accepted" ELSE "raised"
      BY <1>7, <2>1 DEF IInv, OutcomesOK
    <2>3. results'[d][j] \in {IF transfers[d][i].ok THEN "success" ELSE "failure", "dropped"}
      BY <2>1
    <2> QED
      BY <2>2, <2>3
  <1> QED
    BY <1>2, <1>3, <1>5, <1>6, <1>8, <1>9 DEF IInv

--------------------------------------------------------------------------------
\* get_finished reports the jobs of the prefixes it takes.
LEMMA GetFinishedKeeps ==
  ASSUME IInv, GetFinished
  PROVE  IInv' /\ JobStep
  <1> DEFINE m == [d \in Directions |-> Len(Finished(d))]
  <1>1. ASSUME NEW d \in Directions
        PROVE  /\ m[d] \in 0..Len(transfers[d])
               /\ DOMAIN Finished(d) = 1..m[d]
               /\ \A i \in 1..m[d] : Finished(d)[i] = transfers[d][i] /\ Complete(d, transfers[d][i])
    <2>1. PICK n \in 0..Len(transfers[d]) :
            /\ Len(Finished(d)) = n
            /\ \A i \in 1..n : Finished(d)[i] = transfers[d][i]
            /\ DOMAIN Finished(d) = 1..n
            /\ \A i \in 1..n : Complete(d, transfers[d][i])
      BY FinishedIsPrefix
    <2>2. m[d] = n
      BY <2>1
    <2> HIDE DEF m
    <2> QED
      BY <2>1, <2>2
  <1>2. transfers' = [d \in Directions |-> Rest(d, m[d])]
    BY DEF GetFinished, Rest
  <1>3. results' = [d \in Directions |-> [j \in 1..MaxJobs[d] |->
        IF \E i \in DOMAIN Finished(d) : Finished(d)[i].job = j
          THEN IF \E i \in DOMAIN Finished(d) : Finished(d)[i].job = j /\ Finished(d)[i].ok
                 THEN "success" ELSE "failure"
          ELSE results[d][j]]]
    BY DEF GetFinished
  <1>4. UNCHANGED <<device, next_job>>
    BY DEF GetFinished
  <1> HIDE DEF m
  <1>5. transfers' = [d \in Directions |-> transfers'[d]]
        /\ \A d \in Directions : transfers'[d] = Rest(d, m[d])
    BY <1>2
  <1>6. /\ results' = [d \in Directions |-> results'[d]]
        /\ \A d \in Directions : results'[d] = [j \in 1..MaxJobs[d] |-> results'[d][j]]
    BY <1>3
  <1>7. ASSUME NEW d \in Directions, NEW j \in 1..MaxJobs[d]
        PROVE  IF \E i \in 1..m[d] : transfers[d][i].job = j
                 THEN results'[d][j] \in {"success", "failure", "dropped"}
                 ELSE results'[d][j] = results[d][j]
    <2>1. (\E i \in DOMAIN Finished(d) : Finished(d)[i].job = j)
             <=> \E i \in 1..m[d] : transfers[d][i].job = j
      BY <1>1
    <2> QED
      BY <1>3, <2>1
  <1>8. /\ \A d \in Directions : m[d] \in 0..Len(transfers[d])
        /\ \A d \in Directions : \A i \in 1..m[d] : Complete(d, transfers[d][i])
    BY <1>1
  <1>10. ASSUME NEW d \in Directions, NEW i \in 1..m[d]
         PROVE  results'[d][transfers[d][i].job]
                  \in {IF transfers[d][i].ok THEN "success" ELSE "failure", "dropped"}
    <2> DEFINE j == transfers[d][i].job
    <2>0. PICK S : transfers[d] \in Seq(S)
      BY DEF IInv, QueuesOK
    <2>1. i \in DOMAIN transfers[d] /\ \A k \in 1..m[d] : k \in DOMAIN transfers[d]
      BY <1>1, <2>0
    <2>2. j \in 1..MaxJobs[d]
      BY <2>1 DEF IInv, OutcomesOK
    <2>3. \A k \in 1..m[d] : transfers[d][k].job = j => k = i
      <3> SUFFICES ASSUME NEW k \in 1..m[d], transfers[d][k].job = j, k # i PROVE FALSE
        OBVIOUS
      <3>1. k < i \/ i < k
        OBVIOUS
      <3>2. transfers[d][k].job < transfers[d][i].job \/ transfers[d][i].job < transfers[d][k].job
        BY <2>1, <3>1 DEF IInv, InOrder
      <3>3. j \in Nat
        BY <2>1 DEF IInv, QueuesOK
      <3> QED
        BY <3>2, <3>3
    <2>4. \E k \in DOMAIN Finished(d) : Finished(d)[k].job = j
      BY <1>1
    <2>5. (\E k \in DOMAIN Finished(d) : Finished(d)[k].job = j /\ Finished(d)[k].ok)
             <=> transfers[d][i].ok
      BY <1>1, <2>3
    <2> HIDE DEF j
    <2>6. results'[d][j] = IF transfers[d][i].ok THEN "success" ELSE "failure"
      BY <1>3, <2>2, <2>4, <2>5
    <2> QED
      BY <2>6 DEF j
  <1>9. TakesPrefixes(m)
    BY <1>4, <1>5, <1>6, <1>7, <1>8, <1>10 DEF TakesPrefixes
  <1> QED
    BY <1>9, PrefixesLeave

\* One turn of the drain loop drops the job at the head of a deque.
LEMMA DrainKeeps ==
  ASSUME IInv, NEW d \in Directions, Drain(d)
  PROVE  IInv' /\ JobStep
  <1> DEFINE m == [e \in Directions |-> IF e = d THEN 1 ELSE 0]
             t == Head(transfers[d])
  <1>1. /\ transfers[d] # << >> /\ Complete(d, t)
        /\ transfers' = [transfers EXCEPT ![d] = Tail(@)]
        /\ results' = [results EXCEPT ![d][t.job] = "dropped"]
        /\ UNCHANGED <<device, next_job>>
    BY DEF Drain
  <1>2. \A e \in Directions : \E S : transfers[e] \in Seq(S)
    BY DEF IInv, QueuesOK
  <1>3. \A e \in Directions : Len(transfers[e]) \in Nat /\ DOMAIN transfers[e] = 1..Len(transfers[e])
    BY <1>2
  <1>4. t = transfers[d][1] /\ 1 \in DOMAIN transfers[d]
    <2>1. PICK S : transfers[d] \in Seq(S)
      BY <1>2
    <2> QED
      BY <1>1, <2>1
  <1>5. \A e \in Directions : m[e] \in 0..Len(transfers[e])
    BY <1>3, <1>4
  <1>6. \A e \in Directions : \A i \in 1..m[e] : e = d /\ i = 1 /\ Complete(e, transfers[e][i])
    BY <1>1, <1>4
  <1>7. transfers' = [e \in Directions |-> transfers'[e]]
    BY <1>1, ZenonT(60) DEF IInv, QueuesOK
  <1>8. ASSUME NEW e \in Directions
        PROVE  transfers'[e] = Rest(e, m[e])
    <2>1. PICK S : transfers[e] \in Seq(S)
      BY <1>2
    <2>2. CASE e = d
      <3>1. transfers'[d] = Tail(transfers[d])
        BY <1>1 DEF IInv, QueuesOK
      <3>2. Tail(transfers[d]) = SubSeq(transfers[d], 2, Len(transfers[d]))
        BY <1>1, <2>1, <2>2, HeadTailProperties, TailIsSubSeq
      <3> QED
        BY <2>2, <3>1, <3>2 DEF Rest
    <2>3. CASE e # d
      <3>1. transfers'[e] = transfers[e]
        BY <1>1, <2>3 DEF IInv, QueuesOK
      <3>2. SubSeq(transfers[e], 1, Len(transfers[e])) = transfers[e]
        BY <2>1, SubSeqFull
      <3>3. m[e] + 1 = 1
        BY <2>3
      <3> QED
        BY <3>1, <3>2, <3>3, ZenonT(60) DEF Rest
    <2> QED
      BY <2>2, <2>3
  <1>9. /\ results' = [e \in Directions |-> results'[e]]
        /\ \A e \in Directions : results'[e] = [j \in 1..MaxJobs[e] |-> results'[e][j]]
    BY <1>1, ZenonT(60) DEF IInv, ResultsOK
  <1>10. ASSUME NEW e \in Directions, NEW j \in 1..MaxJobs[e]
         PROVE  IF \E i \in 1..m[e] : transfers[e][i].job = j
                  THEN results'[e][j] \in {"success", "failure", "dropped"}
                  ELSE results'[e][j] = results[e][j]
    <2>1. results'[e][j] = IF e = d /\ t.job = j THEN "dropped" ELSE results[e][j]
      BY <1>1, ZenonT(60) DEF IInv, ResultsOK
    <2>2. (\E i \in 1..m[e] : transfers[e][i].job = j) <=> e = d /\ t.job = j
      BY <1>4
    <2> QED
      BY <2>1, <2>2
  <1>13. ASSUME NEW e \in Directions, NEW i \in 1..m[e]
         PROVE  results'[e][transfers[e][i].job]
                  \in {IF transfers[e][i].ok THEN "success" ELSE "failure", "dropped"}
    <2>1. e = d /\ i = 1
      BY <1>6
    <2>2. t.job \in 1..MaxJobs[d]
      BY <1>4 DEF IInv, OutcomesOK
    <2>3. results'[d][t.job] = "dropped"
      BY <1>1, <2>2, ZenonT(60) DEF IInv, ResultsOK
    <2> QED
      BY <1>4, <2>1, <2>3
  <1> HIDE DEF m
  <1>11. \A e \in Directions : \A i \in 1..m[e] : Complete(e, transfers[e][i])
    BY <1>6
  <1>12. TakesPrefixes(m)
    BY <1>1, <1>5, <1>7, <1>8, <1>9, <1>10, <1>11, <1>13, ZenonT(60) DEF TakesPrefixes
  <1> QED
    BY <1>12, PrefixesLeave

\* The device finishes the oldest work of a direction: less of it is running.
LEMMA DeviceStepKeeps ==
  ASSUME IInv, NEW d \in Directions, DeviceStep(d)
  PROVE  IInv' /\ JobStep
  <1>1. /\ device[d] # << >> /\ device' = [device EXCEPT ![d] = Tail(@)]
        /\ UNCHANGED <<transfers, next_job, results>>
    BY DEF DeviceStep
  <1>2. ASSUME NEW e \in Directions
        PROVE  \E S : device'[e] \in Seq(S)
    <2>1. PICK S : device[e] \in Seq(S)
      BY DEF IInv, QueuesOK
    <2>2. device'[e] \in Seq(S)
      BY <1>1, <2>1, HeadTailProperties DEF IInv, QueuesOK
    <2> QED
      BY <2>2
  <1>3. ASSUME NEW e \in Directions, NEW i \in DOMAIN device'[e]
        PROVE  \E k \in DOMAIN device[e] : device'[e][i] = device[e][k]
    <2>1. CASE e # d
      BY <1>1, <2>1 DEF IInv, QueuesOK
    <2>2. CASE e = d
      <3>1. PICK S : device[d] \in Seq(S)
        BY DEF IInv, QueuesOK
      <3>2. device'[d] = Tail(device[d])
        BY <1>1 DEF IInv, QueuesOK
      <3>3. i + 1 \in DOMAIN device[d] /\ Tail(device[d])[i] = device[d][i + 1]
        <4>1. i \in DOMAIN Tail(device[d])
          BY <2>2, <3>2
        <4>2. /\ Len(Tail(device[d])) = Len(device[d]) - 1
              /\ \A x \in 1..Len(Tail(device[d])) : Tail(device[d])[x] = device[d][x + 1]
              /\ Tail(device[d]) \in Seq(S)
          BY <1>1, <3>1, HeadTailProperties
        <4> QED
          BY <3>1, <4>1, <4>2
      <3> QED
        BY <2>2, <3>2, <3>3
    <2> QED
      BY <2>1, <2>2
  <1>4. QueuesOK'
    <2>1. device' = [e \in Directions |-> device'[e]]
      BY <1>1, ZenonT(60) DEF IInv, QueuesOK
    <2> QED
      BY <1>1, <1>2, <2>1 DEF IInv, QueuesOK
  <1>5. InOrder'
    <2>1. \A e \in Directions : Tracked(e)' = Tracked(e) /\ Running(e)' \subseteq Running(e)
      BY <1>1, <1>3 DEF Tracked, Running
    <2> QED
      BY <1>1, <2>1 DEF IInv, InOrder
  <1>6. ResultsOK'
    BY <1>1 DEF IInv, ResultsOK
  <1>7. JobsTracked'
    BY <1>1, <1>3 DEF IInv, JobsTracked
  <1>8. OutcomesOK'
    BY <1>1 DEF IInv, OutcomesOK
  <1>9. JobStep
    BY <1>1, ZenonT(60) DEF JobStep
  <1> QED
    BY <1>4, <1>5, <1>6, <1>7, <1>8, <1>9 DEF IInv

--------------------------------------------------------------------------------
\* A new handler has no jobs.
LEMMA InitIInv ==
  ASSUME OffloadInit
  PROVE  IInv
  <1>1. \A d \in Directions : /\ transfers[d] = << >> /\ device[d] = << >>
                              /\ next_job[d] = 1
                              /\ results[d] = [j \in 1..MaxJobs[d] |-> "none"]
    BY DEF OffloadInit
  <1>2. QueuesOK
    <2>1. \A d \in Directions : (\E S : transfers[d] \in Seq(S)) /\ (\E S : device[d] \in Seq(S))
      <3>1. << >> \in Seq({})
        OBVIOUS
      <3> QED
        BY <1>1, <3>1, ZenonT(60)
    <2> QED
      BY <1>1, <2>1 DEF OffloadInit, QueuesOK
  <1>0. \A d \in Directions : DOMAIN transfers[d] = {} /\ DOMAIN device[d] = {}
    <2>1. DOMAIN << >> = {}
      <3>1. << >> \in Seq({}) /\ Len(<< >>) = 0
        OBVIOUS
      <3> QED
        BY <3>1, LenProperties
    <2> QED
      BY <1>1, <2>1, ZenonT(60)
  <1>3. InOrder
    <2>1. \A d \in Directions : Running(d) = {}
      BY <1>0, ZenonT(60) DEF Running
    <2> QED
      BY <1>0, <2>1 DEF InOrder
  <1>4. ResultsOK
    BY <1>1 DEF OffloadInit, ResultsOK
  <1>5. JobsTracked
    BY <1>1, ZenonT(60) DEF JobsTracked
  <1>6. OutcomesOK
    <2>1. 1 >= 1
      OBVIOUS
    <2>2. \A d \in Directions : next_job[d] >= 1
      BY <1>1, <2>1, ZenonT(60)
    <2> QED
      BY <1>0, <2>2, ZenonT(60) DEF OutcomesOK
  <1> QED
    BY <1>2, <1>3, <1>4, <1>5, <1>6 DEF IInv

\* Every step of the handler, of the device and of other code keeps IInv.
LEMMA NextIInv ==
  ASSUME IInv, [OffloadNext]_<<vars, handlerVars>>
  PROVE  IInv' /\ JobStep
  <1>1. ASSUME NEW d \in Directions, NEW n \in Sizes, Submit(d, n)
        PROVE  IInv' /\ JobStep
    <2>1. ASSUME NEW k \in 0..Len(Pools), NEW ok \in BOOLEAN, NEW sync \in BOOLEAN,
                 SubmitTracked(d, n, k, ok, sync)
          PROVE  IInv' /\ JobStep
      BY <2>1, JobTracked
    <2>2. ASSUME NEW idle \in BOOLEAN, SubmitUndone(d, n, idle)
          PROVE  IInv' /\ JobStep
      <3>1. /\ next_job[d] <= MaxJobs[d] /\ next_job' = [next_job EXCEPT ![d] = @ + 1]
            /\ transfers' = transfers
            /\ device' = device \/ device' = [device EXCEPT ![d] = << >>]
            /\ results' = [results EXCEPT ![d][next_job[d]] = "raised"]
        BY <2>2 DEF SubmitUndone, Submitting, Transfer
      <3> QED
        BY <3>1, JobRaises, ZenonT(60)
    <2>3. CASE SubmitRejected(d, n)
      <3>1. /\ next_job[d] <= MaxJobs[d] /\ next_job' = [next_job EXCEPT ![d] = @ + 1]
            /\ transfers' = transfers /\ device' = device
            /\ results' = [results EXCEPT ![d][next_job[d]] = "raised"]
        BY <2>3 DEF SubmitRejected, Submitting
      <3> QED
        BY <3>1, JobRaises, ZenonT(60)
    <2> QED
      BY <1>1, <2>1, <2>2, <2>3 DEF Submit
  <1>2. CASE GetFinished
    BY <1>2, GetFinishedKeeps
  <1>3. ASSUME NEW d \in Directions, Drain(d) \/ DeviceStep(d)
        PROVE  IInv' /\ JobStep
    BY <1>3, DrainKeeps, DeviceStepKeeps
  <1>4. CASE AllocatePools \/ RegisterNext \/ RegisterRaises
    BY <1>4, JobsUnchanged, ZenonT(60) DEF AllocatePools, RegisterNext, RegisterRaises, handlerVars
  <1>5. CASE StartShutdown \/ DrainRaises \/ StartClose
    BY <1>5, JobsUnchanged, ZenonT(60) DEF StartShutdown, DrainRaises, StartClose
  <1>6. CASE CloseFence \/ CloseReleases \/ CloseRaises \/ CloseEnds
    <2>1. UNCHANGED <<transfers, device, results, next_job>>
      BY <1>6 DEF CloseFence, CloseReleases, CloseRaises, CloseEnds, CloseUnchanged, handlerVars
    <2> QED
      BY <2>1, JobsUnchanged
  <1>7. ASSUME NEW s \in Storages, Reallocate(s)
        PROVE  IInv' /\ JobStep
    BY <1>7, JobsUnchanged DEF Reallocate, handlerVars
  <1>8. CASE UNCHANGED <<vars, handlerVars>>
    BY <1>8, JobsUnchanged DEF handlerVars
  <1> QED
    BY <1>1, <1>2, <1>3, <1>4, <1>5, <1>6, <1>7, <1>8 DEF OffloadNext

\* Every job that submit_store or submit_load accepted is tracked until
\* get_finished reports it or shutdown drops it, reports come in submission
\* order and never before the device is done, and a job is reported once, as a
\* success only if its submission returned True: for any number of jobs and pools
\* and every failure of the runtime calls.
THEOREM JobsStayAccountedFor == OffloadSpec => JobsAreAccountedFor
  <1>1. OffloadInit => IInv
    BY InitIInv
  <1>2. IInv /\ [OffloadNext]_<<vars, handlerVars>> => IInv' /\ [JobStep]_<<vars, handlerVars>>
    BY NextIInv
  <1>3. IInv => JobsTracked
    BY DEF IInv
  <1> QED
    BY <1>1, <1>2, <1>3, PTL DEF OffloadSpec, JobsAreAccountedFor

--------------------------------------------------------------------------------
(* Lists of any members.                                                        *)

IsSeq(s) == \E S : s \in Seq(S)

\* The length and the domain of a list.
LEMMA SeqIs ==
  ASSUME NEW s, IsSeq(s)
  PROVE  Len(s) \in Nat /\ DOMAIN s = 1..Len(s) /\ (s # << >> => Len(s) # 0)
  <1>1. PICK S : s \in Seq(S)
    BY DEF IsSeq
  <1> QED
    BY <1>1, EmptySeq

\* What a list holds after an append.
LEMMA AppendIs ==
  ASSUME NEW s, IsSeq(s), NEW e
  PROVE  /\ IsSeq(Append(s, e)) /\ Len(Append(s, e)) = Len(s) + 1
         /\ \A i \in 1..Len(s) : Append(s, e)[i] = s[i]
         /\ Append(s, e)[Len(s) + 1] = e
  <1>1. PICK S : s \in Seq(S)
    BY DEF IsSeq
  <1>2. s \in Seq(S \cup {e})
    BY <1>1
  <1>3. e \in S \cup {e}
    OBVIOUS
  <1> QED
    BY <1>2, <1>3, AppendProperties DEF IsSeq

\* q is s with one more element, position by position.
Appended(s, e, q) ==
  /\ DOMAIN q = 1..(Len(s) + 1) /\ DOMAIN s = 1..Len(s) /\ Len(s) \in Nat
  /\ \A i \in 1..Len(s) : i \in 1..(Len(s) + 1) /\ q[i] = s[i]
  /\ Len(s) + 1 \in 1..(Len(s) + 1) /\ q[Len(s) + 1] = e
  /\ \A i \in 1..(Len(s) + 1) : i \in 1..Len(s) \/ i = Len(s) + 1

\* Append does that.
LEMMA AppendDomain == ASSUME NEW s, IsSeq(s), NEW e PROVE Appended(s, e, Append(s, e))
  BY AppendIs, SeqIs DEF Appended

\* A list of one.
LEMMA SingleIs ==
  ASSUME NEW t
  PROVE  Len(<<t>>) = 1 /\ <<t>>[1] = t /\ \A j \in 1..Len(<<t>>) : j = 1
  OBVIOUS

\* The empty list has no positions.
LEMMA EmptyDomain == DOMAIN << >> = {}
  OBVIOUS

\* Counts up to a count.
LEMMA UpTo == \A m \in Nat : \A n \in 0..m : n \in Nat
  OBVIOUS

\* What a stretch of a list holds.
LEMMA PartIs ==
  ASSUME NEW s, IsSeq(s), NEW m \in 1..(Len(s) + 1), NEW n \in (m - 1)..Len(s)
  PROVE  /\ IsSeq(SubSeq(s, m, n)) /\ Len(SubSeq(s, m, n)) = n - m + 1
         /\ \A i \in 1..(n - m + 1) : SubSeq(s, m, n)[i] = s[m + i - 1]
  <1>1. PICK S : s \in Seq(S)
    BY DEF IsSeq
  <1>2. Len(s) \in Nat /\ m \in Int /\ n \in Int /\ m - 1 <= n
    BY <1>1
  <1>3. \A i \in m..n : s[i] \in S
    BY <1>1, <1>2, ElementOfSeq
  <1>4. /\ SubSeq(s, m, n) \in Seq(S)
        /\ Len(SubSeq(s, m, n)) = IF m <= n THEN n - m + 1 ELSE 0
        /\ \A i \in 1..n-m+1 : SubSeq(s, m, n)[i] = s[m + i - 1]
    BY <1>2, <1>3, SubSeqProperties
  <1> QED
    BY <1>2, <1>4 DEF IsSeq

\* What the concatenation of two lists holds.
LEMMA ConcatIs ==
  ASSUME NEW s, NEW t, IsSeq(s), IsSeq(t)
  PROVE  /\ IsSeq(s \o t) /\ Len(s \o t) = Len(s) + Len(t)
         /\ \A i \in 1..(Len(s) + Len(t)) : (s \o t)[i] = IF i <= Len(s) THEN s[i] ELSE t[i - Len(s)]
  <1>1. PICK S : s \in Seq(S)
    BY DEF IsSeq
  <1>2. PICK T : t \in Seq(T)
    BY DEF IsSeq
  <1>3. s \in Seq(S \cup T) /\ t \in Seq(S \cup T)
    BY <1>1, <1>2
  <1> QED
    BY <1>3, ConcatProperties DEF IsSeq

\* A list without its last entry.
LEMMA FrontIs ==
  ASSUME NEW s, IsSeq(s), s # << >>
  PROVE  /\ IsSeq(Front(s)) /\ Len(Front(s)) = Len(s) - 1 /\ Len(s) \in Nat \ {0}
         /\ \A i \in 1..(Len(s) - 1) : Front(s)[i] = s[i]
         /\ Last(s) = s[Len(s)]
  <1>1. Len(s) \in Nat \ {0}
    BY SeqIs
  <1>2. 1 \in 1..(Len(s) + 1) /\ Len(s) - 1 \in (1 - 1)..Len(s)
    BY <1>1
  <1>3. /\ IsSeq(Front(s)) /\ Len(Front(s)) = (Len(s) - 1) - 1 + 1
        /\ \A i \in 1..((Len(s) - 1) - 1 + 1) : Front(s)[i] = s[1 + i - 1]
    BY <1>2, PartIs, ZenonT(60) DEF Front
  <1>4. (Len(s) - 1) - 1 + 1 = Len(s) - 1 /\ \A i \in 1..(Len(s) - 1) : 1 + i - 1 = i
    BY <1>1
  <1> QED
    BY <1>1, <1>3, <1>4 DEF Last

\* A list without one of its entries.
LEMMA RemoveIs ==
  ASSUME NEW s, IsSeq(s), NEW k \in 1..Len(s)
  PROVE  /\ IsSeq(RemoveAt(s, k)) /\ Len(RemoveAt(s, k)) = Len(s) - 1
         /\ \A i \in 1..(Len(s) - 1) : RemoveAt(s, k)[i] = IF i < k THEN s[i] ELSE s[i + 1]
  <1> DEFINE a == SubSeq(s, 1, k - 1)
             b == SubSeq(s, k + 1, Len(s))
             n == Len(s)
  <1>1. n \in Nat
    BY SeqIs
  <1>2. IsSeq(a) /\ Len(a) = k - 1 /\ \A i \in 1..(k - 1) : a[i] = s[i]
    <2>1. 1 \in 1..(Len(s) + 1) /\ k - 1 \in (1 - 1)..Len(s)
      BY <1>1
    <2>2. /\ IsSeq(a) /\ Len(a) = (k - 1) - 1 + 1
          /\ \A i \in 1..((k - 1) - 1 + 1) : a[i] = s[1 + i - 1]
      BY <2>1, PartIs
    <2>3. (k - 1) - 1 + 1 = k - 1 /\ \A i \in 1..(k - 1) : 1 + i - 1 = i
      BY <1>1
    <2> HIDE DEF a
    <2> QED
      BY <2>2, <2>3
  <1>3. IsSeq(b) /\ Len(b) = n - k /\ \A i \in 1..(n - k) : b[i] = s[k + i]
    <2>1. k + 1 \in 1..(Len(s) + 1) /\ Len(s) \in ((k + 1) - 1)..Len(s)
      BY <1>1
    <2>2. /\ IsSeq(b) /\ Len(b) = Len(s) - (k + 1) + 1
          /\ \A i \in 1..(Len(s) - (k + 1) + 1) : b[i] = s[(k + 1) + i - 1]
      BY <2>1, PartIs
    <2>3. Len(s) - (k + 1) + 1 = n - k /\ \A i \in 1..(n - k) : (k + 1) + i - 1 = k + i
      BY <1>1
    <2> HIDE DEF b
    <2> QED
      BY <2>2, <2>3
  <1>4. RemoveAt(s, k) = a \o b
    BY DEF RemoveAt
  <1> HIDE DEF a, b
  <1>5. /\ IsSeq(a \o b) /\ Len(a \o b) = Len(a) + Len(b)
        /\ \A i \in 1..(Len(a) + Len(b)) : (a \o b)[i] = IF i <= Len(a) THEN a[i] ELSE b[i - Len(a)]
    BY <1>2, <1>3, ConcatIs, ZenonT(60)
  <1>6. Len(a) + Len(b) = n - 1
    BY <1>1, <1>2, <1>3
  <1>7. ASSUME NEW i \in 1..(n - 1)
        PROVE  (a \o b)[i] = IF i < k THEN s[i] ELSE s[i + 1]
    <2>1. (a \o b)[i] = IF i <= Len(a) THEN a[i] ELSE b[i - Len(a)]
      BY <1>5, <1>6
    <2>2. CASE i < k
      BY <1>1, <1>2, <2>1, <2>2
    <2>3. CASE ~(i < k)
      <3>1. i - Len(a) \in 1..(n - k) /\ k + (i - Len(a)) = i + 1 /\ ~(i <= Len(a))
        BY <1>1, <1>2, <2>3
      <3> QED
        BY <1>3, <2>1, <2>3, <3>1, ZenonT(60)
    <2> QED
      BY <2>2, <2>3, ZenonT(60)
  <1> QED
    BY <1>4, <1>5, <1>6, <1>7

--------------------------------------------------------------------------------
(* The streams, events and buffers of the submissions.                          *)

\* The lanes of the transfers ts and of the pool are all different ones.
LanesApart(ts, lanes) ==
  /\ \A i, k \in 1..Len(lanes) : i # k => lanes[i] # lanes[k]
  /\ \A i, k \in 1..Len(ts) : i # k => ts[i].lane # ts[k].lane
  /\ \A i \in 1..Len(ts), k \in 1..Len(lanes) : ts[i].lane # lanes[k]

\* A buffer is none, or has a number of its own.
IsBuffer(b) == (b = NoBuffer \/ b.id # 0) /\ b.capacity \in Nat

\* ... and so are their buffers.
BuffersApart(ts, bufs) ==
  /\ \A k \in 1..Len(bufs) : bufs[k].id # 0 /\ bufs[k].capacity \in Nat
  /\ \A i, k \in 1..Len(bufs) : i # k => bufs[i].id # bufs[k].id
  /\ \A i \in 1..Len(ts) : IsBuffer(ts[i].buffer)
  /\ \A i, k \in 1..Len(ts) : i # k =>
       ts[i].buffer.id # ts[k].buffer.id \/ ts[i].buffer = NoBuffer
  /\ \A i \in 1..Len(ts), k \in 1..Len(bufs) : ts[i].buffer.id # bufs[k].id

\* The tracked transfer of a piece of work on the device.
Serves(t, w) == t.job = w.job /\ t.lane = w.lane /\ t.buffer = w.buffer

\* One direction: its transfers, the work on the device and the two pools.
DirectionOK(ts, work, lanes, bufs) ==
  /\ IsSeq(lanes) /\ IsSeq(bufs)
  /\ LanesApart(ts, lanes) /\ BuffersApart(ts, bufs)
  /\ \A i \in DOMAIN work : \E k \in DOMAIN ts : Serves(ts[k], work[i])

ResourcesOK ==
  /\ lane_pool = [d \in Directions |-> lane_pool[d]]
  /\ buffer_pool = [d \in Directions |-> buffer_pool[d]]
  /\ \A d \in Directions : DirectionOK(transfers[d], device[d], lane_pool[d], buffer_pool[d])

\* A non-empty set of naturals has a least element.
LEMMA MinExists ==
  ASSUME NEW T \in SUBSET Nat, T # {}
  PROVE  Min(T) \in T /\ \A x \in T : Min(T) <= x
  <1> DEFINE R == {ss \in Nat \X Nat : ss[1] < ss[2]}
  <1>1. IsWellFoundedOn(R, Nat)
    BY NatLessThanWellFounded DEF OpToRel
  <1>2. PICK m \in T : \A n \in T : ~(<<n, m>> \in R)
    <2> HIDE DEF R
    <2> QED
      BY <1>1, WFMin, ZenonT(60)
  <1>3. \A n \in T : ~(n < m) /\ n \in Nat /\ m \in Nat
    BY <1>2, ZenonT(60)
  <1>4. \A n \in T : m <= n
    BY <1>3
  <1> QED
    BY <1>2, <1>4, ZenonT(60) DEF Min

\* A list names finitely many things.
LEMMA MembersFinite ==
  ASSUME NEW n \in Nat, NEW f
  PROVE  IsFiniteSet({f[i] : i \in 1..n})
  <1> DEFINE T == {f[i] : i \in 1..n}
             g == [i \in 1..n |-> f[i]]
  <1>1. g \in Surjection(1..n, T)
    BY DEF Surjection
  <1>2. IsFiniteSet(1..n)
    BY FS_Interval
  <1> HIDE DEF g, T
  <1> QED
    BY <1>1, <1>2, FS_Surjection DEF T

\* A new object is none of the reachable ones.
LEMMA FreshIsNew ==
  ASSUME NEW used, IsFiniteSet(used)
  PROVE  Fresh(used) \in Nat \ {0} /\ Fresh(used) \notin used
  <1> DEFINE c == Cardinality(used)
             T == {n \in 1..(c + 1) : n \notin used}
  <1>1. c \in Nat
    BY FS_CardinalityType
  <1>2. T # {}
    <2> SUFFICES ASSUME T = {} PROVE FALSE
      OBVIOUS
    <2>1. 1..(c + 1) \subseteq used
      OBVIOUS
    <2>2. Cardinality(1..(c + 1)) <= c
      BY <2>1, FS_Subset, ZenonT(60)
    <2>3. Cardinality(1..(c + 1)) = c + 1
      <3> HIDE DEF c
      <3> QED
        BY <1>1, FS_Interval
    <2> HIDE DEF c
    <2> QED
      BY <1>1, <2>2, <2>3
  <1>3. T \subseteq Nat \ {0}
    <2> HIDE DEF c
    <2> QED
      BY <1>1
  <1>4. Min(T) \in T
    <2> HIDE DEF T
    <2> QED
      BY <1>2, <1>3, MinExists
  <1>5. Fresh(used) = Min(T)
    BY DEF Fresh
  <1> QED
    BY <1>3, <1>4, <1>5

--------------------------------------------------------------------------------
(* What a submission takes, and what is given back.                             *)

LaneFree(ts, lanes, ln) ==
  (\A i \in 1..Len(ts) : ts[i].lane # ln) /\ \A k \in 1..Len(lanes) : lanes[k] # ln

BufferFree(ts, bufs, b) ==
  /\ IsBuffer(b)
  /\ b # NoBuffer =>
       (\A i \in 1..Len(ts) : ts[i].buffer.id # b.id) /\ \A k \in 1..Len(bufs) : bufs[k].id # b.id

\* The lane a submission acquires is no longer in the pool, and no transfer has it.
LEMMA LaneAcquired ==
  ASSUME QueuesOK, ResourcesOK, NEW d \in Directions
  PROVE  /\ IsSeq(LanesLeft(d)) /\ LanesApart(transfers[d], LanesLeft(d))
         /\ LaneFree(transfers[d], LanesLeft(d), AcquiredLane(d))
  <1> DEFINE ts == transfers[d]
             lanes == lane_pool[d]
  <1>1. IsSeq(ts) /\ IsSeq(lanes) /\ LanesApart(ts, lanes)
    BY ZenonT(60) DEF QueuesOK, ResourcesOK, DirectionOK, IsSeq
  <1>2. CASE lanes = << >>
    <2>1. LanesLeft(d) = << >> /\ Len(<< >>) = 0
      BY <1>2 DEF LanesLeft
    <2>2. AcquiredLane(d) = Fresh(LanesInUse(d))
      BY <1>2 DEF AcquiredLane
    <2>3. IsFiniteSet(LanesInUse(d))
      <3> DEFINE f == [i \in 1..Len(ts) |-> ts[i].lane]
      <3>1. ToSet(lanes) = {}
        BY <1>2 DEF ToSet
      <3>2. DOMAIN ts = 1..Len(ts) /\ Len(ts) \in Nat
        BY <1>1, SeqIs
      <3>3. LanesInUse(d) = {f[i] : i \in 1..Len(ts)}
        BY <3>1, <3>2, ZenonT(60) DEF LanesInUse
      <3> HIDE DEF f
      <3> QED
        BY <3>2, <3>3, MembersFinite, ZenonT(60)
    <2>4. AcquiredLane(d) \notin LanesInUse(d)
      BY <2>2, <2>3, FreshIsNew
    <2>5. \A i \in 1..Len(ts) : ts[i].lane \in LanesInUse(d)
      BY <1>1, SeqIs DEF LanesInUse
    <2>6. IsSeq(<< >>)
      <3>1. << >> \in Seq({})
        OBVIOUS
      <3> QED
        BY <3>1 DEF IsSeq
    <2> QED
      BY <1>1, <2>1, <2>4, <2>5, <2>6 DEF LanesApart, LaneFree
  <1>3. CASE lanes # << >>
    <2>1. LanesLeft(d) = Front(lanes) /\ AcquiredLane(d) = Last(lanes)
      BY <1>3 DEF LanesLeft, AcquiredLane
    <2>2. /\ IsSeq(Front(lanes)) /\ Len(Front(lanes)) = Len(lanes) - 1 /\ Len(lanes) \in Nat \ {0}
          /\ \A i \in 1..(Len(lanes) - 1) : Front(lanes)[i] = lanes[i]
          /\ Last(lanes) = lanes[Len(lanes)]
      BY <1>1, <1>3, FrontIs
    <2> HIDE DEF lanes, ts
    <2>3. LanesApart(ts, Front(lanes))
      BY <1>1, <2>2 DEF LanesApart
    <2>4. LaneFree(ts, Front(lanes), Last(lanes))
      <3>1. Len(lanes) \in 1..Len(lanes) /\ \A k \in 1..(Len(lanes) - 1) : k \in 1..Len(lanes) /\ k # Len(lanes)
        BY <2>2
      <3> QED
        BY <1>1, <2>2, <3>1 DEF LanesApart, LaneFree
    <2> QED
      BY <2>1, <2>2, <2>3, <2>4 DEF lanes, ts
  <1> QED
    BY <1>2, <1>3

\* The numbers of all buffers the handler can reach are finitely many.
LEMMA BuffersFinite ==
  ASSUME QueuesOK, ResourcesOK, NEW d \in Directions
  PROVE  /\ IsFiniteSet(BuffersInUse(d))
         /\ \A i \in 1..Len(transfers[d]) : transfers[d][i].buffer.id \in BuffersInUse(d)
         /\ \A i \in 1..Len(buffer_pool[d]) : buffer_pool[d][i].id \in BuffersInUse(d)
  <1> DEFINE ts == transfers[d]
             bufs == buffer_pool[d]
             f == [i \in 1..Len(ts) |-> ts[i].buffer.id]
             g == [i \in 1..Len(bufs) |-> bufs[i].id]
             F == {f[i] : i \in 1..Len(ts)}
             G == {g[i] : i \in 1..Len(bufs)}
  <1>1. IsSeq(ts) /\ IsSeq(bufs)
    BY DEF QueuesOK, ResourcesOK, DirectionOK, IsSeq
  <1>2. DOMAIN ts = 1..Len(ts) /\ Len(ts) \in Nat /\ DOMAIN bufs = 1..Len(bufs) /\ Len(bufs) \in Nat
    BY <1>1, SeqIs
  <1>3. BuffersInUse(d) = G \cup F
    BY <1>2, ZenonT(60) DEF BuffersInUse
  <1>4. IsFiniteSet(F) /\ IsFiniteSet(G)
    <2> HIDE DEF f, g
    <2> QED
      BY <1>2, MembersFinite, ZenonT(60)
  <1>5. (\A i \in 1..Len(ts) : ts[i].buffer.id \in F) /\ \A i \in 1..Len(bufs) : bufs[i].id \in G
    OBVIOUS
  <1> HIDE DEF F, G
  <1> QED
    BY <1>3, <1>4, <1>5, FS_Union, ZenonT(60)

\* A new buffer.
LEMMA NewBufferFree ==
  ASSUME QueuesOK, ResourcesOK, NEW d \in Directions, NEW c \in Nat, NEW bufs,
         \A k \in 1..Len(bufs) : \E i \in 1..Len(buffer_pool[d]) : bufs[k] = buffer_pool[d][i]
  PROVE  BufferFree(transfers[d], bufs, [id |-> Fresh(BuffersInUse(d)), capacity |-> c])
  <1> DEFINE b == [id |-> Fresh(BuffersInUse(d)), capacity |-> c]
  <1>1. b.id \in Nat \ {0} /\ b.id \notin BuffersInUse(d) /\ b.capacity \in Nat
    BY BuffersFinite, FreshIsNew
  <1>2. IsBuffer(b)
    BY <1>1 DEF IsBuffer
  <1>3. (\A i \in 1..Len(transfers[d]) : transfers[d][i].buffer.id # b.id)
    BY <1>1, BuffersFinite
  <1>4. \A k \in 1..Len(bufs) : bufs[k].id # b.id
    BY <1>1, BuffersFinite
  <1> HIDE DEF b
  <1>5. BufferFree(transfers[d], bufs, b)
    BY <1>2, <1>3, <1>4 DEF BufferFree
  <1> QED
    BY <1>5 DEF b

\* q has different members of bufs, at the places f.
Embeds(f, q, bufs) ==
  /\ \A i \in 1..Len(q) : f[i] \in 1..Len(bufs) /\ q[i] = bufs[f[i]]
  /\ \A i, j \in 1..Len(q) : i # j => f[i] # f[j]

\* A part of the pool is as good as the pool.
LEMMA PoolShrinks ==
  ASSUME NEW ts, NEW bufs, NEW q, NEW f, BuffersApart(ts, bufs), Embeds(f, q, bufs)
  PROVE  BuffersApart(ts, q)
  <1> USE DEF Embeds
  <1>1. \A k \in 1..Len(q) : q[k].id # 0 /\ q[k].capacity \in Nat
    BY DEF BuffersApart
  <1>2. \A i, k \in 1..Len(q) : i # k => q[i].id # q[k].id
    <2> SUFFICES ASSUME NEW i \in 1..Len(q), NEW k \in 1..Len(q), i # k
                 PROVE  q[i].id # q[k].id
      OBVIOUS
    <2>1. bufs[f[i]].id # bufs[f[k]].id
      BY DEF BuffersApart
    <2> QED
      BY <2>1
  <1>3. \A i \in 1..Len(ts), k \in 1..Len(q) : ts[i].buffer.id # q[k].id
    BY DEF BuffersApart
  <1> QED
    BY <1>1, <1>2, <1>3 DEF BuffersApart

\* What is left of a pool without its buffer b.
Removed(ts, bufs, left, b) ==
  /\ IsSeq(left) /\ BuffersApart(ts, left) /\ BufferFree(ts, left, b)
  /\ \A i \in 1..Len(left) : \E j \in 1..Len(bufs) : left[i] = bufs[j]

\* One buffer less in the pool.
LEMMA BufferRemoved ==
  ASSUME NEW ts, NEW bufs, IsSeq(bufs), BuffersApart(ts, bufs), NEW k \in 1..Len(bufs)
  PROVE  Removed(ts, bufs, RemoveAt(bufs, k), bufs[k])
  <1> DEFINE q == RemoveAt(bufs, k)
             src(i) == IF i < k THEN i ELSE i + 1
  <1>1. /\ IsSeq(q) /\ Len(q) = Len(bufs) - 1 /\ Len(bufs) \in Nat
        /\ \A i \in 1..(Len(bufs) - 1) : q[i] = IF i < k THEN bufs[i] ELSE bufs[i + 1]
    BY RemoveIs, SeqIs
  <1>2. \A i \in 1..Len(q) : src(i) \in 1..Len(bufs) /\ src(i) # k /\ q[i] = bufs[src(i)]
    <2> HIDE DEF q
    <2> QED
      BY <1>1
  <1>3. \A i, j \in 1..Len(q) : i # j => src(i) # src(j)
    <2> HIDE DEF q
    <2> QED
      BY <1>1
  <1> HIDE DEF q, src
  <1>4. BuffersApart(ts, q)
    <2> DEFINE f == [i \in 1..Len(q) |-> src(i)]
    <2>1. Embeds(f, q, bufs)
      BY <1>2, <1>3 DEF Embeds
    <2> HIDE DEF f
    <2> QED
      BY <2>1, PoolShrinks
  <1>5. BufferFree(ts, q, bufs[k])
    BY <1>2, ZenonT(60) DEF BuffersApart, BufferFree, IsBuffer
  <1>6. \A i \in 1..Len(q) : \E j \in 1..Len(bufs) : q[i] = bufs[j]
    BY <1>2
  <1> QED
    BY <1>1, <1>4, <1>5, <1>6 DEF q, Removed

\* ... the last one.
LEMMA LastBufferRemoved ==
  ASSUME NEW ts, NEW bufs, IsSeq(bufs), BuffersApart(ts, bufs), bufs # << >>
  PROVE  Removed(ts, bufs, Front(bufs), Last(bufs))
  <1> DEFINE q == Front(bufs)
             n == Len(bufs)
  <1>1. /\ IsSeq(q) /\ Len(q) = n - 1 /\ n \in Nat \ {0}
        /\ \A i \in 1..(n - 1) : q[i] = bufs[i]
        /\ Last(bufs) = bufs[n]
    BY FrontIs
  <1>2. n \in 1..Len(bufs) /\ \A i \in 1..Len(q) : i \in 1..Len(bufs) /\ i # n /\ q[i] = bufs[i]
    <2> HIDE DEF q
    <2> QED
      BY <1>1
  <1> HIDE DEF q, n
  <1>4. BuffersApart(ts, q)
    <2> DEFINE f == [i \in 1..Len(q) |-> i]
    <2>1. Embeds(f, q, bufs)
      BY <1>2 DEF Embeds
    <2> HIDE DEF f
    <2> QED
      BY <2>1, PoolShrinks
  <1>5. BufferFree(ts, q, bufs[n]) /\ bufs[n].capacity \in Nat
    BY <1>2 DEF BuffersApart, BufferFree, IsBuffer
  <1>6. \A i \in 1..Len(q) : \E j \in 1..Len(bufs) : q[i] = bufs[j]
    BY <1>2
  <1> QED
    BY <1>1, <1>4, <1>5, <1>6 DEF q, Removed

\* The capacity of a new set of id buffers is a number.
LEMMA IdCapacityIs ==
  ASSUME NEW n \in Nat
  PROVE  IdCapacity(n) \in Nat
  <1> DEFINE T == {MAX_CACHED_IDS} \cup {2^k : k \in {e \in 0..n : 2^e >= n}}
  <1>1. ASSUME NEW k \in Nat PROVE 2^k \in Nat
    <2>1. IsFiniteSet(1..k) /\ Cardinality(1..k) = k
      BY FS_Interval
    <2>2. IsFiniteSet(SUBSET (1..k)) /\ Cardinality(SUBSET (1..k)) = 2^k
      BY <2>1, FS_SUBSET, ZenonT(60)
    <2> QED
      BY <2>2, FS_CardinalityType
  <1>2. T \subseteq Nat /\ T # {}
    <2>1. \A k \in 0..n : 2^k \in Nat
      BY <1>1
    <2>2. MAX_CACHED_IDS \in Nat
      BY OffloadAssumption
    <2> QED
      BY <2>1, <2>2
  <1>3. Min(T) \in Nat
    <2> HIDE DEF T
    <2> QED
      BY <1>2, MinExists, ZenonT(60)
  <1>4. IdCapacity(n) = IF n > MAX_CACHED_IDS THEN n ELSE Min(T)
    BY DEF IdCapacity
  <1> QED
    BY <1>3, <1>4

\* The best fit is a pooled buffer.
LEMMA BestFitIs ==
  ASSUME QueuesOK, ResourcesOK, NEW n \in Nat, BestFit(n) # 0
  PROVE  BestFit(n) \in 1..Len(buffer_pool["load"])
  <1> DEFINE pool == buffer_pool["load"]
             fits == {i \in DOMAIN pool : pool[i].capacity >= n}
             best == {i \in fits : \A k \in fits : pool[i].capacity <= pool[k].capacity}
             C == {pool[i].capacity : i \in fits}
  <1>1. IsSeq(pool) /\ BuffersApart(transfers["load"], pool)
    BY DEF ResourcesOK, DirectionOK, Directions
  <1>2. DOMAIN pool = 1..Len(pool) /\ Len(pool) \in Nat
    BY <1>1, SeqIs
  <1>3. BestFit(n) = IF fits = {} THEN 0 ELSE Min(best)
    BY DEF BestFit
  <1>4. fits # {} /\ BestFit(n) = Min(best)
    <2> HIDE DEF fits, best
    <2> QED
      BY <1>3
  <1>5. C \subseteq Nat /\ C # {}
    <2>1. \A i \in fits : pool[i].capacity \in Nat
      BY <1>1, <1>2 DEF BuffersApart
    <2> HIDE DEF fits
    <2> QED
      BY <1>4, <2>1
  <1>6. PICK x \in fits : pool[x].capacity = Min(C)
    <2>1. Min(C) \in C
      <3> HIDE DEF C
      <3> QED
        BY <1>5, MinExists
    <2> HIDE DEF fits
    <2> QED
      BY <2>1, ZenonT(60)
  <1>7. x \in best
    <2>1. \A c \in C : Min(C) <= c
      <3> HIDE DEF C
      <3> QED
        BY <1>5, MinExists
    <2>2. \A k \in fits : pool[x].capacity <= pool[k].capacity
      <3> HIDE DEF fits
      <3> QED
        BY <1>6, <2>1
    <2> HIDE DEF fits
    <2> QED
      BY <2>2
  <1>8. best \subseteq 1..Len(pool) /\ best \subseteq Nat
    BY <1>2
  <1>9. Min(best) \in best
    <2> HIDE DEF best
    <2> QED
      BY <1>7, <1>8, MinExists
  <1> HIDE DEF best
  <1> QED
    BY <1>4, <1>8, <1>9, ZenonT(60)

\* The buffer a submission acquires is no longer in the pool, and no transfer has it.
LEMMA BufferAcquired ==
  ASSUME QueuesOK, ResourcesOK, NEW d \in Directions, NEW n \in Nat
  PROVE  /\ IsSeq(BuffersLeft(d, n)) /\ BuffersApart(transfers[d], BuffersLeft(d, n))
         /\ BufferFree(transfers[d], BuffersLeft(d, n), AcquiredBuffer(d, n))
  <1> DEFINE ts == transfers[d]
             pool == buffer_pool[d]
             new(c) == [id |-> Fresh(BuffersInUse(d)), capacity |-> c]
  <1>1. IsSeq(pool) /\ BuffersApart(ts, pool)
    BY DEF ResourcesOK, DirectionOK
  <1>2. \A k \in 1..Len(pool) : \E i \in 1..Len(pool) : pool[k] = pool[i]
    OBVIOUS
  <1>3. IsSeq(<< >>) /\ BuffersApart(ts, << >>) /\ \A k \in 1..Len(<< >>) : FALSE
    <2>1. << >> \in Seq({}) /\ Len(<< >>) = 0
      OBVIOUS
    <2> QED
      BY <1>1, <2>1 DEF IsSeq, BuffersApart
  <1>4. CASE d = "store" /\ pool = << >>
    <2>1. BuffersLeft(d, n) = << >> /\ AcquiredBuffer(d, n) = new(n)
      BY <1>4 DEF BuffersLeft, AcquiredBuffer
    <2>2. BufferFree(ts, << >>, new(n))
      BY <1>3, NewBufferFree, ZenonT(60)
    <2> HIDE DEF new
    <2> QED
      BY <1>3, <2>1, <2>2
  <1>5. CASE d = "store" /\ pool # << >>
    <2>1. BuffersLeft(d, n) = Front(pool) /\ AcquiredBuffer(d, n) \in {Last(pool), new(n)}
      BY <1>5, ZenonT(60) DEF BuffersLeft, AcquiredBuffer
    <2>2. /\ IsSeq(Front(pool)) /\ BuffersApart(ts, Front(pool)) /\ BufferFree(ts, Front(pool), Last(pool))
          /\ \A i \in 1..Len(Front(pool)) : \E j \in 1..Len(pool) : Front(pool)[i] = pool[j]
      <3>1. Removed(ts, pool, Front(pool), Last(pool))
        BY <1>1, <1>5, LastBufferRemoved
      <3> QED
        BY <3>1 DEF Removed
    <2>3. BufferFree(ts, Front(pool), new(n))
      BY <2>2, NewBufferFree, ZenonT(60)
    <2> HIDE DEF new, pool
    <2> QED
      BY <2>1, <2>2, <2>3, ZenonT(60)
  <1>6. CASE d = "load" /\ n = 0
    <2>1. BuffersLeft(d, n) = pool /\ AcquiredBuffer(d, n) = NoBuffer
      BY <1>6 DEF BuffersLeft, AcquiredBuffer
    <2>2. BufferFree(ts, pool, NoBuffer)
      BY DEF BufferFree, IsBuffer, NoBuffer
    <2> QED
      BY <1>1, <2>1, <2>2
  <1>7. CASE d = "load" /\ n # 0 /\ BestFit(n) = 0
    <2>1. BuffersLeft(d, n) = pool /\ AcquiredBuffer(d, n) = new(IdCapacity(n))
      BY <1>7 DEF BuffersLeft, AcquiredBuffer
    <2>2. BufferFree(ts, pool, new(IdCapacity(n)))
      <3>1. IdCapacity(n) \in Nat
        BY IdCapacityIs
      <3> QED
        BY <1>2, <3>1, NewBufferFree, ZenonT(60)
    <2> HIDE DEF new
    <2> QED
      BY <1>1, <2>1, <2>2, ZenonT(60)
  <1>8. CASE d = "load" /\ n # 0 /\ BestFit(n) # 0
    <2> DEFINE k == BestFit(n)
    <2>1. BuffersLeft(d, n) = RemoveAt(pool, k) /\ AcquiredBuffer(d, n) = pool[k]
      BY <1>8 DEF BuffersLeft, AcquiredBuffer
    <2>2. k \in 1..Len(pool)
      BY <1>8, BestFitIs
    <2> HIDE DEF k, pool
    <2> QED
      BY <1>1, <2>1, <2>2, BufferRemoved DEF Removed
  <1>9. d = "store" \/ d = "load"
    BY DEF Directions
  <1> QED
    BY <1>4, <1>5, <1>6, <1>7, <1>8, <1>9, ZenonT(60)

\* A transfer with a lane and a buffer of its own can be tracked.
LEMMA TrackedApart ==
  ASSUME NEW ts, IsSeq(ts), NEW lanes, NEW bufs, NEW t,
         LanesApart(ts, lanes), LaneFree(ts, lanes, t.lane),
         BuffersApart(ts, bufs), BufferFree(ts, bufs, t.buffer)
  PROVE  LanesApart(Append(ts, t), lanes) /\ BuffersApart(Append(ts, t), bufs)
  <1> DEFINE q == Append(ts, t)
  <1>1. /\ Len(q) = Len(ts) + 1 /\ Len(ts) \in Nat
        /\ \A i \in 1..Len(ts) : q[i] = ts[i]
        /\ q[Len(ts) + 1] = t
    BY AppendIs, SeqIs
  <1>2. \A i \in 1..Len(q) : (i \in 1..Len(ts) /\ q[i] = ts[i]) \/ (i = Len(ts) + 1 /\ q[i] = t)
    <2> HIDE DEF q
    <2> QED
      BY <1>1
  <1> HIDE DEF q
  <1>3. LanesApart(q, lanes)
    <2>1. \A i, k \in 1..Len(q) : i # k => q[i].lane # q[k].lane
      BY <1>2 DEF LanesApart, LaneFree
    <2>2. \A i \in 1..Len(q), k \in 1..Len(lanes) : q[i].lane # lanes[k]
      BY <1>2 DEF LanesApart, LaneFree
    <2> QED
      BY <2>1, <2>2, ZenonT(60) DEF LanesApart
  <1>4. BuffersApart(q, bufs)
    <2>1. \A i \in 1..Len(ts) : ts[i].buffer # NoBuffer => ts[i].buffer.id # 0
      BY ZenonT(60) DEF BuffersApart, IsBuffer
    <2>2. \A i, k \in 1..Len(q) : i # k => q[i].buffer.id # q[k].buffer.id \/ q[i].buffer = NoBuffer
      <3> SUFFICES ASSUME NEW i \in 1..Len(q), NEW k \in 1..Len(q), i # k, q[i].buffer # NoBuffer
                   PROVE  q[i].buffer.id # q[k].buffer.id
        OBVIOUS
      <3>1. CASE i \in 1..Len(ts) /\ q[i] = ts[i] /\ k \in 1..Len(ts) /\ q[k] = ts[k]
        BY <3>1, ZenonT(60) DEF BuffersApart
      <3>2. CASE i \in 1..Len(ts) /\ q[i] = ts[i] /\ q[k] = t
        <4>1. CASE t.buffer = NoBuffer
          <5>1. q[i].buffer.id # 0
            BY <2>1, <3>2, ZenonT(60)
          <5>2. q[k].buffer.id = 0
            BY <3>2, <4>1 DEF NoBuffer
          <5> QED
            BY <5>1, <5>2, ZenonT(60)
        <4>2. CASE t.buffer # NoBuffer
          BY <3>2, <4>2, ZenonT(60) DEF BufferFree
        <4> QED
          BY <4>1, <4>2, ZenonT(60)
      <3>3. CASE q[i] = t /\ k \in 1..Len(ts) /\ q[k] = ts[k]
        BY <3>3 DEF BufferFree
      <3> QED
        BY <1>2, <3>1, <3>2, <3>3
    <2>3. \A i \in 1..Len(q), k \in 1..Len(bufs) : q[i].buffer.id # bufs[k].id
      <3>1. \A k \in 1..Len(bufs) : t.buffer.id # bufs[k].id
        BY DEF BufferFree, BuffersApart, NoBuffer
      <3> QED
        BY <1>2, <3>1, ZenonT(60) DEF BuffersApart
    <2>4. \A i \in 1..Len(q) : IsBuffer(q[i].buffer)
      BY <1>2, ZenonT(60) DEF BufferFree, BuffersApart
    <2> QED
      BY <2>2, <2>3, <2>4, ZenonT(60) DEF BuffersApart
  <1> QED
    BY <1>3, <1>4 DEF q

\* A lane goes back to the pool.
LEMMA LaneReturned ==
  ASSUME NEW ts, NEW lanes, IsSeq(lanes), NEW ln, LanesApart(ts, lanes), LaneFree(ts, lanes, ln)
  PROVE  IsSeq(Append(lanes, ln)) /\ LanesApart(ts, Append(lanes, ln))
  <1> DEFINE q == Append(lanes, ln)
  <1>1. /\ IsSeq(q) /\ Len(q) = Len(lanes) + 1 /\ Len(lanes) \in Nat
        /\ \A i \in 1..Len(lanes) : q[i] = lanes[i]
        /\ q[Len(lanes) + 1] = ln
    BY AppendIs, SeqIs
  <1>2. \A i \in 1..Len(q) : (i \in 1..Len(lanes) /\ q[i] = lanes[i]) \/ (i = Len(lanes) + 1 /\ q[i] = ln)
    <2> HIDE DEF q
    <2> QED
      BY <1>1
  <1> HIDE DEF q
  <1>3. \A i, k \in 1..Len(q) : i # k => q[i] # q[k]
    BY <1>2 DEF LanesApart, LaneFree
  <1>4. \A i \in 1..Len(ts), k \in 1..Len(q) : ts[i].lane # q[k]
    BY <1>2 DEF LanesApart, LaneFree
  <1>5. LanesApart(ts, q)
    BY <1>3, <1>4 DEF LanesApart
  <1> QED
    BY <1>1, <1>5 DEF q

\* The lanes of the first n transfers go back to the pool with them.
LEMMA LanesReturned ==
  ASSUME NEW ts, IsSeq(ts), NEW lanes, IsSeq(lanes), NEW n \in 0..Len(ts), LanesApart(ts, lanes)
  PROVE  /\ IsSeq(lanes \o LanesOf(SubSeq(ts, 1, n)))
         /\ LanesApart(SubSeq(ts, n + 1, Len(ts)), lanes \o LanesOf(SubSeq(ts, 1, n)))
  <1> DEFINE done == SubSeq(ts, 1, n)
             rest == SubSeq(ts, n + 1, Len(ts))
             back == LanesOf(done)
             q == lanes \o back
  <1>1. Len(ts) \in Nat /\ Len(lanes) \in Nat
    BY SeqIs
  <1>2. IsSeq(done) /\ Len(done) = n /\ \A i \in 1..n : done[i] = ts[i]
    <2>1. 1 \in 1..(Len(ts) + 1) /\ n \in (1 - 1)..Len(ts) /\ n - 1 + 1 = n
      BY <1>1
    <2>2. IsSeq(done) /\ Len(done) = n - 1 + 1 /\ \A i \in 1..(n - 1 + 1) : done[i] = ts[1 + i - 1]
      BY <2>1, PartIs
    <2>3. \A i \in 1..n : 1 + i - 1 = i
      BY <1>1
    <2> HIDE DEF done
    <2> QED
      BY <2>1, <2>2, <2>3
  <1>3. Len(rest) = Len(ts) - n /\ \A i \in 1..Len(rest) : n + i \in 1..Len(ts) /\ rest[i] = ts[n + i]
    <2>1. n + 1 \in 1..(Len(ts) + 1) /\ Len(ts) \in ((n + 1) - 1)..Len(ts)
      BY <1>1
    <2>2. /\ Len(rest) = Len(ts) - (n + 1) + 1
          /\ \A i \in 1..(Len(ts) - (n + 1) + 1) : rest[i] = ts[(n + 1) + i - 1]
      BY <2>1, PartIs
    <2>3. Len(ts) - (n + 1) + 1 = Len(ts) - n /\ \A i \in 1..(Len(ts) - n) : (n + 1) + i - 1 = n + i /\ n + i \in 1..Len(ts)
      BY <1>1
    <2> HIDE DEF rest
    <2> QED
      BY <2>2, <2>3
  <1>4. IsSeq(back) /\ Len(back) = n /\ \A i \in 1..n : back[i] = ts[i].lane
    <2>1. DOMAIN done = 1..n
      BY <1>2, SeqIs
    <2>2. back = [i \in 1..n |-> ts[i].lane]
      <3> HIDE DEF done
      <3> QED
        BY <1>2, <2>1 DEF LanesOf
    <2>3. [i \in 1..n |-> ts[i].lane] \in Seq({ts[i].lane : i \in 1..n})
      BY <1>1
    <2>4. IsSeq(back)
      <3> HIDE DEF back
      <3> QED
        BY <2>2, <2>3, ZenonT(60) DEF IsSeq
    <2>5. Len(back) = n /\ \A i \in 1..n : back[i] = ts[i].lane
      <3> HIDE DEF back
      <3> QED
        BY <1>1, <2>2
    <2> QED
      BY <2>4, <2>5
  <1> HIDE DEF done, rest, back
  <1>5. /\ IsSeq(q) /\ Len(q) = Len(lanes) + n
        /\ \A i \in 1..(Len(lanes) + n) : q[i] = IF i <= Len(lanes) THEN lanes[i] ELSE back[i - Len(lanes)]
    BY <1>4, ConcatIs
  <1>6. \A i \in 1..Len(q) :
          \/ i \in 1..Len(lanes) /\ q[i] = lanes[i]
          \/ i - Len(lanes) \in 1..n /\ i - Len(lanes) \in 1..Len(ts) /\ q[i] = ts[i - Len(lanes)].lane
    <2> HIDE DEF q
    <2> TAKE i \in 1..Len(q)
    <2>1. CASE i <= Len(lanes)
      BY <1>1, <1>5, <2>1
    <2>2. CASE ~(i <= Len(lanes))
      <3>1. i - Len(lanes) \in 1..n /\ i - Len(lanes) \in 1..Len(ts)
        BY <1>1, <1>5, <2>2
      <3> QED
        BY <1>4, <1>5, <2>2, <3>1
    <2> QED
      BY <2>1, <2>2
  <1> HIDE DEF q
  <1>7. \A i, k \in 1..Len(q) : i # k => q[i] # q[k]
    <2> SUFFICES ASSUME NEW i \in 1..Len(q), NEW k \in 1..Len(q), i # k PROVE q[i] # q[k]
      OBVIOUS
    <2> DEFINE a == i - Len(lanes)
               b == k - Len(lanes)
    <2>1. a # b
      BY <1>1, <1>5
    <2>2. /\ (i \in 1..Len(lanes) /\ q[i] = lanes[i]) \/ (a \in 1..Len(ts) /\ q[i] = ts[a].lane)
          /\ (k \in 1..Len(lanes) /\ q[k] = lanes[k]) \/ (b \in 1..Len(ts) /\ q[k] = ts[b].lane)
      BY <1>6
    <2> HIDE DEF a, b
    <2>3. CASE i \in 1..Len(lanes) /\ q[i] = lanes[i]
      BY <2>2, <2>3 DEF LanesApart
    <2>4. CASE a \in 1..Len(ts) /\ q[i] = ts[a].lane
      BY <2>1, <2>2, <2>4, ZenonT(60) DEF LanesApart
    <2> QED
      BY <2>2, <2>3, <2>4
  <1>8. \A i \in 1..Len(rest), k \in 1..Len(q) : rest[i].lane # q[k]
    <2> SUFFICES ASSUME NEW i \in 1..Len(rest), NEW k \in 1..Len(q) PROVE rest[i].lane # q[k]
      OBVIOUS
    <2>1. k - Len(lanes) \in 1..n => n + i # k - Len(lanes)
      BY <1>1, <1>3
    <2>2. n + i \in 1..Len(ts) /\ rest[i] = ts[n + i]
      BY <1>3
    <2>3. CASE k \in 1..Len(lanes) /\ q[k] = lanes[k]
      BY <2>2, <2>3 DEF LanesApart
    <2>4. CASE /\ k - Len(lanes) \in 1..n /\ k - Len(lanes) \in 1..Len(ts)
               /\ q[k] = ts[k - Len(lanes)].lane
      BY <2>1, <2>2, <2>4 DEF LanesApart
    <2> QED
      BY <1>6, <2>3, <2>4
  <1>9. \A i, k \in 1..Len(rest) : i # k => rest[i].lane # rest[k].lane
    <2> SUFFICES ASSUME NEW i \in 1..Len(rest), NEW k \in 1..Len(rest), i # k
                 PROVE  rest[i].lane # rest[k].lane
      OBVIOUS
    <2>1. n + i # n + k
      BY <1>1, <1>3
    <2> QED
      BY <1>3, <2>1, ZenonT(60) DEF LanesApart
  <1>10. LanesApart(rest, q)
    BY <1>7, <1>8, <1>9, ZenonT(60) DEF LanesApart
  <1> QED
    BY <1>5, <1>10 DEF q, back, done, rest

RecycleStep(d, pool, done, after, n) ==
  IF n = 0 THEN pool
  ELSE IF /\ done[n].buffer # NoBuffer
          /\ d = "load" => /\ done[n].buffer.capacity <= MAX_CACHED_IDS
                           /\ Len(after[n - 1]) < ID_BUFFER_CACHE_SIZE
    THEN Append(after[n - 1], done[n].buffer)
    ELSE after[n - 1]

HasLoop(d, pool, done) == \E g : g = [n \in 0..Len(done) |-> RecycleStep(d, pool, done, g, n)]

BuffersIn(done, R) == \A j \in 1..Len(done) : done[j].buffer \in R

\* The loop that recycles buffers is well defined.
LEMMA RecycleDefined ==
  ASSUME NEW R, NEW d, NEW pool \in Seq(R), NEW done, Len(done) \in Nat, BuffersIn(done, R)
  PROVE  HasLoop(d, pool, done)
  <1> DEFINE Good(m) == \E g \in [0..m -> Seq(R)] :
                           \A n \in 0..m : g[n] = RecycleStep(d, pool, done, g, n)
             T == {m \in Nat : m <= Len(done) /\ ~Good(m)}
  <1>1. T = {}
    <2>1. SUFFICES ASSUME T # {} PROVE FALSE
      OBVIOUS
    <2>2. PICK m \in T : \A n \in T : m <= n
      <3>1. T \subseteq Nat
        OBVIOUS
      <3> HIDE DEF T
      <3> QED
        BY <2>1, <3>1, MinExists, ZenonT(60)
    <2>3. m \in Nat /\ m <= Len(done) /\ ~Good(m)
      BY <2>2, ZenonT(60)
    <2>4. CASE m = 0
      <3> DEFINE h == [n \in 0..0 |-> pool]
      <3>1. h \in [0..0 -> Seq(R)] /\ \A n \in 0..0 : h[n] = RecycleStep(d, pool, done, h, n)
        BY DEF RecycleStep
      <3>2. Good(0)
        BY <3>1
      <3> QED
        BY <2>3, <2>4, <3>2
    <2>5. CASE m # 0
      <3>1. m - 1 \in Nat /\ m - 1 < m /\ m - 1 <= Len(done)
        BY <2>3, <2>5
      <3>2. m - 1 \notin T
        <4> HIDE DEF T
        <4> QED
          BY <2>2, <2>3, <3>1
      <3>3. Good(m - 1)
        BY <3>1, <3>2
      <3>4. PICK g \in [0..(m - 1) -> Seq(R)] :
              \A n \in 0..(m - 1) : g[n] = RecycleStep(d, pool, done, g, n)
        BY <3>3
      <3> DEFINE h == [n \in 0..m |-> IF n = m THEN RecycleStep(d, pool, done, g, m) ELSE g[n]]
      <3>5. done[m].buffer \in R
        BY <2>3, <2>5 DEF BuffersIn
      <3>6. RecycleStep(d, pool, done, g, m) \in Seq(R)
        <4>1. g[m - 1] \in Seq(R)
          BY <3>1, <3>4
        <4> QED
          BY <2>5, <3>5, <4>1, AppendProperties DEF RecycleStep
      <3>7. h \in [0..m -> Seq(R)]
        BY <2>3, <3>4, <3>6
      <3>8. \A n \in 0..m : h[n] = RecycleStep(d, pool, done, h, n)
        <4> TAKE n \in 0..m
        <4>1. n # 0 => h[n - 1] = g[n - 1]
          BY <2>3
        <4>2. RecycleStep(d, pool, done, h, n) = RecycleStep(d, pool, done, g, n)
          BY <4>1 DEF RecycleStep
        <4>3. h[n] = RecycleStep(d, pool, done, g, n)
          BY <2>3, <3>4
        <4> QED
          BY <4>2, <4>3
      <3>9. Good(m)
        <4> HIDE DEF h
        <4> QED
          BY <3>7, <3>8
      <3> QED
        BY <2>3, <3>9
    <2> QED
      BY <2>4, <2>5
  <1>2. Good(Len(done))
    <2>1. Len(done) \notin T
      BY <1>1, ZenonT(60)
    <2> HIDE DEF Good
    <2> QED
      BY <2>1
  <1>3. PICK g \in [0..Len(done) -> Seq(R)] :
          \A n \in 0..Len(done) : g[n] = RecycleStep(d, pool, done, g, n)
    BY <1>2
  <1>4. g = [n \in 0..Len(done) |-> RecycleStep(d, pool, done, g, n)]
    BY <1>3
  <1> QED
    BY <1>4 DEF HasLoop

\* The transfers that are done have buffers of their own.
DoneApart(done, rest, pool) ==
  /\ \A j \in 1..Len(done) : IsBuffer(done[j].buffer)
  /\ \A j, l \in 1..Len(done) : j # l =>
       done[j].buffer.id # done[l].buffer.id \/ done[j].buffer = NoBuffer
  /\ \A j \in 1..Len(done), k \in 1..Len(pool) : done[j].buffer.id # pool[k].id
  /\ \A j \in 1..Len(done), i \in 1..Len(rest) :
       rest[i].buffer.id # done[j].buffer.id \/ done[j].buffer = NoBuffer

\* What the pool q has after m transfers have been recycled.
Mixed(pool, done, m, q) ==
  /\ IsSeq(q)
  /\ \A k \in 1..Len(q) :
       \/ \E i \in 1..Len(pool) : q[k] = pool[i]
       \/ \E j \in 1..Len(done) : j <= m /\ q[k] = done[j].buffer /\ q[k] # NoBuffer
  /\ \A i, k \in 1..Len(q) : i # k => q[i].id # q[k].id

\* A pool to which the first jobs have given their buffers back takes the
\* buffer of the next job.
LEMMA MixedNext ==
  ASSUME NEW pool, NEW done, NEW rest, Len(done) \in Nat, NEW m \in 1..Len(done), NEW q,
         DoneApart(done, rest, pool), Mixed(pool, done, m - 1, q), done[m].buffer # NoBuffer
  PROVE  Mixed(pool, done, m, Append(q, done[m].buffer))
  <1> DEFINE b == done[m].buffer
             r == Append(q, b)
  <1>1. IsSeq(q) /\ Len(q) \in Nat
    BY SeqIs DEF Mixed
  <1>2. /\ IsSeq(r) /\ Len(r) = Len(q) + 1
        /\ \A i \in 1..Len(q) : r[i] = q[i]
        /\ r[Len(q) + 1] = b
    BY <1>1, AppendIs
  <1>3. \A i \in 1..Len(r) : (i \in 1..Len(q) /\ r[i] = q[i]) \/ (i = Len(q) + 1 /\ r[i] = b)
    <2> HIDE DEF r, b
    <2> QED
      BY <1>1, <1>2
  <1> HIDE DEF r
  <1>4. \A k \in 1..Len(q) : q[k].id # b.id
    <2> SUFFICES ASSUME NEW k \in 1..Len(q) PROVE q[k].id # b.id
      OBVIOUS
    <2>1. ASSUME NEW i \in 1..Len(pool), q[k] = pool[i] PROVE q[k].id # b.id
      BY <2>1, ZenonT(60) DEF DoneApart
    <2>2. ASSUME NEW j \in 1..Len(done), j <= m - 1, q[k] = done[j].buffer, q[k] # NoBuffer
          PROVE  q[k].id # b.id
      <3>1. j # m
        BY <2>2
      <3> QED
        BY <2>2, <3>1 DEF DoneApart
    <2> QED
      BY <2>1, <2>2, ZenonT(60) DEF Mixed
  <1>5. \A i, k \in 1..Len(r) : i # k => r[i].id # r[k].id
    BY <1>3, <1>4, ZenonT(60) DEF Mixed
  <1>6. \A k \in 1..Len(r) :
          \/ \E i \in 1..Len(pool) : r[k] = pool[i]
          \/ \E j \in 1..Len(done) : j <= m /\ r[k] = done[j].buffer /\ r[k] # NoBuffer
    <2> TAKE k \in 1..Len(r)
    <2>1. CASE k \in 1..Len(q) /\ r[k] = q[k]
      <3>1. \A j \in 1..Len(done) : j <= m - 1 => j <= m
        OBVIOUS
      <3> QED
        BY <2>1, <3>1, ZenonT(60) DEF Mixed
    <2>2. CASE r[k] = b
      <3>1. m <= m
        OBVIOUS
      <3> QED
        BY <2>2, <3>1, ZenonT(60)
    <2> QED
      BY <1>3, <2>1, <2>2
  <1> QED
    BY <1>2, <1>5, <1>6, ZenonT(60) DEF Mixed, r

\* A job without a buffer of its own leaves the pool as it is.
LEMMA MixedLater ==
  ASSUME NEW pool, NEW done, Len(done) \in Nat, NEW m \in 1..Len(done), NEW q,
         Mixed(pool, done, m - 1, q)
  PROVE  Mixed(pool, done, m, q)
  <1>1. \A j \in 1..Len(done) : j <= m - 1 => j <= m
    OBVIOUS
  <1> QED
    BY <1>1, ZenonT(60) DEF Mixed

\* What recycling leaves in the pool.
LEMMA RecycledIs ==
  ASSUME NEW d, NEW pool, IsSeq(pool), NEW done, Len(done) \in Nat, NEW rest,
         BuffersApart(rest, pool), DoneApart(done, rest, pool)
  PROVE  Mixed(pool, done, Len(done), Recycled(d, pool, done))
  <1> DEFINE R == {pool[i] : i \in 1..Len(pool)} \cup {done[j].buffer : j \in 1..Len(done)}
             F(g) == [n \in 0..Len(done) |->
                IF n = 0 THEN pool
                ELSE IF /\ done[n].buffer # NoBuffer
                        /\ d = "load" => /\ done[n].buffer.capacity <= MAX_CACHED_IDS
                                         /\ Len(g[n - 1]) < ID_BUFFER_CACHE_SIZE
                  THEN Append(g[n - 1], done[n].buffer)
                  ELSE g[n - 1]]
             k == CHOOSE g : g = F(g)
  <1>1. pool \in Seq(R)
    <2>1. PICK S : pool \in Seq(S)
      BY DEF IsSeq
    <2>2. Len(pool) \in Nat /\ pool \in [1..Len(pool) -> S]
      BY <2>1
    <2>3. \A i \in 1..Len(pool) : pool[i] \in R
      OBVIOUS
    <2> HIDE DEF R
    <2> QED
      BY <2>1, <2>2, <2>3
  <1>2. BuffersIn(done, R)
    BY DEF BuffersIn
  <1>3. Recycled(d, pool, done) = k[Len(done)]
    BY DEF Recycled
  <1>4. k = F(k)
    <2>1. \E g : g = F(g)
      <3> HIDE DEF R
      <3>1. HasLoop(d, pool, done)
        BY <1>1, <1>2, RecycleDefined
      <3> QED
        BY <3>1, ZenonT(60) DEF HasLoop, RecycleStep
    <2> HIDE DEF F
    <2> QED
      BY <2>1
  <1> HIDE DEF k, R
  <1> DEFINE T == {n \in 0..Len(done) : ~Mixed(pool, done, n, k[n])}
  <1>5. T = {}
    <2>1. SUFFICES ASSUME T # {} PROVE FALSE
      OBVIOUS
    <2>2. PICK m \in T : \A n \in T : m <= n
      <3>1. T \subseteq Nat
        OBVIOUS
      <3> HIDE DEF T
      <3> QED
        BY <2>1, <3>1, MinExists, ZenonT(60)
    <2>3. m \in 0..Len(done) /\ ~Mixed(pool, done, m, k[m])
      BY <2>2
    <2>4. CASE m = 0
      <3>1. k[0] = pool
        BY <1>4
      <3>2. Mixed(pool, done, 0, pool)
        BY ZenonT(60) DEF Mixed, BuffersApart
      <3> QED
        BY <2>3, <2>4, <3>1, <3>2, ZenonT(60)
    <2>5. CASE m # 0
      <3>1. m \in 1..Len(done) /\ m - 1 \in 0..Len(done) /\ ~(m <= m - 1)
        BY <2>3, <2>5
      <3>2. m - 1 \notin T
        <4> HIDE DEF T
        <4> QED
          BY <2>2, <3>1
      <3>3. Mixed(pool, done, m - 1, k[m - 1])
        BY <3>1, <3>2
      <3>4. \/ k[m] = k[m - 1]
            \/ done[m].buffer # NoBuffer /\ k[m] = Append(k[m - 1], done[m].buffer)
        BY <1>4, <2>3, <2>5, ZenonT(60)
      <3>5. CASE k[m] = k[m - 1]
        <4>1. Mixed(pool, done, m, k[m - 1])
          BY <3>1, <3>3, MixedLater
        <4> QED
          BY <2>3, <3>5, <4>1
      <3>6. CASE done[m].buffer # NoBuffer /\ k[m] = Append(k[m - 1], done[m].buffer)
        <4>1. Mixed(pool, done, m, Append(k[m - 1], done[m].buffer))
          BY <3>1, <3>3, <3>6, MixedNext, ZenonT(60)
        <4> QED
          BY <2>3, <3>6, <4>1
      <3> QED
        BY <3>4, <3>5, <3>6
    <2> QED
      BY <2>4, <2>5
  <1> QED
    BY <1>3, <1>5

\* Recycling keeps the buffers apart.
LEMMA BuffersReturned ==
  ASSUME NEW d, NEW pool, IsSeq(pool), NEW done, Len(done) \in Nat, NEW rest,
         BuffersApart(rest, pool), DoneApart(done, rest, pool)
  PROVE  IsSeq(Recycled(d, pool, done)) /\ BuffersApart(rest, Recycled(d, pool, done))
  <1> DEFINE q == Recycled(d, pool, done)
  <1>1. Mixed(pool, done, Len(done), q)
    BY RecycledIs, ZenonT(60)
  <1> HIDE DEF q
  <1>2. \A k \in 1..Len(q) : /\ q[k].id # 0 /\ q[k].capacity \in Nat
                             /\ \A i \in 1..Len(rest) : rest[i].buffer.id # q[k].id
    <2> TAKE k \in 1..Len(q)
    <2>1. ASSUME NEW i \in 1..Len(pool), q[k] = pool[i]
          PROVE  /\ q[k].id # 0 /\ q[k].capacity \in Nat
                 /\ \A l \in 1..Len(rest) : rest[l].buffer.id # q[k].id
      BY <2>1 DEF BuffersApart
    <2>2. ASSUME NEW j \in 1..Len(done), q[k] = done[j].buffer, q[k] # NoBuffer
          PROVE  /\ q[k].id # 0 /\ q[k].capacity \in Nat
                 /\ \A l \in 1..Len(rest) : rest[l].buffer.id # q[k].id
      BY <2>2, ZenonT(60) DEF DoneApart, IsBuffer
    <2> QED
      BY <1>1, <2>1, <2>2 DEF Mixed
  <1>3. IsSeq(q) /\ \A i, k \in 1..Len(q) : i # k => q[i].id # q[k].id
    BY <1>1 DEF Mixed
  <1>4. BuffersApart(rest, q)
    BY <1>2, <1>3, ZenonT(60) DEF BuffersApart
  <1> QED
    BY <1>3, <1>4 DEF q

\* The steps of one direction.
LEMMA OneDirection ==
  ASSUME QueuesOK, ResourcesOK, NEW d \in Directions, NEW ts, NEW work, NEW lanes, NEW bufs,
         transfers' = [transfers EXCEPT ![d] = ts], device' = [device EXCEPT ![d] = work],
         lane_pool' = [lane_pool EXCEPT ![d] = lanes], buffer_pool' = [buffer_pool EXCEPT ![d] = bufs],
         DirectionOK(ts, work, lanes, bufs)
  PROVE  ResourcesOK'
  <1>1. \A e \in Directions :
          IF e = d
            THEN /\ transfers'[e] = ts /\ device'[e] = work
                 /\ lane_pool'[e] = lanes /\ buffer_pool'[e] = bufs
            ELSE /\ transfers'[e] = transfers[e] /\ device'[e] = device[e]
                 /\ lane_pool'[e] = lane_pool[e] /\ buffer_pool'[e] = buffer_pool[e]
    BY ZenonT(60) DEF QueuesOK, ResourcesOK
  <1>2. \A e \in Directions : DirectionOK(transfers'[e], device'[e], lane_pool'[e], buffer_pool'[e])
    <2> TAKE e \in Directions
    <2>1. CASE e = d
      BY <1>1, <2>1
    <2>2. CASE e # d
      BY <1>1, <2>2, ZenonT(60) DEF ResourcesOK
    <2> QED
      BY <2>1, <2>2
  <1>3. /\ lane_pool' = [e \in Directions |-> lane_pool'[e]]
        /\ buffer_pool' = [e \in Directions |-> buffer_pool'[e]]
    BY ZenonT(60) DEF ResourcesOK
  <1>4. Directions' = Directions
    BY DEF Directions
  <1> QED
    BY <1>2, <1>3, ZenonT(60) DEF ResourcesOK, Directions, DirectionOK, IsSeq, LanesApart, BuffersApart, IsBuffer, Serves,
       NoBuffer

\* An unchanged part is its own update.
LEMMA SameDirection ==
  ASSUME QueuesOK, ResourcesOK, NEW d \in Directions
  PROVE  /\ transfers = [transfers EXCEPT ![d] = transfers[d]]
         /\ device = [device EXCEPT ![d] = device[d]]
         /\ lane_pool = [lane_pool EXCEPT ![d] = lane_pool[d]]
         /\ buffer_pool = [buffer_pool EXCEPT ![d] = buffer_pool[d]]
  BY ZenonT(60) DEF QueuesOK, ResourcesOK

\* What the invariant says of one direction.
LEMMA DirectionIs ==
  ASSUME QueuesOK, ResourcesOK, NEW d \in Directions
  PROVE  /\ IsSeq(transfers[d]) /\ IsSeq(device[d])
         /\ DirectionOK(transfers[d], device[d], lane_pool[d], buffer_pool[d])
  BY DEF QueuesOK, ResourcesOK, IsSeq

\* A submission on the device and in the deque.
LEMMA TrackedResources ==
  ASSUME QueuesOK, ResourcesOK, NEW d \in Directions, NEW n \in Nat, NEW k, NEW ok, NEW sync,
         SubmitTracked(d, n, k, ok, sync)
  PROVE  ResourcesOK'
  <1> DEFINE ts == transfers[d]
             work == device[d]
             t == Transfer(d, n, ok, sync)
             w == [job |-> t.job, lane |-> t.lane, buffer |-> t.buffer]
  <1>1. /\ transfers' = [transfers EXCEPT ![d] = Append(ts, t)]
        /\ device' = [device EXCEPT ![d] = Append(work, w)]
        /\ lane_pool' = [lane_pool EXCEPT ![d] = LanesLeft(d)]
        /\ buffer_pool' = [buffer_pool EXCEPT ![d] = BuffersLeft(d, n)]
    BY DEF SubmitTracked
  <1>2. IsSeq(ts) /\ IsSeq(work) /\ DirectionOK(ts, work, lane_pool[d], buffer_pool[d])
    BY DirectionIs, ZenonT(60)
  <1>3. t.lane = AcquiredLane(d) /\ t.buffer = AcquiredBuffer(d, n)
    BY DEF Transfer
  <1>4. Serves(t, w)
    BY DEF Serves
  <1> HIDE DEF t, w
  <1>5. LanesApart(Append(ts, t), LanesLeft(d)) /\ BuffersApart(Append(ts, t), BuffersLeft(d, n))
    BY <1>2, <1>3, LaneAcquired, BufferAcquired, TrackedApart, ZenonT(60)
  <1>6. \A i \in DOMAIN Append(work, w) : \E j \in DOMAIN Append(ts, t) :
          Serves(Append(ts, t)[j], Append(work, w)[i])
    <2> DEFINE q == Append(ts, t)
               v == Append(work, w)
    <2>1. Appended(ts, t, q)
      BY <1>2, AppendDomain, ZenonT(60)
    <2>2. Appended(work, w, v)
      BY <1>2, AppendDomain, ZenonT(60)
    <2> HIDE DEF q, v
    <2>3. ASSUME NEW i \in 1..Len(work) PROVE \E j \in DOMAIN q : Serves(q[j], v[i])
      <3>1. PICK j \in DOMAIN ts : Serves(ts[j], work[i])
        BY <1>2, <2>2, ZenonT(60) DEF DirectionOK, Appended
      <3>2. j \in DOMAIN q /\ q[j] = ts[j] /\ v[i] = work[i]
        BY <2>1, <2>2, ZenonT(60) DEF Appended
      <3> QED
        BY <3>1, <3>2, ZenonT(60)
    <2>4. \E j \in DOMAIN q : Serves(q[j], v[Len(work) + 1])
      <3>1. Len(ts) + 1 \in DOMAIN q /\ q[Len(ts) + 1] = t /\ v[Len(work) + 1] = w
        BY <2>1, <2>2, ZenonT(60) DEF Appended
      <3> QED
        BY <1>4, <3>1, ZenonT(60)
    <2>5. \A i \in DOMAIN v : i \in 1..Len(work) \/ i = Len(work) + 1
      BY <2>2, ZenonT(60) DEF Appended
    <2>6. \A i \in DOMAIN v : \E j \in DOMAIN q : Serves(q[j], v[i])
      BY <2>3, <2>4, <2>5, ZenonT(60)
    <2> QED
      BY <2>6, ZenonT(60) DEF q, v
  <1>7. DirectionOK(Append(ts, t), Append(work, w), LanesLeft(d), BuffersLeft(d, n))
    BY <1>5, <1>6, LaneAcquired, BufferAcquired, ZenonT(60) DEF DirectionOK
  <1> QED
    BY <1>1, <1>7, OneDirection, ZenonT(60)

\* A submission that gives everything back.
LEMMA UndoneResources ==
  ASSUME QueuesOK, ResourcesOK, NEW d \in Directions, NEW n \in Nat, NEW idle \in BOOLEAN,
         SubmitUndone(d, n, idle)
  PROVE  ResourcesOK'
  <1> DEFINE ts == transfers[d]
             t == Transfer(d, n, FALSE, FALSE)
             left == BuffersLeft(d, n)
             work == IF idle THEN << >> ELSE device[d]
  <1>1. /\ transfers' = [transfers EXCEPT ![d] = ts]
        /\ device' = [device EXCEPT ![d] = work]
        /\ lane_pool' = [lane_pool EXCEPT ![d] = Append(LanesLeft(d), t.lane)]
        /\ buffer_pool' = [buffer_pool EXCEPT ![d] = Recycled(d, left, <<t>>)]
    BY SameDirection, ZenonT(60) DEF SubmitUndone
  <1>2. DirectionOK(ts, device[d], lane_pool[d], buffer_pool[d])
    BY DirectionIs, ZenonT(60)
  <1>3. t.lane = AcquiredLane(d) /\ t.buffer = AcquiredBuffer(d, n)
    BY DEF Transfer
  <1> HIDE DEF t
  <1>4. IsSeq(Append(LanesLeft(d), t.lane)) /\ LanesApart(ts, Append(LanesLeft(d), t.lane))
    BY <1>3, LaneAcquired, LaneReturned
  <1>5. IsSeq(left) /\ BuffersApart(ts, left) /\ BufferFree(ts, left, t.buffer)
    BY <1>3, BufferAcquired
  <1> HIDE DEF left
  <1>6. Len(<<t>>) = 1 /\ <<t>>[1] = t /\ \A j \in 1..Len(<<t>>) : j = 1
    BY SingleIs, ZenonT(60)
  <1>7. DoneApart(<<t>>, ts, left)
    <2>1. \A k \in 1..Len(left) : t.buffer.id # left[k].id
      BY <1>5 DEF BufferFree, BuffersApart, NoBuffer
    <2> QED
      BY <1>5, <1>6, <2>1, ZenonT(60) DEF DoneApart, BufferFree
  <1>8. IsSeq(Recycled(d, left, <<t>>)) /\ BuffersApart(ts, Recycled(d, left, <<t>>))
    <2> DEFINE done == <<t>>
    <2>1. Len(done) \in Nat /\ DoneApart(done, ts, left)
      BY <1>6, <1>7
    <2> HIDE DEF done
    <2>2. IsSeq(Recycled(d, left, done)) /\ BuffersApart(ts, Recycled(d, left, done))
      BY <1>5, <2>1, BuffersReturned, ZenonT(60)
    <2> QED
      BY <2>2 DEF done
  <1>9. \A i \in DOMAIN work : \E k \in DOMAIN ts : Serves(ts[k], work[i])
    <2>1. CASE idle
      BY <2>1, EmptyDomain, ZenonT(60)
    <2>2. CASE ~idle
      BY <1>2, <2>2, ZenonT(60) DEF DirectionOK
    <2> QED
      BY <2>1, <2>2, ZenonT(60)
  <1>10. DirectionOK(ts, work, Append(LanesLeft(d), t.lane), Recycled(d, left, <<t>>))
    BY <1>4, <1>8, <1>9, ZenonT(60) DEF DirectionOK
  <1> HIDE DEF work
  <1> QED
    BY <1>1, <1>10, OneDirection, ZenonT(60)

\* A submission that is turned away.
LEMMA RejectedResources ==
  ASSUME QueuesOK, ResourcesOK, NEW d \in Directions, NEW n \in Nat, SubmitRejected(d, n)
  PROVE  ResourcesOK'
  <1> DEFINE lanes == IF poisoned[d] THEN lane_pool[d] ELSE LanesLeft(d)
  <1>1. /\ transfers' = [transfers EXCEPT ![d] = transfers[d]]
        /\ device' = [device EXCEPT ![d] = device[d]]
        /\ lane_pool' = [lane_pool EXCEPT ![d] = lanes]
        /\ buffer_pool' = [buffer_pool EXCEPT ![d] = BuffersLeft(d, n)]
    BY SameDirection, ZenonT(60) DEF SubmitRejected
  <1>2. DirectionOK(transfers[d], device[d], lane_pool[d], buffer_pool[d])
    BY DirectionIs
  <1>3. DirectionOK(transfers[d], device[d], lanes, BuffersLeft(d, n))
    BY <1>2, LaneAcquired, BufferAcquired, ZenonT(60) DEF DirectionOK
  <1> HIDE DEF lanes
  <1> QED
    BY <1>1, <1>3, OneDirection, ZenonT(60)

\* The device finishes its oldest work.
LEMMA DeviceStepResources ==
  ASSUME QueuesOK, ResourcesOK, NEW d \in Directions, DeviceStep(d)
  PROVE  ResourcesOK'
  <1> DEFINE work == device[d]
  <1>1. /\ transfers' = [transfers EXCEPT ![d] = transfers[d]]
        /\ device' = [device EXCEPT ![d] = Tail(work)]
        /\ lane_pool' = [lane_pool EXCEPT ![d] = lane_pool[d]]
        /\ buffer_pool' = [buffer_pool EXCEPT ![d] = buffer_pool[d]]
        /\ work # << >>
    BY SameDirection, ZenonT(60) DEF DeviceStep
  <1>2. IsSeq(work) /\ DirectionOK(transfers[d], work, lane_pool[d], buffer_pool[d])
    BY DirectionIs
  <1>3. \A i \in DOMAIN Tail(work) : i + 1 \in DOMAIN work /\ Tail(work)[i] = work[i + 1]
    <2>1. PICK S : work \in Seq(S)
      BY <1>2, ZenonT(60) DEF IsSeq
    <2> QED
      BY <1>1, <2>1
  <1>4. DirectionOK(transfers[d], Tail(work), lane_pool[d], buffer_pool[d])
    BY <1>2, <1>3 DEF DirectionOK
  <1> QED
    BY <1>1, <1>4, OneDirection, ZenonT(60)

\* The first n transfers are none of the device's any more.
Idle(ts, work, n) == \A i \in 1..n : \A j \in DOMAIN work : work[j].job # ts[i].job

\* The positions of a list of length k that is split behind its first n entries.
LEMMA SplitAt ==
  ASSUME NEW k \in Nat, NEW n \in 0..k
  PROVE  /\ k - n \in Nat /\ n \in Nat
         /\ \A i \in 1..(k - n) : n + i \in 1..k
         /\ \A i \in 1..n : i \in 1..k
         /\ \A i, j \in 1..(k - n) : i # j => n + i # n + j
         /\ \A i \in 1..n, j \in 1..(k - n) : i # n + j
         /\ \A i \in 1..k : i \notin 1..n => i - n \in 1..(k - n) /\ n + (i - n) = i
  OBVIOUS

\* What the first n transfers leave behind, and what is theirs.
LEMMA PrefixTaken ==
  ASSUME NEW ts, IsSeq(ts), NEW work, NEW lanes, NEW bufs, DirectionOK(ts, work, lanes, bufs),
         NEW n \in 0..Len(ts), Idle(ts, work, n)
  PROVE  /\ Len(SubSeq(ts, 1, n)) = n
         /\ LanesApart(SubSeq(ts, n + 1, Len(ts)), lanes)
         /\ BuffersApart(SubSeq(ts, n + 1, Len(ts)), bufs)
         /\ DoneApart(SubSeq(ts, 1, n), SubSeq(ts, n + 1, Len(ts)), bufs)
         /\ \A i \in DOMAIN work : \E k \in DOMAIN SubSeq(ts, n + 1, Len(ts)) :
              Serves(SubSeq(ts, n + 1, Len(ts))[k], work[i])
  <1> DEFINE done == SubSeq(ts, 1, n)
             rest == SubSeq(ts, n + 1, Len(ts))
             m == Len(ts) - n
  <1>1. Len(ts) \in Nat /\ DOMAIN ts = 1..Len(ts)
    BY SeqIs
  <1>2. /\ Len(done) = n
        /\ \A i \in 1..n : done[i] = ts[i]
    <2>1. 1 \in 1..(Len(ts) + 1) /\ n \in (1 - 1)..Len(ts)
      BY <1>1
    <2>2. Len(done) = n - 1 + 1 /\ \A i \in 1..(n - 1 + 1) : done[i] = ts[1 + i - 1]
      BY <2>1, PartIs
    <2>3. n - 1 + 1 = n /\ \A i \in 1..n : 1 + i - 1 = i
      BY <1>1
    <2> QED
      BY <2>2, <2>3
  <1>3. /\ IsSeq(rest) /\ Len(rest) = m
        /\ \A i \in 1..m : rest[i] = ts[n + i]
    <2>1. n + 1 \in 1..(Len(ts) + 1) /\ Len(ts) \in ((n + 1) - 1)..Len(ts)
      BY <1>1
    <2>2. /\ IsSeq(rest) /\ Len(rest) = Len(ts) - (n + 1) + 1
          /\ \A i \in 1..(Len(ts) - (n + 1) + 1) : rest[i] = ts[(n + 1) + i - 1]
      BY <2>1, PartIs
    <2>3. Len(ts) - (n + 1) + 1 = m /\ \A i \in 1..m : (n + 1) + i - 1 = n + i
      BY <1>1
    <2> HIDE DEF rest, m
    <2> QED
      BY <2>2, <2>3
  <1>4. DOMAIN rest = 1..m
    BY <1>3, SeqIs
  <1>5. /\ \A i \in 1..m : n + i \in 1..Len(ts)
        /\ \A i \in 1..n : i \in 1..Len(ts)
        /\ \A i, k \in 1..m : i # k => n + i # n + k
        /\ \A i \in 1..n, k \in 1..m : i # n + k
        /\ \A i \in 1..Len(ts) : i \notin 1..n => i - n \in 1..m /\ n + (i - n) = i
    BY <1>1, SplitAt
  <1>n. m \in Nat /\ n \in Nat
    BY <1>1, SplitAt
  <1> HIDE DEF done, rest, m
  <1>a. /\ m \in Nat /\ n \in Nat
        /\ \A i \in 1..m : n + i \in 1..Len(ts) /\ rest[i] = ts[n + i]
        /\ \A i \in 1..n : i \in 1..Len(ts) /\ done[i] = ts[i]
    BY <1>2, <1>3, <1>5, <1>n, ZenonT(60)
  <1>b. LanesApart(ts, lanes) /\ BuffersApart(ts, bufs)
    BY ZenonT(60) DEF DirectionOK
  <1>6. LanesApart(rest, lanes)
    <2>1. \A i, k \in 1..m : i # k => rest[i].lane # rest[k].lane
      <3> SUFFICES ASSUME NEW i \in 1..m, NEW k \in 1..m, i # k
                   PROVE  rest[i].lane # rest[k].lane
        OBVIOUS
      <3>1. n + i \in 1..Len(ts) /\ n + k \in 1..Len(ts) /\ n + i # n + k
        BY <1>5
      <3>2. ts[n + i].lane # ts[n + k].lane
        BY <1>b, <3>1, ZenonT(60) DEF LanesApart
      <3> QED
        BY <1>a, <3>2
    <2>2. \A i \in 1..m, k \in 1..Len(lanes) : rest[i].lane # lanes[k]
      BY <1>a, <1>b DEF LanesApart
    <2> QED
      BY <1>3, <1>b, <2>1, <2>2 DEF LanesApart
  <1>7. BuffersApart(rest, bufs)
    <2>1. \A i, k \in 1..m : i # k =>
            rest[i].buffer.id # rest[k].buffer.id \/ rest[i].buffer = NoBuffer
      <3> SUFFICES ASSUME NEW i \in 1..m, NEW k \in 1..m, i # k
                   PROVE  rest[i].buffer.id # rest[k].buffer.id \/ rest[i].buffer = NoBuffer
        OBVIOUS
      <3>1. n + i \in 1..Len(ts) /\ n + k \in 1..Len(ts) /\ n + i # n + k
        BY <1>5
      <3>2. ts[n + i].buffer.id # ts[n + k].buffer.id \/ ts[n + i].buffer = NoBuffer
        BY <1>b, <3>1, ZenonT(60) DEF BuffersApart
      <3> QED
        BY <1>a, <3>2, ZenonT(60)
    <2>2. \A i \in 1..m : IsBuffer(rest[i].buffer)
      BY <1>a, <1>b, ZenonT(60) DEF BuffersApart
    <2>3. \A i \in 1..m, k \in 1..Len(bufs) : rest[i].buffer.id # bufs[k].id
      <3> TAKE i \in 1..m, k \in 1..Len(bufs)
      <3>1. n + i \in 1..Len(ts) /\ rest[i] = ts[n + i]
        BY <1>a
      <3>2. ts[n + i].buffer.id # bufs[k].id
        BY <1>b, <3>1, ZenonT(60) DEF BuffersApart
      <3> QED
        BY <3>1, <3>2
    <2> QED
      BY <1>3, <1>b, <2>1, <2>2, <2>3, ZenonT(60) DEF BuffersApart
  <1>8. DoneApart(done, rest, bufs)
    <2>1. \A j \in 1..n, i \in 1..m :
            rest[i].buffer.id # done[j].buffer.id \/ done[j].buffer = NoBuffer
      <3> SUFFICES ASSUME NEW j \in 1..n, NEW i \in 1..m
                   PROVE  rest[i].buffer.id # done[j].buffer.id \/ done[j].buffer = NoBuffer
        OBVIOUS
      <3>1. n + i \in 1..Len(ts) /\ j \in 1..Len(ts) /\ j # n + i
        BY <1>5
      <3>2. ts[j].buffer.id # ts[n + i].buffer.id \/ ts[j].buffer = NoBuffer
        BY <1>b, <3>1, ZenonT(60) DEF BuffersApart
      <3> QED
        BY <1>a, <3>2, ZenonT(60)
    <2>2. \A j, l \in 1..n : j # l =>
            done[j].buffer.id # done[l].buffer.id \/ done[j].buffer = NoBuffer
      BY <1>a, <1>b, ZenonT(60) DEF BuffersApart
    <2>3. \A j \in 1..n : IsBuffer(done[j].buffer)
      BY <1>a, <1>b, ZenonT(60) DEF BuffersApart
    <2>4. \A j \in 1..n, k \in 1..Len(bufs) : done[j].buffer.id # bufs[k].id
      <3> TAKE j \in 1..n, k \in 1..Len(bufs)
      <3>1. j \in 1..Len(ts) /\ done[j] = ts[j]
        BY <1>a
      <3>2. ts[j].buffer.id # bufs[k].id
        BY <1>b, <3>1, ZenonT(60) DEF BuffersApart
      <3> QED
        BY <3>1, <3>2, ZenonT(60)
    <2> QED
      BY <1>2, <1>3, <2>1, <2>2, <2>3, <2>4, ZenonT(60) DEF DoneApart
  <1>9. ASSUME NEW i \in DOMAIN work PROVE \E k \in DOMAIN rest : Serves(rest[k], work[i])
    <2>1. PICK k \in DOMAIN ts : Serves(ts[k], work[i])
      BY DEF DirectionOK
    <2>2. k \notin 1..n
      BY <2>1 DEF Idle, Serves
    <2>3. k - n \in DOMAIN rest /\ rest[k - n] = ts[k]
      BY <1>1, <1>3, <1>4, <1>5, <2>1, <2>2, ZenonT(60)
    <2> QED
      BY <2>1, <2>3, ZenonT(60)
  <1> QED
    BY <1>2, <1>6, <1>7, <1>8, <1>9, ZenonT(60) DEF done, rest

\* What get_finished takes of a direction.
LEMMA FinishedTaken ==
  ASSUME IInv, NEW d \in Directions
  PROVE  \E n \in 0..Len(transfers[d]) :
           /\ Finished(d) = SubSeq(transfers[d], 1, n) /\ Len(Finished(d)) = n
           /\ Idle(transfers[d], device[d], n)
  <1> DEFINE ts == transfers[d]
             done(n) == \A i \in 1..n : ~ts[i].needs_stream_sync /\ Complete(d, ts[i])
             n == Max({k \in 0..Len(ts) : done(k)})
  <1>1. PICK p \in 0..Len(ts) : Len(Finished(d)) = p /\ \A i \in 1..p : Complete(d, ts[i])
    BY FinishedIsPrefix
  <1>2. IsSeq(ts) /\ Len(ts) \in Nat
    BY SeqIs DEF IInv, QueuesOK, IsSeq
  <1>3. n \in {k \in 0..Len(ts) : done(k)}
    <2>1. 0 \in {k \in 0..Len(ts) : done(k)}
      BY <1>2
    <2>2. {k \in 0..Len(ts) : done(k)} \in SUBSET (0..Len(ts))
      OBVIOUS
    <2> HIDE DEF done
    <2> QED
      BY <1>2, <2>1, <2>2, MaxExists, ZenonT(60)
  <1>4. Finished(d) = SubSeq(ts, 1, n)
    BY DEF Finished
  <1> HIDE DEF n
  <1>5. Len(SubSeq(ts, 1, n)) = n
    <2>1. 1 \in 1..(Len(ts) + 1) /\ n \in (1 - 1)..Len(ts) /\ n - 1 + 1 = n
      BY <1>2, <1>3
    <2> QED
      BY <1>2, <2>1, PartIs
  <1>6. Idle(ts, device[d], n)
    BY <1>1, <1>4, <1>5, ZenonT(60) DEF Idle, Complete
  <1> QED
    BY <1>3, <1>4, <1>5, <1>6, ZenonT(60)

\* get_finished recycles only what the device has let go of.
LEMMA GetFinishedResources ==
  ASSUME IInv, ResourcesOK, GetFinished
  PROVE  ResourcesOK'
  <1>1. ASSUME NEW d \in Directions
        PROVE  DirectionOK(transfers'[d], device'[d], lane_pool'[d], buffer_pool'[d])
    <2> DEFINE ts == transfers[d]
    <2>1. PICK n \in 0..Len(ts) :
            /\ Finished(d) = SubSeq(ts, 1, n) /\ Len(Finished(d)) = n
            /\ Idle(ts, device[d], n)
      BY FinishedTaken
    <2> DEFINE done == SubSeq(ts, 1, n)
               rest == SubSeq(ts, n + 1, Len(ts))
    <2>2. /\ transfers'[d] = rest /\ device'[d] = device[d]
          /\ lane_pool'[d] = lane_pool[d] \o LanesOf(done)
          /\ buffer_pool'[d] = Recycled(d, buffer_pool[d], done)
      BY <2>1, ZenonT(60) DEF GetFinished
    <2>3. IsSeq(ts) /\ DirectionOK(ts, device[d], lane_pool[d], buffer_pool[d])
      BY DirectionIs DEF IInv
    <2>4. /\ Len(done) = n /\ BuffersApart(rest, buffer_pool[d])
          /\ DoneApart(done, rest, buffer_pool[d])
          /\ \A i \in DOMAIN device[d] : \E k \in DOMAIN rest : Serves(rest[k], device[d][i])
      BY <2>1, <2>3, PrefixTaken, ZenonT(60)
    <2>5. IsSeq(lane_pool[d] \o LanesOf(done)) /\ LanesApart(rest, lane_pool[d] \o LanesOf(done))
      BY <2>3, LanesReturned, ZenonT(60) DEF DirectionOK
    <2> HIDE DEF done, rest
    <2>6. Len(done) \in Nat
      BY <2>1, <2>3, <2>4, SeqIs, UpTo, ZenonT(60)
    <2> IsSeq(buffer_pool[d])
      BY <2>3, ZenonT(60) DEF DirectionOK
    <2>7. /\ IsSeq(Recycled(d, buffer_pool[d], done))
          /\ BuffersApart(rest, Recycled(d, buffer_pool[d], done))
      BY <2>4, <2>6, BuffersReturned, ZenonT(60)
    <2>8. DirectionOK(rest, device[d], lane_pool[d] \o LanesOf(done), Recycled(d, buffer_pool[d], done))
      BY <2>4, <2>5, <2>7, ZenonT(60) DEF DirectionOK
    <2> QED
      BY <2>2, <2>8, ZenonT(60)
  <1>2. /\ lane_pool' = [d \in Directions |-> lane_pool'[d]]
        /\ buffer_pool' = [d \in Directions |-> buffer_pool'[d]]
    BY ZenonT(60) DEF GetFinished
  <1> QED
    BY <1>1, <1>2, ZenonT(60) DEF ResourcesOK, Directions, DirectionOK, IsSeq, LanesApart, BuffersApart, IsBuffer,
       Serves, NoBuffer

\* One turn of the drain loop drops a transfer the device has let go of.
LEMMA DrainResources ==
  ASSUME IInv, ResourcesOK, NEW d \in Directions, Drain(d)
  PROVE  ResourcesOK'
  <1> DEFINE ts == transfers[d]
             rest == SubSeq(ts, 2, Len(ts))
  <1>1. IsSeq(ts) /\ DirectionOK(ts, device[d], lane_pool[d], buffer_pool[d])
    BY DirectionIs DEF IInv
  <1>2. ts # << >> /\ Complete(d, Head(ts)) /\ transfers' = [transfers EXCEPT ![d] = Tail(ts)]
    BY DEF Drain
  <1>3. Tail(ts) = rest /\ Head(ts) = ts[1] /\ 1 \in 0..Len(ts)
    <2>1. PICK S : ts \in Seq(S)
      BY <1>1 DEF IsSeq
    <2>2. Tail(ts) = rest
      BY <1>2, <2>1, HeadTailProperties, TailIsSubSeq
    <2>3. Head(ts) = ts[1] /\ 1 \in 0..Len(ts)
      BY <1>2, <2>1
    <2> QED
      BY <2>2, <2>3
  <1>4. Idle(ts, device[d], 1)
    <2>1. \A i \in 1..1 : i = 1
      OBVIOUS
    <2> QED
      BY <1>2, <1>3, <2>1 DEF Idle, Complete
  <1>5. /\ LanesApart(rest, lane_pool[d]) /\ BuffersApart(rest, buffer_pool[d])
        /\ \A i \in DOMAIN device[d] : \E k \in DOMAIN rest : Serves(rest[k], device[d][i])
    <2>1. 1 + 1 = 2
      OBVIOUS
    <2> QED
      BY <1>1, <1>3, <1>4, <2>1, PrefixTaken, ZenonT(60)
  <1> HIDE DEF rest
  <1>6. DirectionOK(rest, device[d], lane_pool[d], buffer_pool[d])
    BY <1>1, <1>5, ZenonT(60) DEF DirectionOK
  <1>7. /\ transfers' = [transfers EXCEPT ![d] = rest]
        /\ device' = [device EXCEPT ![d] = device[d]]
        /\ lane_pool' = [lane_pool EXCEPT ![d] = lane_pool[d]]
        /\ buffer_pool' = [buffer_pool EXCEPT ![d] = buffer_pool[d]]
    BY <1>2, <1>3, SameDirection, ZenonT(60) DEF Drain, IInv
  <1> QED
    BY <1>6, <1>7, OneDirection, ZenonT(60) DEF IInv

\* A step that leaves the transfers, the device and the pools alone, or empties the pools.
LEMMA PoolsUnchanged ==
  ASSUME QueuesOK, ResourcesOK, UNCHANGED <<transfers, device>>,
         \/ UNCHANGED <<lane_pool, buffer_pool>>
         \/ /\ lane_pool' = [d \in Directions |-> << >>]
            /\ buffer_pool' = [d \in Directions |-> << >>]
  PROVE  ResourcesOK'
  <1>1. CASE UNCHANGED <<lane_pool, buffer_pool>>
    <2>1. \A d \in Directions : DirectionOK(transfers'[d], device'[d], lane_pool'[d], buffer_pool'[d])
      BY <1>1, ZenonT(60) DEF ResourcesOK
    <2>2. /\ lane_pool' = [d \in Directions |-> lane_pool'[d]]
          /\ buffer_pool' = [d \in Directions |-> buffer_pool'[d]]
      BY <1>1, ZenonT(60) DEF ResourcesOK
    <2> QED
      BY <2>1, <2>2, ZenonT(60) DEF ResourcesOK, Directions, DirectionOK, IsSeq, LanesApart, BuffersApart,
         IsBuffer, Serves, NoBuffer
  <1>2. CASE /\ lane_pool' = [d \in Directions |-> << >>]
             /\ buffer_pool' = [d \in Directions |-> << >>]
    <2>1. ASSUME NEW d \in Directions
          PROVE  DirectionOK(transfers'[d], device'[d], << >>, << >>)
      <3>1. << >> \in Seq({}) /\ \A i \in 1..Len(<< >>) : FALSE
        OBVIOUS
      <3>2. IsSeq(<< >>)
        BY <3>1 DEF IsSeq
      <3>3. DirectionOK(transfers[d], device[d], lane_pool[d], buffer_pool[d])
        BY DEF ResourcesOK
      <3> QED
        BY <3>1, <3>2, <3>3, ZenonT(60) DEF DirectionOK, LanesApart, BuffersApart
    <2>2. \A d \in Directions : lane_pool'[d] = << >> /\ buffer_pool'[d] = << >>
      BY <1>2
    <2>3. \A d \in Directions : DirectionOK(transfers'[d], device'[d], lane_pool'[d], buffer_pool'[d])
      BY <2>1, <2>2
    <2>4. /\ lane_pool' = [d \in Directions |-> lane_pool'[d]]
          /\ buffer_pool' = [d \in Directions |-> buffer_pool'[d]]
      BY <1>2
    <2> QED
      BY <2>3, <2>4, ZenonT(60) DEF ResourcesOK, Directions, DirectionOK, IsSeq, LanesApart, BuffersApart,
         IsBuffer, Serves, NoBuffer
  <1> QED
    BY <1>1, <1>2

--------------------------------------------------------------------------------
\* A new handler has nothing on the device and empty pools.
LEMMA InitResources ==
  ASSUME OffloadInit
  PROVE  ResourcesOK
  <1>1. << >> \in Seq({}) /\ (\A i \in 1..Len(<< >>) : FALSE) /\ DOMAIN << >> = {}
    <2>1. << >> \in Seq({}) /\ Len(<< >>) = 0
      OBVIOUS
    <2> QED
      BY <2>1, LenProperties
  <1>2. DirectionOK(<< >>, << >>, << >>, << >>)
    BY <1>1 DEF DirectionOK, IsSeq, LanesApart, BuffersApart
  <1>3. \A d \in Directions : /\ transfers[d] = << >> /\ device[d] = << >>
                              /\ lane_pool[d] = << >> /\ buffer_pool[d] = << >>
    BY DEF OffloadInit
  <1>4. \A d \in Directions : DirectionOK(transfers[d], device[d], lane_pool[d], buffer_pool[d])
    BY <1>2, <1>3
  <1> QED
    BY <1>4 DEF OffloadInit, ResourcesOK

\* Every step of the handler, of the device and of other code keeps ResourcesOK.
LEMMA NextResources ==
  ASSUME IInv, ResourcesOK, [OffloadNext]_<<vars, handlerVars>>
  PROVE  ResourcesOK'
  <1>0. QueuesOK
    BY DEF IInv
  <1>1. ASSUME NEW d \in Directions, NEW n \in Sizes, Submit(d, n)
        PROVE  ResourcesOK'
    <2>1. n \in Nat
      BY OffloadAssumption
    <2> QED
      BY <1>0, <1>1, <2>1, TrackedResources, UndoneResources, RejectedResources DEF Submit
  <1>2. CASE GetFinished
    BY <1>2, GetFinishedResources
  <1>3. ASSUME NEW d \in Directions, Drain(d) \/ DeviceStep(d)
        PROVE  ResourcesOK'
    BY <1>0, <1>3, DrainResources, DeviceStepResources, ZenonT(60)
  <1>4. CASE AllocatePools \/ RegisterNext \/ RegisterRaises
    BY <1>0, <1>4, PoolsUnchanged DEF AllocatePools, RegisterNext, RegisterRaises, handlerVars
  <1>5. CASE StartShutdown \/ DrainRaises \/ StartClose
    BY <1>0, <1>5, PoolsUnchanged, ZenonT(60) DEF StartShutdown, DrainRaises, StartClose
  <1>6. CASE CloseFence \/ CloseReleases \/ CloseRaises \/ CloseEnds
    <2>1. /\ UNCHANGED <<transfers, device>>
          /\ \/ UNCHANGED <<lane_pool, buffer_pool>>
             \/ /\ lane_pool' = [d \in Directions |-> << >>]
                /\ buffer_pool' = [d \in Directions |-> << >>]
      BY <1>6 DEF CloseFence, CloseReleases, CloseRaises, CloseEnds, CloseUnchanged, handlerVars
    <2> QED
      BY <1>0, <2>1, PoolsUnchanged, ZenonT(60)
  <1>7. ASSUME NEW s \in Storages, Reallocate(s)
        PROVE  ResourcesOK'
    BY <1>0, <1>7, PoolsUnchanged DEF Reallocate, handlerVars
  <1>8. CASE UNCHANGED <<vars, handlerVars>>
    BY <1>0, <1>8, PoolsUnchanged DEF handlerVars
  <1> QED
    BY <1>1, <1>2, <1>3, <1>4, <1>5, <1>6, <1>7, <1>8, ZenonT(60) DEF OffloadNext

\* What the inductive invariant says of a direction is what the property asks.
LEMMA ResourcesKeep ==
  ASSUME QueuesOK, ResourcesOK
  PROVE  WorkKeepsItsBuffers
  <1> SUFFICES ASSUME NEW d \in Directions
               PROVE  /\ \A i \in DOMAIN device[d] : \E k \in DOMAIN transfers[d] :
                           Serves(transfers[d][k], device[d][i])
                      /\ \A i, k \in DOMAIN transfers[d] : i # k =>
                           /\ transfers[d][i].lane # transfers[d][k].lane
                           /\ \/ transfers[d][i].buffer.id # transfers[d][k].buffer.id
                              \/ transfers[d][i].buffer = NoBuffer
                      /\ \A i \in DOMAIN transfers[d] :
                           /\ transfers[d][i].lane \notin ToSet(lane_pool[d])
                           /\ \A k \in DOMAIN buffer_pool[d] :
                                transfers[d][i].buffer.id # buffer_pool[d][k].id
    BY ZenonT(60) DEF WorkKeepsItsBuffers, Serves
  <1> DEFINE ts == transfers[d]
             lanes == lane_pool[d]
             bufs == buffer_pool[d]
  <1>1. IsSeq(ts) /\ DirectionOK(ts, device[d], lanes, bufs)
    BY DirectionIs, ZenonT(60)
  <1>2. /\ DOMAIN ts = 1..Len(ts) /\ DOMAIN lanes = 1..Len(lanes) /\ DOMAIN bufs = 1..Len(bufs)
    BY <1>1, SeqIs, ZenonT(60) DEF DirectionOK
  <1>3. ToSet(lanes) = {lanes[i] : i \in DOMAIN lanes}
    BY ZenonT(60) DEF ToSet
  <1> HIDE DEF ts, lanes, bufs
  <1>4. \A i, k \in DOMAIN ts : i # k => ts[i].lane # ts[k].lane
    BY <1>1, <1>2, ZenonT(60) DEF DirectionOK, LanesApart
  <1>5. \A i, k \in DOMAIN ts : i # k => ts[i].buffer.id # ts[k].buffer.id \/ ts[i].buffer = NoBuffer
    BY <1>1, <1>2, ZenonT(60) DEF DirectionOK, BuffersApart
  <1>6. \A i \in DOMAIN ts : ts[i].lane \notin ToSet(lanes)
    BY <1>1, <1>2, <1>3, ZenonT(60) DEF DirectionOK, LanesApart
  <1>7. \A i \in DOMAIN ts, k \in DOMAIN bufs : ts[i].buffer.id # bufs[k].id
    BY <1>1, <1>2, ZenonT(60) DEF DirectionOK, BuffersApart
  <1>8. \A i \in DOMAIN device[d] : \E k \in DOMAIN ts : Serves(ts[k], device[d][i])
    BY <1>1 DEF DirectionOK
  <1> QED
    BY <1>4, <1>5, <1>6, <1>7, <1>8, ZenonT(60) DEF ts, lanes, bufs

\* Until the NPU has finished a submission the handler keeps its stream, its
\* events and its buffers in a tracked transfer of its own, and out of the
\* pools: for any number of jobs and pools, any block counts and cache sizes,
\* and every failure of submit_store, submit_load, get_finished and shutdown.
THEOREM WorkAlwaysKeepsItsBuffers == OffloadSpec => []WorkKeepsItsBuffers
  <1>1. OffloadInit => IInv /\ ResourcesOK
    BY InitIInv, InitResources
  <1>2. IInv /\ ResourcesOK /\ [OffloadNext]_<<vars, handlerVars>> => IInv' /\ ResourcesOK'
    BY NextIInv, NextResources
  <1>3. IInv /\ ResourcesOK => WorkKeepsItsBuffers
    BY ResourcesKeep DEF IInv
  <1> QED
    BY <1>1, <1>2, <1>3, PTL DEF OffloadSpec
================================================================================
