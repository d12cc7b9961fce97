--------------------------- MODULE PearlRoundsProofs ---------------------------
(***************************************************************************)
(* The linear PEARL loop is correct for every batch, window width, model,  *)
(* page size and scheduling mode: the two replicas run in lock step, the   *)
(* caches are fresh, no worker raises, and what a request shows is what    *)
(* target-only decoding could have produced.                               *)
(***************************************************************************)
EXTENDS PearlLoopProofs

USE SMTT(20), ZenonT(60)

------------------------------------------------------------------------------
(* The inductive invariant.                                                *)

\* The replica a side has, or will have, after its loop top.
AtTop(s) == IF pc[s] = "loop" THEN LoopTop(replica[s]) ELSE replica[s]

\* Both replicas reach the same state at each loop top; while a verdict is under
\* way the target is one transition ahead.
LockStep ==
    /\ verdict = <<>> => AtTop("draft") = AtTop("target")
    /\ verdict # <<>> => /\ pc["draft"] = "exchange"
                         /\ AtTop("target") = LoopTop(Applied(replica["draft"], verdict, drafted))
                         /\ Len(verdict) = Len(replica["draft"].rows)
                         /\ proposal = <<>>
                         /\ \A i \in 1..Len(replica["draft"].rows) :
                               Justified(RowState(replica["draft"], i), drafted[i], verdict[i])
    /\ proposal # <<>> =>
          /\ pc["draft"] = "exchange"
          /\ proposal = [i \in 1..Len(replica["draft"].rows) |->
                [verify |-> VerificationWindow(RowState(replica["draft"], i), drafted[i]),
                 next |-> drafted[i]]]

SideOK(s) ==
    /\ pc[s] \in {"loop", "forward", "exchange", "done", "overflow"}
    /\ ReplicaOK(replica[s])
    /\ pc[s] # "loop" => Topped(replica[s])
    /\ pc[s] = "done" => replica[s].rows = <<>>

CacheOK(s) ==
    /\ kv[s] \in [Request -> Cache]
    /\ \A r \in Request :
          LET st == Restored(replica[s])[r]
          IN  FreshTo(kv[s][r], st.tokens, Len(st.tokens) - Rewritten(s, st))

\* What the draft's forwards left behind.
DraftRan ==
    pc["draft"] = "exchange" =>
        /\ drafted \in [1..Len(replica["draft"].rows) -> [1..Gamma -> Token]]
        /\ \A i \in 1..Len(replica["draft"].rows) :
              LET st == RowState(replica["draft"], i)
              IN  FreshTo(kv["draft"][replica["draft"].rows[i]], st.tokens \o drafted[i],
                          Len(st.tokens) + Gamma - 1)

\* What the target's forward left behind.
TargetRan ==
    pc["target"] = "exchange" =>
        \A i \in 1..Len(replica["target"].rows) :
           LET st == RowState(replica["target"], i)
           IN  /\ FreshTo(kv["target"][replica["target"].rows[i]], st.tokens, Len(st.tokens))
               /\ predictions[i] = TargetOutputs(st)
               /\ SupportsOK(predictions[i], Size(st))
               /\ TargetSays(st, predictions[i])

Shape ==
    /\ pc = [s \in Side |-> pc[s]]
    /\ replica = [s \in Side |-> replica[s]]
    /\ kv = [s \in Side |-> kv[s]]

IInv ==
    /\ Shape
    /\ \A s \in Side : SideOK(s) /\ CacheOK(s)
    /\ LockStep
    /\ DraftRan
    /\ TargetRan

------------------------------------------------------------------------------
(* The invariant is inductive.                                             *)

\* The first batch.
LEMMA FirstBatch ==
  ASSUME NEW rep, rep.completed = [r \in {} |-> 0], rep.next = InitialBatchSize,
         rep.active = SubSeq(AllRequests, 1, InitialBatchSize)
  PROVE  QueueOK(rep) /\ rep.active \in Seq(Request) /\ rep.next \in Nat
         /\ DOMAIN rep.completed = {}
  <1> DEFINE I == InitialBatchSize
  <1>1. I \in Nat /\ I <= NumRequests /\ 1 <= I /\ NumRequests \in Nat /\ I \in Int /\ 1 \in Int
        /\ I \in I..NumRequests
    BY BatchSizes
  <1>2. DOMAIN rep.completed = {}
    OBVIOUS
  <1> HIDE DEF I
  <1>3. \A i \in 1..I : AllRequests[i] \in Request /\ AllRequests[i] = i - 1
    BY <1>1, AllRequestsIs DEF Request
  <1>4. /\ rep.active \in Seq(Request) /\ Len(rep.active) = I
        /\ \A i \in 1..I : rep.active[i] = i - 1
    <2>1. /\ rep.active \in Seq(Request)
          /\ Len(rep.active) = (IF 1 <= I THEN I - 1 + 1 ELSE 0)
          /\ \A i \in 1..(I - 1 + 1) : rep.active[i] = AllRequests[1 + i - 1]
      <3>1. rep.active = SubSeq(AllRequests, 1, I)
        BY DEF I
      <3>2. 1 \in Int /\ I \in Int /\ \A i \in 1..I : AllRequests[i] \in Request
        BY <1>1, <1>3
      <3> DEFINE q == SubSeq(AllRequests, 1, I)
      <3>3. /\ q \in Seq(Request)
            /\ Len(q) = (IF 1 <= I THEN I - 1 + 1 ELSE 0)
            /\ \A i \in 1..(I - 1 + 1) : q[i] = AllRequests[1 + i - 1]
        BY <3>2, SubSeqProperties
      <3> QED
        BY <3>1, <3>3, ZenonT(60)
    <2> QED
      BY <1>1, <1>3, <2>1
  <1>5. Distinct(rep.active)
    <2>1. \A i, j \in 1..I : i - 1 = j - 1 => i = j
      BY <1>1
    <2> QED
      BY <1>4, <2>1 DEF Distinct
  <1>6. Members(rep.active) = 0..(I - 1)
    <2>1. \A i \in 1..I : i - 1 \in 0..(I - 1)
      BY <1>1
    <2>2. \A x \in 0..(I - 1) : x + 1 \in 1..I /\ (x + 1) - 1 = x
      BY <1>1
    <2>3. Members(rep.active) \subseteq 0..(I - 1)
      BY <1>4, <2>1 DEF Members
    <2>4. 0..(I - 1) \subseteq Members(rep.active)
      BY <1>4, <2>2 DEF Members
    <2> QED
      BY <2>3, <2>4, ZenonT(60)
  <1>7. rep.next = I
    BY DEF I
  <1>8. QueueOK(rep)
    BY <1>1, <1>2, <1>4, <1>5, <1>6, <1>7 DEF QueueOK, I
  <1> QED
    BY <1>1, <1>2, <1>4, <1>7, <1>8

\* Prefill establishes the invariant.
LEMMA InitOK == Init => IInv
  <1> SUFFICES ASSUME Init PROVE IInv
    OBVIOUS
  <1>1. PICK first \in [Request -> Token], captured \in BOOLEAN :
        /\ \A r \in Request : first[r] \in FirstTokens(r)
        /\ pc = [s \in Side |-> "loop"]
        /\ replica = [s \in Side |->
              [ states |-> [r \in Request |-> PrefilledState(Prompt[r], first[r])],
                completed |-> [r \in {} |-> 0],
                active |-> SubSeq(AllRequests, 1, InitialBatchSize),
                next |-> InitialBatchSize, rows |-> <<>> ]]
        /\ kv = [s \in Side |-> [r \in Request |->
                    PrefilledCache(r, first[r], captured /\ s = "target" /\ r < InitialBatchSize)]]
        /\ proposal = <<>> /\ verdict = <<>>
    BY ZenonT(60) DEF Init
  <1> DEFINE rep == [ states |-> [r \in Request |-> PrefilledState(Prompt[r], first[r])],
                      completed |-> [r \in {} |-> 0],
                      active |-> SubSeq(AllRequests, 1, InitialBatchSize),
                      next |-> InitialBatchSize, rows |-> <<>> ]
  <1>2. \A s \in Side : replica[s] = rep /\ pc[s] = "loop"
    BY <1>1, ZenonT(60)
  <1>3. /\ rep.states = [r \in Request |-> PrefilledState(Prompt[r], first[r])]
        /\ rep.completed = [r \in {} |-> 0] /\ rep.next = InitialBatchSize
        /\ rep.active = SubSeq(AllRequests, 1, InitialBatchSize) /\ rep.rows = <<>>
        /\ rep = [ states |-> rep.states, completed |-> rep.completed, active |-> rep.active,
                   next |-> rep.next, rows |-> rep.rows ]
    BY ZenonT(60)
  <1> HIDE DEF rep
  <1>4. \A r \in Request : rep.states[r] = PrefilledState(Prompt[r], first[r]) /\ Sound(rep.states[r], r)
    BY <1>1, <1>3, PrefillSound
  <1>5. QueueOK(rep) /\ rep.active \in Seq(Request) /\ rep.next \in Nat /\ DOMAIN rep.completed = {}
    BY <1>3, FirstBatch
  <1>6. ReplicaOK(rep)
    <2>1. rep.states \in [Request -> PipelineState]
      BY <1>3, <1>4 DEF Sound
    <2>2. IsReplica(rep)
      BY <1>3, <1>5, <2>1 DEF IsReplica
    <2> QED
      BY <1>4, <1>5, <2>2 DEF ReplicaOK
  <1>7. \A s \in Side : SideOK(s)
    BY <1>2, <1>6 DEF SideOK
  <1>8. ASSUME NEW s \in Side PROVE CacheOK(s)
    <2>1. ASSUME NEW r \in Request
          PROVE  /\ kv[s][r] \in Cache /\ Restored(replica[s])[r] = rep.states[r]
                 /\ FreshTo(kv[s][r], rep.states[r].tokens,
                            Len(rep.states[r].tokens) - Rewritten(s, rep.states[r]))
      <3> DEFINE st == rep.states[r]
                 cap == captured /\ s = "target" /\ r < InitialBatchSize
                 cache == kv[s][r]
      <3>1. cache = PrefilledCache(r, first[r], cap) /\ st = PrefilledState(Prompt[r], first[r])
            /\ first[r] \in FirstTokens(r)
        BY <1>1, <1>4
      <3>2. cap \in BOOLEAN
        OBVIOUS
      <3> HIDE DEF st, cap, cache
      <3>3. cache \in Cache /\ FreshTo(cache, st.tokens, Len(st.tokens) - 1)
            /\ FreshTo(cache, st.tokens, Len(st.tokens) - Size(st))
        BY <3>1, <3>2, PrefillFresh
      <3>4. Restored(replica[s])[r] = st
        BY <1>2, <1>5 DEF Restored, st
      <3> QED
        BY <3>3, <3>4 DEF Rewritten, st, cache
    <2>2. kv[s] = [r \in Request |-> kv[s][r]]
      BY <1>1
    <2>3. kv[s] \in [Request -> Cache]
      BY <2>1, <2>2
    <2> QED
      BY <2>1, <2>3 DEF CacheOK
  <1>9. LockStep
    <2>1. AtTop("draft") = AtTop("target")
      BY <1>2 DEF AtTop, Side
    <2> QED
      BY <1>1, <2>1 DEF LockStep
  <1>10. DraftRan /\ TargetRan
    BY <1>2 DEF DraftRan, TargetRan, Side
  <1>11. Shape
    BY <1>1 DEF Shape
  <1> QED
    BY <1>7, <1>8, <1>9, <1>10, <1>11, ZenonT(60) DEF IInv

\* The loop top of either side.
LEMMA ScheduleOK ==
  ASSUME IInv, NEW s \in Side, Schedule(s)
  PROVE  IInv'
  <1> DEFINE new == LoopTop(replica[s])
  <1>1. /\ Shape /\ LockStep /\ DraftRan /\ TargetRan
        /\ \A x \in Side : SideOK(x) /\ CacheOK(x)
    BY DEF IInv
  <1>2. TopOf(replica[s], new)
    BY <1>1, LoopTopOK DEF SideOK
  <1>3. /\ ReplicaOK(new) /\ Topped(new) /\ TailBucketFilled(new)
        /\ Restored(new) = Restored(replica[s])
    BY <1>2 DEF TopOf
  <1>4. /\ pc[s] = "loop"
        /\ replica' = [replica EXCEPT ![s] = new]
        /\ pc' = [pc EXCEPT ![s] = IF ~TailBucketFilled(new) THEN "raised"
                                   ELSE IF new.rows = <<>> THEN "done" ELSE "forward"]
        /\ kv' = kv /\ predictions' = predictions /\ proposal' = proposal
        /\ verdict' = verdict /\ drafted' = drafted
    BY ZenonT(60) DEF Schedule, LoopTop
  <1> HIDE DEF new
  <1>5. /\ replica'[s] = new /\ pc'[s] \in {"done", "forward"} /\ (pc'[s] = "done" => new.rows = <<>>)
        /\ \A x \in Side \ {s} : replica'[x] = replica[x] /\ pc'[x] = pc[x]
    BY <1>1, <1>3, <1>4 DEF Shape
  <1>6. Shape'
    BY <1>1, <1>4, ZenonT(60) DEF Shape
  <1>7. ASSUME NEW x \in Side PROVE SideOK(x)' /\ CacheOK(x)'
    <2>1. CASE x = s
      <3>1. SideOK(x)'
        BY <1>3, <1>5, <2>1, ZenonT(60) DEF SideOK
      <3>2. CacheOK(x)'
        BY <1>1, <1>3, <1>4, <1>5, <2>1, ZenonT(60) DEF CacheOK
      <3> QED
        BY <3>1, <3>2
    <2>2. CASE x # s
      <3>1. replica'[x] = replica[x] /\ pc'[x] = pc[x] /\ kv'[x] = kv[x]
        BY <1>4, <1>5, <2>2
      <3> QED
        BY <1>1, <3>1, ZenonT(60) DEF SideOK, CacheOK
    <2> QED
      BY <2>1, <2>2
  <1>8. ASSUME NEW x \in Side PROVE AtTop(x)' = AtTop(x)
    <2>1. CASE x = s
      BY <1>4, <1>5, <2>1 DEF AtTop, new
    <2>2. CASE x # s
      BY <1>5, <2>2 DEF AtTop
    <2> QED
      BY <2>1, <2>2
  <1>9. LockStep'
    <2>1. AtTop("draft")' = AtTop("draft") /\ AtTop("target")' = AtTop("target")
      BY <1>8 DEF Side
    <2>2. CASE s = "draft"
      <3>1. verdict = <<>> /\ proposal = <<>>
        BY <1>1, <1>4, <2>2 DEF LockStep
      <3>2. verdict' = <<>> /\ proposal' = <<>> /\ AtTop("draft") = AtTop("target")
        BY <1>1, <1>4, <3>1, ZenonT(60) DEF LockStep
      <3> QED
        BY <2>1, <3>2 DEF LockStep
    <2>3. CASE s = "target"
      <3>1. replica'["draft"] = replica["draft"] /\ pc'["draft"] = pc["draft"]
        BY <1>5, <2>3 DEF Side
      <3> QED
        BY <1>1, <1>4, <2>1, <3>1 DEF LockStep
    <2> QED
      BY <2>2, <2>3 DEF Side
  <1>10. DraftRan'
    <2>1. CASE s = "draft"
      BY <1>5, <2>1 DEF DraftRan
    <2>2. CASE s # "draft"
      <3>1. replica'["draft"] = replica["draft"] /\ pc'["draft"] = pc["draft"]
        BY <1>5, <2>2 DEF Side
      <3> QED
        BY <1>1, <1>4, <3>1 DEF DraftRan
    <2> QED
      BY <2>1, <2>2
  <1>11. TargetRan'
    <2>1. CASE s = "target"
      BY <1>5, <2>1, ZenonT(60) DEF TargetRan
    <2>2. CASE s # "target"
      <3>1. replica'["target"] = replica["target"] /\ pc'["target"] = pc["target"]
        BY <1>5, <2>2 DEF Side
      <3> QED
        BY <1>1, <1>4, <3>1 DEF TargetRan
    <2> QED
      BY <2>1, <2>2
  <1> QED
    BY <1>6, <1>7, <1>9, <1>10, <1>11, ZenonT(60) DEF IInv

\* Past the loop top the live states are the results.
LEMMA ToppedRestored ==
  ASSUME NEW rep, Topped(rep)
  PROVE  \A r \in Request : Restored(rep)[r] = rep.states[r]
  BY DEF Topped, Restored

\* A forward that runs off the page table.
LEMMA OverflowOK ==
  ASSUME IInv, NEW s \in Side, pc[s] = "forward", Raise(s, "overflow")
  PROVE  IInv'
  <1>1. /\ Shape /\ LockStep /\ DraftRan /\ TargetRan
        /\ \A x \in Side : SideOK(x) /\ CacheOK(x)
    BY DEF IInv
  <1>2. /\ pc' = [pc EXCEPT ![s] = "overflow"]
        /\ replica' = replica /\ kv' = kv /\ predictions' = predictions
        /\ proposal' = proposal /\ verdict' = verdict /\ drafted' = drafted
    BY DEF Raise
  <1>3. pc'[s] = "overflow" /\ \A x \in Side \ {s} : pc'[x] = pc[x]
    BY <1>1, <1>2 DEF Shape
  <1>4. Shape'
    BY <1>1, <1>2 DEF Shape
  <1>5. ASSUME NEW x \in Side PROVE SideOK(x)' /\ CacheOK(x)' /\ AtTop(x)' = AtTop(x)
    <2>1. CASE x = s
      BY <1>1, <1>2, <1>3, <2>1 DEF SideOK, CacheOK, AtTop
    <2>2. CASE x # s
      <3>1. pc'[x] = pc[x]
        BY <1>3, <2>2
      <3> QED
        BY <1>1, <1>2, <3>1 DEF SideOK, CacheOK, AtTop
    <2> QED
      BY <2>1, <2>2
  <1>6. LockStep'
    <2>1. AtTop("draft")' = AtTop("draft") /\ AtTop("target")' = AtTop("target")
      BY <1>5 DEF Side
    <2>2. pc["draft"] = "exchange" => pc'["draft"] = "exchange"
      BY <1>3 DEF Side
    <2> QED
      BY <1>1, <1>2, <2>1, <2>2 DEF LockStep
  <1>7. DraftRan' /\ TargetRan'
    <2>1. pc'["draft"] = "exchange" => pc["draft"] = "exchange"
      BY <1>3 DEF Side
    <2>2. pc'["target"] = "exchange" => pc["target"] = "exchange"
      BY <1>3 DEF Side
    <2> QED
      BY <1>1, <1>2, <2>1, <2>2, ZenonT(60) DEF DraftRan, TargetRan
  <1> QED
    BY <1>4, <1>5, <1>6, <1>7 DEF IInv

\* The draft's forwards.
LEMMA DraftForwardOK ==
  ASSUME IInv, DraftForward
  PROVE  IInv'
  <1> DEFINE rep == replica["draft"]
             rows == 1..Len(rep.rows)
             state(i) == rep.states[rep.rows[i]]
             over == \E i \in rows : DraftLastPosition(state(i), Gamma) > Capacity
  <1>1. /\ Shape /\ LockStep /\ DraftRan /\ TargetRan
        /\ \A x \in Side : SideOK(x) /\ CacheOK(x)
        /\ "draft" \in Side /\ "target" \in Side
    BY ZenonT(60) DEF IInv, Side
  <1>2. pc["draft"] = "forward"
    BY DEF DraftForward
  <1>3. CASE over
    <2>1. Raise("draft", "overflow")
      BY <1>3 DEF DraftForward
    <2> QED
      BY <1>1, <1>2, <2>1, OverflowOK, ZenonT(60)
  <1>4. CASE ~over
    <2>1. PICK windows \in [rows -> [1..Gamma -> Token]] :
             /\ drafted' = windows
             /\ proposal' = [i \in rows |->
                   [verify |-> VerificationWindow(state(i), windows[i]), next |-> windows[i]]]
             /\ kv' = [kv EXCEPT !["draft"] = [r \in Request |->
                   FedCache(rep, @[r], r, [i \in rows |-> Len(state(i).tokens)],
                            [i \in rows |-> DraftFeed(state(i), windows[i])])]]
      BY <1>4, ZenonT(60) DEF DraftForward
    <2>2. pc' = [pc EXCEPT !["draft"] = "exchange"] /\ replica' = replica
          /\ predictions' = predictions /\ verdict' = verdict
      BY <1>4, ZenonT(60) DEF DraftForward
    <2>3. /\ pc'["draft"] = "exchange" /\ pc'["target"] = pc["target"] /\ kv'["target"] = kv["target"]
          /\ Shape'
      <3>1. pc'["draft"] = "exchange" /\ pc'["target"] = pc["target"]
        BY <1>1, <2>2 DEF Shape
      <3>2. kv'["target"] = kv["target"]
        BY <1>1, <2>1 DEF Shape
      <3>3. Shape'
        BY <1>1, <2>1, <2>2, ZenonT(60) DEF Shape
      <3> QED
        BY <3>1, <3>2, <3>3
    <2> DEFINE old == kv["draft"]
               starts == [i \in rows |-> Len(state(i).tokens)]
               feeds == [i \in rows |-> DraftFeed(state(i), windows[i])]
               new == kv'["draft"]
    <2>4. new = [r \in Request |-> FedCache(rep, old[r], r, starts, feeds)]
      BY <1>1, <2>1 DEF Shape
    <2>5. ReplicaOK(rep) /\ Topped(rep) /\ old \in [Request -> Cache]
      BY <1>1, <1>2 DEF SideOK, CacheOK
    <2>6. \A r \in Request : Restored(rep)[r] = rep.states[r]
      BY <2>5, ToppedRestored
    <2>7. \A r \in Request : FreshTo(old[r], rep.states[r].tokens, Len(rep.states[r].tokens) - 1)
      BY <1>1, <2>6, ZenonT(60) DEF CacheOK, Rewritten
    <2>8. \A i \in rows : ~(DraftLastPosition(RowState(rep, i), Gamma) > Capacity)
      BY <1>4 DEF RowState
    <2>9. \A i \in rows : starts[i] = Len(RowState(rep, i).tokens)
      BY DEF RowState
    <2>10. \A i \in rows : feeds[i] = DraftFeed(RowState(rep, i), windows[i])
      BY DEF RowState
    <2> HIDE DEF starts, feeds, old, new
    <2>11. /\ new \in [Request -> Cache]
           /\ \A r \in Request : FreshTo(new[r], rep.states[r].tokens, Len(rep.states[r].tokens) - 1)
           /\ \A i \in rows : FreshTo(new[rep.rows[i]], RowState(rep, i).tokens \o windows[i],
                                      Len(RowState(rep, i).tokens) + Gamma - 1)
      <3>1. windows \in [1..Len(rep.rows) -> [1..Gamma -> Token]]
        BY <2>1
      <3>2. DraftFedAll(rep, old, windows, starts, feeds, new)
        BY <2>4, <2>8, <2>9, <2>10, <3>1, ZenonT(60) DEF DraftFedAll
      <3> HIDE DEF rep, over
      <3>3. DraftCaches(rep, windows, new)
        BY <2>5, <2>7, <3>2, DraftForwardCaches, ZenonT(60)
      <3> QED
        BY <3>3 DEF DraftCaches, rep
    <2>12. SideOK("draft")' /\ SideOK("target")'
      BY <1>1, <1>2, <2>2, <2>3 DEF SideOK
    <2>13. CacheOK("draft")'
      BY <2>2, <2>6, <2>11, ZenonT(60) DEF CacheOK, Rewritten, new
    <2>14. CacheOK("target")'
      BY <1>1, <2>2, <2>3 DEF CacheOK
    <2>15. DraftRan'
      BY <2>1, <2>2, <2>11, ZenonT(60) DEF DraftRan, new
    <2>16. TargetRan'
      BY <1>1, <2>2, <2>3, ZenonT(60) DEF TargetRan
    <2>17. LockStep'
      <3>1. verdict = <<>> /\ AtTop("draft") = AtTop("target")
        BY <1>1, <1>2 DEF LockStep
      <3>2. AtTop("draft")' = AtTop("draft") /\ AtTop("target")' = AtTop("target")
        BY <1>2, <2>2, <2>3, ZenonT(60) DEF AtTop
      <3>3. proposal' = [i \in 1..Len(replica'["draft"].rows) |->
               [verify |-> VerificationWindow(RowState(replica'["draft"], i), drafted'[i]),
                next |-> drafted'[i]]]
        BY <2>1, <2>2 DEF RowState
      <3> QED
        BY <2>2, <2>3, <3>1, <3>2, <3>3, ZenonT(60) DEF LockStep
    <2> QED
      BY <2>3, <2>12, <2>13, <2>14, <2>15, <2>16, <2>17, ZenonT(60) DEF IInv, Side
  <1> QED
    BY <1>3, <1>4

\* The target's forward.
LEMMA TargetForwardOK ==
  ASSUME IInv, TargetForward
  PROVE  IInv'
  <1> DEFINE rep == replica["target"]
             rows == 1..Len(rep.rows)
             state(i) == rep.states[rep.rows[i]]
             start(i) == TargetStart(state(i), RowSize(rep, i))
             widths == ModelWidths(RowSizes(rep))
             over == \E i \in rows : start(i) + widths[i] - 1 > Capacity
  <1>1. /\ Shape /\ LockStep /\ DraftRan /\ TargetRan
        /\ \A x \in Side : SideOK(x) /\ CacheOK(x)
        /\ "draft" \in Side /\ "target" \in Side
    BY DEF IInv, Side
  <1>2. pc["target"] = "forward"
    BY ZenonT(60) DEF TargetForward
  <1>3. CASE over
    <2>1. Raise("target", "overflow")
      BY <1>3, ZenonT(60) DEF TargetForward
    <2> QED
      BY <1>1, <1>2, <2>1, OverflowOK, ZenonT(60)
  <1>4. CASE ~over
    <2> DEFINE old == kv["target"]
               starts == [i \in rows |-> start(i)]
               feeds == [i \in rows |-> TargetFeed(state(i), RowSize(rep, i), widths[i])]
               new == kv'["target"]
    <2>1. /\ kv' = [kv EXCEPT !["target"] = [r \in Request |->
                    FedCache(rep, @[r], r, starts, feeds)]]
          /\ predictions' = [i \in rows |->
                    Predictions(kv'["target"][rep.rows[i]], state(i), RowSize(rep, i))]
      BY <1>4, ZenonT(60) DEF TargetForward
    <2>2. pc' = [pc EXCEPT !["target"] = "exchange"] /\ replica' = replica
          /\ proposal' = proposal /\ verdict' = verdict /\ drafted' = drafted
      BY <1>4, ZenonT(60) DEF TargetForward
    <2>3. /\ pc'["target"] = "exchange" /\ pc'["draft"] = pc["draft"] /\ kv'["draft"] = kv["draft"]
          /\ Shape'
      <3>1. pc'["target"] = "exchange" /\ pc'["draft"] = pc["draft"]
        BY <1>1, <2>2, ZenonT(60) DEF Shape
      <3>2. kv'["draft"] = kv["draft"]
        BY <1>1, <2>1 DEF Shape
      <3>3. Shape'
        BY <1>1, <2>1, <2>2, ZenonT(60) DEF Shape
      <3> QED
        BY <3>1, <3>2, <3>3
    <2>4. new = [r \in Request |-> FedCache(rep, old[r], r, starts, feeds)]
      BY <1>1, <2>1 DEF Shape
    <2>5. ReplicaOK(rep) /\ Topped(rep) /\ old \in [Request -> Cache]
      BY <1>1, <1>2, ZenonT(60) DEF SideOK, CacheOK
    <2>6. \A r \in Request : Restored(rep)[r] = rep.states[r]
      BY <2>5, ToppedRestored
    <2>7. \A r \in Request : FreshTo(old[r], rep.states[r].tokens,
                                     Len(rep.states[r].tokens) - Size(rep.states[r]))
      BY <1>1, <2>6, ZenonT(60) DEF CacheOK, Rewritten
    <2>8. TargetFedAll(rep, old, widths, starts, feeds, new)
      BY <1>4, <2>4, ZenonT(60) DEF RowState, TargetFedAll
    <2>9. TargetCaches(rep, new)
      <3> HIDE DEF starts, feeds, old, new, rep, widths, over
      <3> QED
        BY <2>5, <2>7, <2>8, TargetForwardCaches, ZenonT(60)
    <2>10. /\ new \in [Request -> Cache]
           /\ \A r \in Request : FreshTo(new[r], rep.states[r].tokens,
                                         Len(rep.states[r].tokens) - Size(rep.states[r]))
      BY <2>9 DEF TargetCaches
    <2>11. SideOK("draft")' /\ SideOK("target")'
      BY <1>1, <1>2, <2>2, <2>3, ZenonT(60) DEF SideOK
    <2>12. CacheOK("target")'
      BY <2>2, <2>6, <2>10, ZenonT(60) DEF CacheOK, Rewritten
    <2>13. CacheOK("draft")'
      BY <1>1, <2>2, <2>3 DEF CacheOK
    <2>14. DraftRan'
      BY <1>1, <2>2, <2>3, ZenonT(60) DEF DraftRan
    <2>15. TargetRan'
      <3> SUFFICES ASSUME NEW i \in rows
                   PROVE  /\ FreshTo(new[rep.rows[i]], RowState(rep, i).tokens, Len(RowState(rep, i).tokens))
                          /\ ForwardSays(RowState(rep, i), predictions'[i])
        BY <2>2, ZenonT(60) DEF TargetRan, ForwardSays, RowState
      <3>1. /\ FreshTo(new[rep.rows[i]], RowState(rep, i).tokens, Len(RowState(rep, i).tokens))
            /\ Len(RowState(rep, i).tokens) <= Capacity
        BY <2>9 DEF TargetCaches
      <3>2. rep.rows[i] \in Request /\ Sound(RowState(rep, i), rep.rows[i])
        BY <2>5, RowsSound
      <3>3. new[rep.rows[i]] \in Cache
        BY <2>10, <3>2
      <3>4. predictions'[i] = Predictions(new[rep.rows[i]], RowState(rep, i), Size(RowState(rep, i)))
        BY <2>1, ZenonT(60) DEF RowState, RowSize, Size
      <3>5. ForwardSays(RowState(rep, i), Predictions(new[rep.rows[i]], RowState(rep, i), Size(RowState(rep, i))))
        BY <3>1, <3>2, <3>3, OutputsAre, ZenonT(60)
      <3> QED
        BY <3>1, <3>4, <3>5
    <2>16. LockStep'
      <3>1. AtTop("draft")' = AtTop("draft") /\ AtTop("target")' = AtTop("target")
        BY <1>2, <2>2, <2>3 DEF AtTop
      <3> QED
        BY <1>1, <2>2, <2>3, <3>1, ZenonT(60) DEF LockStep
    <2> QED
      BY <2>3, <2>11, <2>12, <2>13, <2>14, <2>15, <2>16, ZenonT(60) DEF IInv, Side
  <1> QED
    BY <1>3, <1>4

\* The target meets a proposal in the state it was made for, and every window
\* has the width the target verifies.
LEMMA ProposalFits ==
  ASSUME IInv, pc["target"] = "exchange", proposal # <<>>
  PROVE  LET rep == replica["target"]
         IN  /\ verdict = <<>> /\ pc["draft"] = "exchange"
             /\ replica["draft"] = rep /\ rep.rows # <<>>
             /\ drafted \in [1..Len(rep.rows) -> [1..Gamma -> Token]]
             /\ Len(proposal) = Len(rep.rows)
             /\ \A i \in 1..Len(rep.rows) :
                   /\ proposal[i].verify = VerificationWindow(RowState(rep, i), drafted[i])
                   /\ proposal[i].next = drafted[i]
                   /\ proposal[i].verify \in Seq(Token)
                   /\ Len(proposal[i].verify) = Size(RowState(rep, i))
  <1> DEFINE rep == replica["target"]
  <1>1. /\ Shape /\ LockStep /\ DraftRan /\ SideOK("target")
    BY DEF IInv, Side
  <1>2. verdict = <<>> /\ pc["draft"] = "exchange"
    BY <1>1 DEF LockStep
  <1>3. replica["draft"] = rep
    BY <1>1, <1>2 DEF LockStep, AtTop
  <1>4. ReplicaOK(rep) /\ Topped(rep)
    BY <1>1 DEF SideOK
  <1>5. proposal = [i \in 1..Len(rep.rows) |->
                [verify |-> VerificationWindow(RowState(rep, i), drafted[i]), next |-> drafted[i]]]
    BY <1>1, <1>3 DEF LockStep
  <1>6. drafted \in [1..Len(rep.rows) -> [1..Gamma -> Token]]
    BY <1>1, <1>2, <1>3 DEF DraftRan
  <1>7. rep.rows \in Seq(Request) /\ Len(rep.rows) \in Nat
    <2> HIDE DEF rep
    <2> QED
      BY <1>4, ReplicaIs
  <1> HIDE DEF rep
  <1>8. Len(proposal) = Len(rep.rows)
    BY <1>5, <1>7
  <1>9. rep.rows # <<>>
    <2> SUFFICES ASSUME rep.rows = <<>> PROVE FALSE
      OBVIOUS
    <2>1. Len(rep.rows) = 0
      OBVIOUS
    <2>2. 1..0 = {}
      OBVIOUS
    <2>3. proposal = [i \in {} |->
                [verify |-> VerificationWindow(RowState(rep, i), drafted[i]), next |-> drafted[i]]]
      BY <1>5, <2>1, <2>2
    <2>4. proposal \in Seq({}) /\ Len(proposal) = 0
      BY <2>2, <2>3, <2>1, <1>8
    <2> QED
      BY <2>4
  <1>10. ASSUME NEW i \in 1..Len(rep.rows)
         PROVE  /\ proposal[i].verify = VerificationWindow(RowState(rep, i), drafted[i])
                /\ proposal[i].next = drafted[i]
                /\ proposal[i].verify \in Seq(Token)
                /\ Len(proposal[i].verify) = Size(RowState(rep, i))
    <2>1. /\ proposal[i].verify = VerificationWindow(RowState(rep, i), drafted[i])
          /\ proposal[i].next = drafted[i]
      BY <1>5
    <2>2. rep.rows[i] \in Request /\ Sound(RowState(rep, i), rep.rows[i])
      BY <1>4, RowsSound
    <2>3. drafted[i] \in [1..Gamma -> Token]
      BY <1>6
    <2>4. drafted[i] \in Seq(Token) /\ Len(drafted[i]) \in 1..Gamma
      BY <2>3, WindowIsSeq
    <2>5. /\ VerificationWindow(RowState(rep, i), drafted[i]) \in Seq(Token)
          /\ Len(VerificationWindow(RowState(rep, i), drafted[i])) = Size(RowState(rep, i))
      BY <2>2, <2>4, WindowIsTail
    <2> QED
      BY <2>1, <2>5
  <1> QED
    BY <1>2, <1>3, <1>6, <1>8, <1>9, <1>10, ZenonT(60) DEF rep

\* The target's round: both sides in step, every verdict justified.
Verified ==
    LET rep == replica["target"]
    IN  /\ verdict = <<>> /\ pc["draft"] = "exchange" /\ replica["draft"] = rep
        /\ drafted \in [1..Len(rep.rows) -> [1..Gamma -> Token]]
        /\ verdict' # <<>> /\ Len(verdict') = Len(rep.rows)
        /\ \A i \in 1..Len(rep.rows) : Justified(RowState(rep, i), drafted[i], verdict'[i])
        /\ replica' = [replica EXCEPT !["target"] = Applied(rep, verdict', drafted)]
        /\ pc' = [pc EXCEPT !["target"] = "loop"]
        /\ proposal' = <<>> /\ kv' = kv /\ drafted' = drafted

\* TargetVerify applies justified verdicts to the state the windows were made for.
LEMMA TargetVerifyIs ==
  ASSUME IInv, TargetVerify
  PROVE  Verified
  <1> DEFINE rep == replica["target"]
             rows == 1..Len(rep.rows)
             row(r) == CHOOSE i \in rows : rep.rows[i] = r
  <1>1. pc["target"] = "exchange" /\ proposal # <<>>
    BY DEF TargetVerify
  <1>2. /\ verdict = <<>> /\ pc["draft"] = "exchange"
        /\ replica["draft"] = rep /\ rep.rows # <<>>
        /\ drafted \in [rows -> [1..Gamma -> Token]]
        /\ Len(proposal) = Len(rep.rows)
        /\ \A i \in rows :
              /\ proposal[i].verify = VerificationWindow(RowState(rep, i), drafted[i])
              /\ proposal[i].next = drafted[i]
              /\ proposal[i].verify \in Seq(Token)
              /\ Len(proposal[i].verify) = Size(RowState(rep, i))
    BY <1>1, ProposalFits, ZenonT(60)
  <1>3. Shape /\ SideOK("target") /\ TargetRan
    BY DEF IInv, Side
  <1>4. ReplicaOK(rep)
    BY <1>3 DEF SideOK
  <1>5. /\ rep.rows \in Seq(Request) /\ Len(rep.rows) \in Nat
        /\ rep = [ states |-> rep.states, completed |-> rep.completed, active |-> rep.active,
                   next |-> rep.next, rows |-> rep.rows ]
        /\ rep.states \in [Request -> PipelineState]
    <2> HIDE DEF rep
    <2> QED
      BY <1>4, ReplicaIs
  <1>6. \A i \in rows : RowSize(rep, i) = Size(RowState(rep, i))
    BY DEF RowSize, Size, RowState
  <1>7. PICK results \in [rows -> UNION {Verdicts(predictions[i], proposal[i].verify) : i \in rows}] :
          /\ \A i \in rows : results[i] \in Verdicts(predictions[i], proposal[i].verify)
          /\ verdict' = results
          /\ replica' = [replica EXCEPT !["target"].states = [r \in Request |->
                IF \E i \in rows : rep.rows[i] = r
                THEN ApplyTargetVerification(@[r], RowSize(rep, row(r)),
                        results[row(r)].accepted, results[row(r)].correction,
                        proposal[row(r)].next)
                ELSE @[r]]]
    BY <1>2, <1>6, ZenonT(60) DEF TargetVerify
  <1>8. /\ proposal' = <<>> /\ pc' = [pc EXCEPT !["target"] = "loop"] /\ kv' = kv /\ drafted' = drafted
    BY <1>2, <1>6 DEF TargetVerify
  <1>9. Len(verdict') = Len(rep.rows) /\ verdict' # <<>>
    <2>1. rep.rows \in Seq(Request) /\ rep.rows # <<>>
      BY <1>2, <1>5
    <2>2. verdict' = results /\ DOMAIN results = rows
      BY <1>7
    <2> HIDE DEF rep
    <2>3. Len(rep.rows) \in Nat /\ Len(rep.rows) # 0
      BY <2>1, EmptySeq
    <2>4. Len(results) = Len(rep.rows)
      BY <2>2, <2>3
    <2> QED
      BY <2>2, <2>3, <2>4, ZenonT(60)
  <1>10. ASSUME NEW i \in rows
         PROVE  Justified(RowState(rep, i), drafted[i], verdict'[i])
    <2> DEFINE st == RowState(rep, i)
    <2>1. /\ predictions[i] = TargetOutputs(st) /\ SupportsOK(predictions[i], Size(st))
          /\ TargetSays(st, predictions[i])
      BY <1>1, <1>3, ZenonT(60) DEF TargetRan
    <2>2. Size(st) \in Nat
      BY <1>4, RowsSound, SoundSize
    <2>3. verdict'[i] \in Verdicts(predictions[i], proposal[i].verify)
      BY <1>7
    <2>4. proposal[i].verify \in Seq(Token) /\ Len(proposal[i].verify) = Size(st)
      BY <1>2
    <2> HIDE DEF st, rep
    <2>5. Legal(verdict'[i], predictions[i], proposal[i].verify)
      BY <2>1, <2>2, <2>3, <2>4, VerdictLegal, ZenonT(60)
    <2> QED
      BY <1>2, <2>1, <2>5, ZenonT(60) DEF Justified, st, rep
  <1>11. replica' = [replica EXCEPT !["target"] = Applied(rep, verdict', drafted)]
    <2> DEFINE F == [r \in Request |->
                IF \E i \in rows : rep.rows[i] = r
                THEN ApplyTargetVerification(rep.states[r], RowSize(rep, row(r)),
                        results[row(r)].accepted, results[row(r)].correction,
                        proposal[row(r)].next)
                ELSE rep.states[r]]
               G == [r \in Request |->
        IF \E i \in 1..Len(rep.rows) : rep.rows[i] = r
        THEN ApplyTargetVerification(rep.states[r], Size(rep.states[r]),
                verdict'[RowOf(rep, r)].accepted, verdict'[RowOf(rep, r)].correction,
                drafted[RowOf(rep, r)])
        ELSE rep.states[r]]
    <2>1. ASSUME NEW r \in Request PROVE F[r] = G[r]
      <3>1. CASE \E i \in rows : rep.rows[i] = r
        <4>1. row(r) \in rows /\ rep.rows[row(r)] = r
          BY <3>1, ZenonT(60)
        <4>2. RowOf(rep, r) = row(r)
          BY DEF RowOf
        <4> HIDE DEF row
        <4>3. RowSize(rep, row(r)) = Size(rep.states[r])
          BY <1>6, <4>1, ZenonT(60) DEF RowState
        <4>4. proposal[row(r)].next = drafted[row(r)]
          BY <1>2, <4>1, ZenonT(60)
        <4>5. F[r] = ApplyTargetVerification(rep.states[r], RowSize(rep, row(r)),
                        results[row(r)].accepted, results[row(r)].correction,
                        proposal[row(r)].next)
          BY <3>1
        <4>6. G[r] = ApplyTargetVerification(rep.states[r], Size(rep.states[r]),
                verdict'[row(r)].accepted, verdict'[row(r)].correction, drafted[row(r)])
          BY <3>1, <4>2, ZenonT(60)
        <4> QED
          BY <1>7, <4>3, <4>4, <4>5, <4>6, ZenonT(60)
      <3>2. CASE ~\E i \in rows : rep.rows[i] = r
        BY <3>2
      <3> QED
        BY <3>1, <3>2, ZenonT(60)
    <2>2. F = G
      BY <2>1, ZenonT(60)
    <2>3. replica' = [replica EXCEPT !["target"] = [rep EXCEPT !.states = F]]
      BY <1>7
    <2>4. Applied(rep, verdict', drafted) = [rep EXCEPT !.states = G]
      BY DEF Applied
    <2> HIDE DEF F, G
    <2> QED
      BY <2>2, <2>3, <2>4
  <1> QED
    BY <1>2, <1>8, <1>9, <1>10, <1>11, ZenonT(60) DEF Verified

\* The target's verdict.
LEMMA TargetVerifyOK ==
  ASSUME IInv, TargetVerify
  PROVE  IInv'
  <1> DEFINE rep == replica["target"]
             new == Applied(rep, verdict', drafted)
  <1>1. /\ Shape /\ LockStep /\ DraftRan /\ TargetRan
        /\ \A x \in Side : SideOK(x) /\ CacheOK(x)
        /\ "draft" \in Side /\ "target" \in Side
    BY DEF IInv, Side
  <1>2. /\ verdict = <<>> /\ pc["draft"] = "exchange" /\ replica["draft"] = rep
        /\ drafted \in [1..Len(rep.rows) -> [1..Gamma -> Token]]
        /\ verdict' # <<>> /\ Len(verdict') = Len(rep.rows)
        /\ \A i \in 1..Len(rep.rows) : Justified(RowState(rep, i), drafted[i], verdict'[i])
        /\ replica' = [replica EXCEPT !["target"] = new]
        /\ pc' = [pc EXCEPT !["target"] = "loop"]
        /\ proposal' = <<>> /\ kv' = kv /\ drafted' = drafted
    BY TargetVerifyIs DEF Verified
  <1>3. pc["target"] = "exchange"
    BY DEF TargetVerify
  <1>4. /\ pc'["target"] = "loop" /\ pc'["draft"] = "exchange"
        /\ replica'["target"] = new /\ replica'["draft"] = rep /\ Shape'
    <2> HIDE DEF new
    <2>1. pc'["target"] = "loop" /\ pc'["draft"] = "exchange"
      BY <1>1, <1>2, ZenonT(60) DEF Shape
    <2>2. replica'["target"] = new /\ replica'["draft"] = rep
      BY <1>1, <1>2 DEF Shape
    <2>3. Shape'
      BY <1>1, <1>2, ZenonT(60) DEF Shape
    <2> QED
      BY <2>1, <2>2, <2>3
  <1>5. ReplicaOK(rep) /\ Topped(rep) /\ kv["target"] \in [Request -> Cache]
    BY <1>1, <1>3 DEF SideOK, CacheOK
  <1>6. RoundOf(rep, drafted, new)
    BY <1>2, <1>5, AppliedOK, ZenonT(60)
  <1> HIDE DEF new
  <1>7. RoundCached("target", rep, drafted, kv["target"])
    <2>1. \A r \in Request : Restored(rep)[r] = rep.states[r]
      BY <1>5, ToppedRestored
    <2>2. \A r \in Request : FreshTo(kv["target"][r], rep.states[r].tokens,
                                  Len(rep.states[r].tokens) - Rewritten("target", rep.states[r]))
      BY <1>1, <2>1, ZenonT(60) DEF CacheOK
    <2>3. \A i \in 1..Len(rep.rows) :
             FreshTo(kv["target"][rep.rows[i]], RowState(rep, i).tokens, Len(RowState(rep, i).tokens))
      BY <1>1, <1>3 DEF TargetRan
    <2> QED
      BY <2>2, <2>3 DEF RoundCached
  <1>8. Cached("target", new, kv["target"])
    <2> HIDE DEF rep
    <2> QED
      BY <1>1, <1>2, <1>5, <1>6, <1>7, AppliedCaches, ZenonT(60)
  <1>9. SideOK("target")' /\ SideOK("draft")'
    <2>1. ReplicaOK(new)
      BY <1>6 DEF RoundOf
    <2>2. SideOK("target")'
      BY <1>4, <2>1 DEF SideOK
    <2>3. SideOK("draft")'
      BY <1>1, <1>2, <1>4, ZenonT(60) DEF SideOK
    <2> QED
      BY <2>2, <2>3
  <1>10. CacheOK("target")' /\ CacheOK("draft")'
    <2>1. CacheOK("target")'
      BY <1>2, <1>4, <1>5, <1>8, ZenonT(60) DEF CacheOK, Cached
    <2>2. CacheOK("draft")'
      BY <1>1, <1>2, <1>4, ZenonT(60) DEF CacheOK
    <2> QED
      BY <2>1, <2>2
  <1>11. DraftRan' /\ TargetRan'
    BY <1>1, <1>2, <1>4, ZenonT(60) DEF DraftRan, TargetRan
  <1>12. LockStep'
    <2>1. AtTop("target")' = LoopTop(Applied(replica'["draft"], verdict', drafted'))
      BY <1>2, <1>4 DEF AtTop, new
    <2>2. \A i \in 1..Len(replica'["draft"].rows) :
             Justified(RowState(replica'["draft"], i), drafted'[i], verdict'[i])
      BY <1>2, <1>4
    <2>3. Len(verdict') = Len(replica'["draft"].rows)
      BY <1>2, <1>4
    <2> QED
      BY <1>2, <1>4, <2>1, <2>2, <2>3, ZenonT(60) DEF LockStep
  <1> QED
    BY <1>4, <1>9, <1>10, <1>11, <1>12 DEF IInv, Side

\* The draft's round: the mirrored transition is the target's.
LEMMA DraftApplyIs ==
  ASSUME IInv, DraftApply
  PROVE  /\ replica' = [replica EXCEPT !["draft"] = Applied(replica["draft"], verdict, drafted)]
         /\ pc' = [pc EXCEPT !["draft"] = "loop"]
         /\ verdict' = <<>> /\ kv' = kv /\ predictions' = predictions /\ proposal' = proposal
  <1> DEFINE rep == replica["draft"]
             rows == 1..Len(rep.rows)
             row(r) == CHOOSE i \in rows : rep.rows[i] = r
             extended(r) == [rep.states[r] EXCEPT !.tokens = @ \o drafted[row(r)]]
  <1>1. pc["draft"] = "exchange" /\ verdict # <<>>
    BY ZenonT(60) DEF DraftApply
  <1>2. Shape /\ SideOK("draft") /\ LockStep /\ DraftRan
    BY DEF IInv, Side
  <1>3. ReplicaOK(rep)
    BY <1>2 DEF SideOK
  <1>4. /\ rep.states \in [Request -> PipelineState]
        /\ Len(verdict) = Len(rep.rows)
        /\ drafted \in [rows -> [1..Gamma -> Token]]
        /\ \A i \in rows : Justified(RowState(rep, i), drafted[i], verdict[i])
    <2>1. rep.states \in [Request -> PipelineState]
      BY <1>3, ReplicaIs
    <2>2. /\ Len(verdict) = Len(rep.rows)
          /\ \A i \in rows : Justified(RowState(rep, i), drafted[i], verdict[i])
      BY <1>1, <1>2 DEF LockStep
    <2>3. drafted \in [rows -> [1..Gamma -> Token]]
      BY <1>1, <1>2 DEF DraftRan
    <2> QED
      BY <2>1, <2>2, <2>3
  <1>5. \A i \in rows : RowSize(rep, i) = Size(RowState(rep, i))
    BY DEF RowSize, Size, RowState
  <1>6. ASSUME NEW i \in rows
        PROVE  ValidVerification(Gamma, RowSize(rep, i), verdict[i].accepted, verdict[i].correction, drafted[i])
    <2>1. rep.rows[i] \in Request /\ Sound(RowState(rep, i), rep.rows[i])
      BY <1>3, RowsSound
    <2>2. drafted[i] \in [1..Gamma -> Token] /\ Justified(RowState(rep, i), drafted[i], verdict[i])
      BY <1>4
    <2>3. ValidVerification(Gamma, Size(RowState(rep, i)), verdict[i].accepted, verdict[i].correction, drafted[i])
      BY <2>1, <2>2, JustifiedValid, ZenonT(60)
    <2> QED
      BY <1>5, <2>3
  <1>7. /\ replica' = [replica EXCEPT !["draft"].states = [r \in Request |->
              IF \E i \in rows : rep.rows[i] = r
              THEN ApplyDraftVerification(extended(r), RowSize(rep, row(r)),
                      verdict[row(r)].accepted, verdict[row(r)].correction, drafted[row(r)])
              ELSE @[r]]]
        /\ pc' = [pc EXCEPT !["draft"] = "loop"]
        /\ verdict' = <<>> /\ kv' = kv /\ predictions' = predictions /\ proposal' = proposal
    BY <1>4, <1>6, ZenonT(60) DEF DraftApply
  <1>8. replica' = [replica EXCEPT !["draft"] = Applied(rep, verdict, drafted)]
    <2> DEFINE F == [r \in Request |->
                IF \E i \in rows : rep.rows[i] = r
                THEN ApplyDraftVerification(extended(r), RowSize(rep, row(r)),
                      verdict[row(r)].accepted, verdict[row(r)].correction, drafted[row(r)])
                ELSE rep.states[r]]
               G == [r \in Request |->
        IF \E i \in 1..Len(rep.rows) : rep.rows[i] = r
        THEN ApplyTargetVerification(rep.states[r], Size(rep.states[r]),
                verdict[RowOf(rep, r)].accepted, verdict[RowOf(rep, r)].correction,
                drafted[RowOf(rep, r)])
        ELSE rep.states[r]]
    <2>1. ASSUME NEW r \in Request PROVE F[r] = G[r]
      <3>1. CASE \E i \in rows : rep.rows[i] = r
        <4>1. row(r) \in rows /\ rep.rows[row(r)] = r
          BY <3>1, ZenonT(60)
        <4>2. RowOf(rep, r) = row(r)
          BY DEF RowOf
        <4>3. RowSize(rep, row(r)) = Size(rep.states[r])
          BY <1>5, <4>1, ZenonT(60) DEF RowState
        <4>4. rep.states[r] \in PipelineState /\ drafted[row(r)] \in Seq(Token)
          <5>1. drafted[row(r)] \in [1..Gamma -> Token]
            BY <1>4, <4>1, ZenonT(60)
          <5> QED
            BY <1>4, <5>1, WindowIsSeq
        <4>5. F[r] = ApplyDraftVerification(extended(r), RowSize(rep, row(r)),
                      verdict[row(r)].accepted, verdict[row(r)].correction, drafted[row(r)])
          BY <3>1
        <4>6. G[r] = ApplyTargetVerification(rep.states[r], Size(rep.states[r]),
                verdict[row(r)].accepted, verdict[row(r)].correction, drafted[row(r)])
          BY <3>1, <4>2, ZenonT(60)
        <4>7. ASSUME NEW st \in PipelineState, NEW w \in Seq(Token), NEW e, NEW a, NEW c
              PROVE  ApplyDraftVerification([st EXCEPT !.tokens = @ \o w], e, a, c, w)
                       = ApplyTargetVerification(st, e, a, c, w)
          BY DraftMirrorsTarget, ZenonT(60)
        <4> HIDE DEF row
        <4>8. ApplyDraftVerification(extended(r), RowSize(rep, row(r)),
                      verdict[row(r)].accepted, verdict[row(r)].correction, drafted[row(r)])
               = ApplyTargetVerification(rep.states[r], RowSize(rep, row(r)),
                      verdict[row(r)].accepted, verdict[row(r)].correction, drafted[row(r)])
          BY <4>4, <4>7, ZenonT(60)
        <4> QED
          BY <4>3, <4>5, <4>6, <4>8
      <3>2. CASE ~\E i \in rows : rep.rows[i] = r
        BY <3>2
      <3> QED
        BY <3>1, <3>2, ZenonT(60)
    <2>2. F = G
      BY <2>1, ZenonT(60)
    <2>3. replica' = [replica EXCEPT !["draft"] = [rep EXCEPT !.states = F]]
      BY <1>7, ZenonT(60)
    <2>4. Applied(rep, verdict, drafted) = [rep EXCEPT !.states = G]
      BY DEF Applied
    <2> HIDE DEF F, G
    <2> QED
      BY <2>2, <2>3, <2>4, ZenonT(60)
  <1> QED
    BY <1>7, <1>8, ZenonT(60)

\* The draft's transition.
LEMMA DraftApplyOK ==
  ASSUME IInv, DraftApply
  PROVE  IInv'
  <1> DEFINE rep == replica["draft"]
             new == Applied(rep, verdict, drafted)
  <1>1. /\ Shape /\ LockStep /\ DraftRan /\ TargetRan
        /\ \A x \in Side : SideOK(x) /\ CacheOK(x)
        /\ "draft" \in Side /\ "target" \in Side
    BY DEF IInv, Side
  <1>2. /\ replica' = [replica EXCEPT !["draft"] = new]
        /\ pc' = [pc EXCEPT !["draft"] = "loop"]
        /\ verdict' = <<>> /\ kv' = kv /\ predictions' = predictions /\ proposal' = proposal
    BY DraftApplyIs
  <1>3. pc["draft"] = "exchange" /\ verdict # <<>>
    BY ZenonT(60) DEF DraftApply
  <1>4. /\ pc'["draft"] = "loop" /\ pc'["target"] = pc["target"]
        /\ replica'["draft"] = new /\ replica'["target"] = replica["target"] /\ Shape'
    <2> HIDE DEF new
    <2>1. pc'["draft"] = "loop" /\ pc'["target"] = pc["target"]
      BY <1>1, <1>2, ZenonT(60) DEF Shape
    <2>2. replica'["draft"] = new /\ replica'["target"] = replica["target"]
      BY <1>1, <1>2 DEF Shape
    <2>3. Shape'
      BY <1>1, <1>2, ZenonT(60) DEF Shape
    <2> QED
      BY <2>1, <2>2, <2>3
  <1>5. /\ AtTop("target") = LoopTop(new)
        /\ proposal = <<>>
        /\ \A i \in 1..Len(rep.rows) : Justified(RowState(rep, i), drafted[i], verdict[i])
    BY <1>1, <1>3 DEF LockStep
  <1>6. /\ ReplicaOK(rep) /\ Topped(rep) /\ kv["draft"] \in [Request -> Cache]
        /\ drafted \in [1..Len(rep.rows) -> [1..Gamma -> Token]]
    BY <1>1, <1>3, ZenonT(60) DEF SideOK, CacheOK, DraftRan
  <1>7. RoundOf(rep, drafted, new)
    BY <1>5, <1>6, AppliedOK, ZenonT(60)
  <1> HIDE DEF new
  <1>8. RoundCached("draft", rep, drafted, kv["draft"])
    <2>1. \A r \in Request : Restored(rep)[r] = rep.states[r]
      BY <1>6, ToppedRestored
    <2>2. \A r \in Request : FreshTo(kv["draft"][r], rep.states[r].tokens,
                                  Len(rep.states[r].tokens) - Rewritten("draft", rep.states[r]))
      BY <1>1, <2>1, ZenonT(60) DEF CacheOK
    <2>3. \A i \in 1..Len(rep.rows) :
             FreshTo(kv["draft"][rep.rows[i]], RowState(rep, i).tokens \o drafted[i],
                     Len(RowState(rep, i).tokens) + Gamma - 1)
      BY <1>1, <1>3 DEF DraftRan
    <2> QED
      BY <2>2, <2>3 DEF RoundCached
  <1>9. Cached("draft", new, kv["draft"])
    <2> HIDE DEF rep
    <2> QED
      BY <1>1, <1>6, <1>7, <1>8, AppliedCaches
  <1>10. SideOK("draft")' /\ SideOK("target")'
    <2>1. ReplicaOK(new)
      BY <1>7 DEF RoundOf
    <2>2. SideOK("draft")'
      BY <1>4, <2>1 DEF SideOK
    <2>3. SideOK("target")'
      BY <1>1, <1>4, ZenonT(60) DEF SideOK
    <2> QED
      BY <2>2, <2>3
  <1>11. CacheOK("draft")' /\ CacheOK("target")'
    <2>1. CacheOK("draft")'
      BY <1>2, <1>4, <1>6, <1>9, ZenonT(60) DEF CacheOK, Cached
    <2>2. CacheOK("target")'
      BY <1>1, <1>2, <1>4 DEF CacheOK
    <2> QED
      BY <2>1, <2>2
  <1>12. DraftRan' /\ TargetRan'
    BY <1>1, <1>2, <1>4, ZenonT(60) DEF DraftRan, TargetRan
  <1>13. LockStep'
    <2>1. AtTop("target")' = AtTop("target") /\ AtTop("draft")' = LoopTop(new)
      BY <1>4 DEF AtTop
    <2> QED
      BY <1>2, <1>5, <2>1, ZenonT(60) DEF LockStep
  <1> QED
    BY <1>4, <1>10, <1>11, <1>12, <1>13, ZenonT(60) DEF IInv, Side

------------------------------------------------------------------------------
(* The theorems.                                                           *)

\* Every step keeps the inductive invariant.
LEMMA StepOK == IInv /\ [Next]_vars => IInv'
  <1> SUFFICES ASSUME IInv, [Next]_vars PROVE IInv'
    OBVIOUS
  <1>1. CASE UNCHANGED vars
    <2>1. /\ pc' = pc /\ replica' = replica /\ kv' = kv /\ predictions' = predictions
          /\ proposal' = proposal /\ verdict' = verdict /\ drafted' = drafted
      BY <1>1 DEF vars
    <2>2. Shape' /\ DraftRan' /\ TargetRan'
      BY <2>1, ZenonT(60) DEF IInv, Shape, DraftRan, TargetRan
    <2>3. \A s \in Side : SideOK(s)' /\ CacheOK(s)'
      BY <2>1, ZenonT(60) DEF IInv, SideOK, CacheOK
    <2>4. LockStep'
      BY <2>1, ZenonT(60) DEF IInv, LockStep, AtTop
    <2> QED
      BY <2>2, <2>3, <2>4 DEF IInv
  <1>2. CASE \E s \in Side : Schedule(s)
    BY <1>2, ScheduleOK
  <1>3. CASE DraftForward
    BY <1>3, DraftForwardOK
  <1>4. CASE TargetForward
    BY <1>4, TargetForwardOK
  <1>5. CASE TargetVerify
    BY <1>5, TargetVerifyOK
  <1>6. CASE DraftApply
    BY <1>6, DraftApplyOK
  <1> QED
    BY <1>1, <1>2, <1>3, <1>4, <1>5, <1>6, ZenonT(60) DEF Next, DraftStep, TargetStep, Finish, Side

\* The inductive invariant holds in every reachable state, whatever the number
\* of requests, the window, the batch limits, the context and the target model.
THEOREM RoundsInvariant == Spec => []IInv
  BY InitOK, StepOK, PTL DEF Spec

\* No worker of a PEARL batch hits one of the engine's consistency errors: the
\* windows have the width the target expects, the verdicts are legal for the
\* draft's state, and a draining batch can be padded to its graph bucket.
THEOREM RoundsNeverRaise == Spec => []NoWorkerRaises
  <1>1. IInv => NoWorkerRaises
    BY DEF IInv, SideOK, NoWorkerRaises
  <1> QED
    BY <1>1, RoundsInvariant, PTL

\* Though neither sends the other its scheduling state, draft and target meet in
\* every round with the same states and the same rows in the same order.
THEOREM RoundsAgree == Spec => []ReplicasAgree
  <1>1. IInv => ReplicasAgree
    BY DEF IInv, LockStep, AtTop, ReplicasAgree
  <1> QED
    BY <1>1, RoundsInvariant, PTL

\* committed_length is exactly what token_ids says in both replicas, and the
\* acceptance segments add up to the tokens committed after prefill.
THEOREM RoundsCommitExactly == Spec => []CommittedLengthExact
  <1>1. IInv => CommittedLengthExact
    <2> SUFFICES ASSUME IInv, NEW s \in Side, NEW r \in Request
                 PROVE  LET st == replica[s].states[r]
                        IN  /\ st.committed = IF st.pre THEN Len(st.tokens)
                                                        ELSE Len(st.tokens) - (st.pending - 1)
                            /\ st.segments + st.current = st.committed - PromptLen(r) - 1
      BY DEF CommittedLengthExact
    <2>1. Sound(replica[s].states[r], r)
      BY DEF IInv, SideOK, ReplicaOK
    <2> QED
      BY <2>1, ZenonT(60) DEF Sound
  <1> QED
    BY <1>1, RoundsInvariant, PTL

\* When a forward is about to attend to a request's cached prefix, no position it
\* does not rewrite still holds a rolled-back token or a padding row's.
THEOREM RoundsCacheFresh == Spec => []CacheFresh
  <1>1. IInv => CacheFresh
    <2> SUFFICES ASSUME IInv, NEW s \in Side, NEW r \in Request
                 PROVE  LET st == Restored(replica[s])[r]
                            rewritten == IF s = "draft" THEN 1 ELSE VerificationSize(st, Gamma, 0)
                        IN  \A p \in 1..(Len(st.tokens) - rewritten) : kv[s][r][p] = st.tokens[p]
      BY DEF CacheFresh
    <2>1. CacheOK(s)
      BY DEF IInv
    <2> QED
      BY <2>1 DEF CacheOK, FreshTo, Rewritten, Size
  <1> QED
    BY <1>1, RoundsInvariant, PTL

\* The result the target leader returns.
LEMMA ResultIs ==
  ASSUME NEW r \in Request
  PROVE  Result(r) = Visible(Restored(replica["target"])[r], r)
  BY ZenonT(60) DEF Result, Visible

\* When the target's loop ends every request has a complete result: max_tokens
\* tokens, or an end-of-sequence token.
THEOREM RoundsComplete == Spec => []ResultsComplete
  <1>1. IInv => ResultsComplete
    <2> SUFFICES ASSUME IInv, pc["target"] = "done", NEW r \in Request
                 PROVE  Reference!Stopped(Result(r), r)
      BY DEF ResultsComplete
    <2> DEFINE rep == replica["target"]
    <2>1. ReplicaOK(rep) /\ Topped(rep) /\ rep.rows = <<>>
      BY DEF IInv, Side, SideOK
    <2>2. Sound(rep.states[r], r) /\ IsFinished(rep.states[r], r) /\ Restored(rep)[r] = rep.states[r]
      BY <2>1, ToppedRestored, ZenonT(60) DEF ReplicaOK, Topped
    <2>3. StoppedAt(Visible(rep.states[r], r), r)
      BY <2>2, FinishedStops, ZenonT(60)
    <2>4. Result(r) = Visible(rep.states[r], r)
      BY <2>2, ResultIs
    <2> QED
      BY <2>3, <2>4 DEF StoppedAt, Reference!Stopped
  <1> QED
    BY <1>1, RoundsInvariant, PTL

\* A completion continues itself.
LEMMA SameContinues ==
  ASSUME NEW r \in Request, NEW st, Sound(st, r)
  PROVE  ContinuesBy(r, Gamma, Visible(st, r), Visible(st, r))
  <1>1. st.committed \in Nat /\ Gamma \in Nat
    BY SoundSize, BatchAssumption
  <1>2. st.committed \in st.committed..(st.committed + Gamma)
    BY <1>1
  <1> QED
    BY <1>2, VisibleContinues

\* The results before and after the verdicts of a round.
LEMMA RoundContinues ==
  ASSUME NEW rep, ReplicaOK(rep), Topped(rep), NEW windows, NEW new, RoundOf(rep, windows, new),
         NEW r \in Request
  PROVE  ContinuesBy(r, Gamma, Visible(Restored(rep)[r], r), Visible(Restored(new)[r], r))
  <1>1. Sound(rep.states[r], r) /\ Sound(new.states[r], r) /\ Restored(rep)[r] = rep.states[r]
    BY ToppedRestored, ZenonT(60) DEF ReplicaOK, RoundOf
  <1>2. CASE Restored(new)[r] = rep.states[r]
    BY <1>1, <1>2, SameContinues, ZenonT(60)
  <1>3. CASE r \notin DOMAIN rep.completed /\ r \in Members(rep.rows)
    <2>1. PICK i \in 1..Len(rep.rows) : rep.rows[i] = r
      BY <1>3 DEF Members
    <2>2. Restored(new)[r] = new.states[r]
      BY <1>3 DEF Restored, RoundOf
    <2> DEFINE st == rep.states[r]
               st2 == new.states[r]
    <2>3. Step(st, windows[i], st2)
      BY <2>1 DEF RoundOf, RowState
    <2>4. Size(st) \in 1..Gamma /\ st.committed \in Nat /\ Gamma \in Nat
      BY <1>1, SoundSize, BatchAssumption, ZenonT(60)
    <2> HIDE DEF st, st2
    <2>5. st2.committed \in st.committed..(st.committed + Gamma)
      <3>1. st2.committed \in st.committed..(st.committed + Size(st))
        BY <2>3, ZenonT(60) DEF Step
      <3> QED
        BY <2>4, <3>1
    <2>6. \A p \in 1..st.committed : st2.tokens[p] = st.tokens[p]
      BY <2>3 DEF Step
    <2>7. ContinuesBy(r, Gamma, Visible(st, r), Visible(st2, r))
      BY <1>1, <2>5, <2>6, VisibleContinues, ZenonT(60) DEF st, st2
    <2> QED
      BY <1>1, <2>2, <2>7, ZenonT(60) DEF st, st2
  <1>4. CASE r \in DOMAIN rep.completed
    <2>1. Restored(new)[r] = rep.states[r]
      BY <1>4, ZenonT(60) DEF Restored, RoundOf, Topped
    <2> QED
      BY <1>2, <2>1, ZenonT(60)
  <1>5. CASE r \notin DOMAIN rep.completed /\ r \notin Members(rep.rows)
    <2>1. Restored(new)[r] = rep.states[r]
      BY <1>5 DEF Restored, RoundOf
    <2> QED
      BY <1>2, <2>1, ZenonT(60)
  <1> QED
    BY <1>3, <1>4, <1>5, ZenonT(60)

\* The abstract step, in the terms of the batch.
LEMMA ReferenceContinues ==
  ASSUME NEW r \in Request, NEW short, NEW long
  PROVE  Reference!Continues(r, short, long) <=> ContinuesBy(r, Gamma, short, long)
  BY ZenonT(60) DEF Reference!Continues, ContinuesBy, Reference!Stopped, StoppedAt

\* The first results are what target-only decoding starts with.
LEMMA StartsAutoregressive == Init => Reference!Init
  <1> SUFFICES ASSUME Init, NEW r \in Request
               PROVE  Len(Result(r)) = 1 /\ Reference!Continues(r, <<>>, Result(r))
    BY DEF Reference!Init
  <1>1. PICK first \in [Request -> Token], captured \in BOOLEAN :
          /\ \A q \in Request : first[q] \in FirstTokens(q)
          /\ replica = [s \in Side |->
              [ states |-> [q \in Request |-> PrefilledState(Prompt[q], first[q])],
                completed |-> [q \in {} |-> 0],
                active |-> SubSeq(AllRequests, 1, InitialBatchSize),
                next |-> InitialBatchSize, rows |-> <<>> ]]
    BY ZenonT(60) DEF Init
  <1> DEFINE rep == replica["target"]
             st == PrefilledState(Prompt[r], first[r])
  <1>2. rep.states = [q \in Request |-> PrefilledState(Prompt[q], first[q])]
        /\ rep.completed = [q \in {} |-> 0]
    BY <1>1 DEF Side
  <1>3. Restored(rep)[r] = st
    BY <1>2 DEF Restored
  <1>4. first[r] \in FirstTokens(r)
    BY <1>1
  <1> HIDE DEF st
  <1>5. Len(Visible(st, r)) = 1 /\ ContinuesBy(r, Gamma, <<>>, Visible(st, r))
    BY <1>4, PrefillVisible DEF st
  <1>6. Result(r) = Visible(st, r)
    BY <1>3, ResultIs
  <1> QED
    BY <1>5, <1>6, ReferenceContinues

\* Every step delivers tokens as target-only decoding could, or none.
LEMMA StepsAutoregressive ==
  ASSUME IInv, [Next]_vars
  PROVE  \/ \A r \in Request : Reference!Continues(r, Result(r), Result(r)')
         \/ \A r \in Request : Result(r)' = Result(r)
  <1> DEFINE rep == replica["target"]
  <1>1. /\ Shape /\ SideOK("target") /\ "target" \in Side /\ "draft" \in Side
    BY DEF IInv, Side
  <1>2. ReplicaOK(rep)
    BY <1>1 DEF SideOK
  <1>3. CASE replica'["target"] = rep
    <2>1. ASSUME NEW r \in Request PROVE Result(r)' = Result(r)
      BY <1>3 DEF Result, Restored
    <2> QED
      BY <2>1
  <1>4. CASE Schedule("target")
    <2>1. replica'["target"] = LoopTop(rep)
      BY <1>1, <1>4 DEF Schedule, LoopTop, Shape
    <2>2. Restored(LoopTop(rep)) = Restored(rep)
      BY <1>2, LoopTopOK, ZenonT(60) DEF TopOf
    <2>3. ASSUME NEW r \in Request PROVE Result(r)' = Result(r)
      BY <2>1, <2>2 DEF Result
    <2> QED
      BY <2>3
  <1>5. CASE TargetVerify
    <2> DEFINE new == Applied(rep, verdict', drafted)
    <2>1. /\ drafted \in [1..Len(rep.rows) -> [1..Gamma -> Token]]
          /\ \A i \in 1..Len(rep.rows) : Justified(RowState(rep, i), drafted[i], verdict'[i])
          /\ replica' = [replica EXCEPT !["target"] = new]
      BY <1>5, TargetVerifyIs DEF Verified
    <2>2. Topped(rep)
      BY <1>1, <1>5 DEF SideOK, TargetVerify
    <2>3. RoundOf(rep, drafted, new)
      BY <1>2, <2>1, <2>2, AppliedOK, ZenonT(60)
    <2>4. replica'["target"] = new
      <3> HIDE DEF new
      <3> QED
        BY <1>1, <2>1 DEF Shape
    <2> HIDE DEF new
    <2>5. ASSUME NEW r \in Request PROVE Reference!Continues(r, Result(r), Result(r)')
      <3>1. ContinuesBy(r, Gamma, Visible(Restored(rep)[r], r), Visible(Restored(new)[r], r))
        BY <1>2, <2>2, <2>3, RoundContinues, ZenonT(60)
      <3>2. Result(r) = Visible(Restored(rep)[r], r)
        BY ResultIs
      <3>3. Result(r)' = Visible(Restored(new)[r], r)
        BY <2>4 DEF Result, Visible
      <3>4. ContinuesBy(r, Gamma, Result(r), Result(r)')
        BY <3>1, <3>2, <3>3, ZenonT(60)
      <3> QED
        BY <3>4, ReferenceContinues
    <2> QED
      BY <2>5
  <1>6. CASE Schedule("draft")
    <2>1. replica'["target"] = rep
      BY <1>1, <1>6, ZenonT(60) DEF Schedule, Shape
    <2> QED
      BY <1>3, <2>1
  <1>7. CASE DraftApply
    <2>1. replica' = [replica EXCEPT !["draft"] = Applied(replica["draft"], verdict, drafted)]
      BY <1>7, DraftApplyIs
    <2>2. replica'["target"] = rep
      BY <1>1, <2>1 DEF Shape
    <2> QED
      BY <1>3, <2>2
  <1>8. CASE DraftForward \/ TargetForward \/ Finish \/ UNCHANGED vars
    <2>1. replica' = replica
      BY <1>8, ZenonT(60) DEF DraftForward, TargetForward, Finish, vars, Raise
    <2> QED
      BY <1>3, <2>1
  <1> QED
    BY <1>4, <1>5, <1>6, <1>7, <1>8, ZenonT(60) DEF Next, DraftStep, TargetStep

\* Speculation is invisible: the completions the target leader would return
\* evolve as target-only decoding would produce them, at most Gamma tokens per
\* round, and are never taken back.
THEOREM RoundsRefineAutoregressive == Spec => RefinesAutoregressive
  <1>1. IInv /\ [Next]_vars => [Reference!Deliver]_([r \in Request |-> Result(r)])
    <2> SUFFICES ASSUME IInv, [Next]_vars
                 PROVE  [Reference!Deliver]_([r \in Request |-> Result(r)])
      OBVIOUS
    <2>1. CASE \A r \in Request : Reference!Continues(r, Result(r), Result(r)')
      BY <2>1 DEF Reference!Deliver
    <2>2. CASE \A r \in Request : Result(r)' = Result(r)
      BY <2>2
    <2> QED
      BY <2>1, <2>2, StepsAutoregressive
  <1> QED
    BY <1>1, StartsAutoregressive, RoundsInvariant, PTL DEF Spec, RefinesAutoregressive, Reference!Spec

------------------------------------------------------------------------------
(* The batch stays inside its page tables.                                 *)

\* The strengthening of AdmittedRequestsFit.
FitInv ==
    \A s \in Side : /\ ReplicaFits(replica[s])
                    /\ pc[s] # "loop" => RowsFit(replica[s])
                    /\ pc[s] # "overflow"

\* Prefill leaves room.
LEMMA InitFits == Init => FitInv
  <1> SUFFICES ASSUME Init, NEW s \in Side
               PROVE  ReplicaFits(replica[s]) /\ pc[s] = "loop"
    BY DEF FitInv
  <1>1. PICK first \in [Request -> Token] :
        /\ \A r \in Request : first[r] \in FirstTokens(r)
        /\ pc = [x \in Side |-> "loop"]
        /\ replica = [x \in Side |->
              [ states |-> [r \in Request |-> PrefilledState(Prompt[r], first[r])],
                completed |-> [r \in {} |-> 0],
                active |-> SubSeq(AllRequests, 1, InitialBatchSize),
                next |-> InitialBatchSize, rows |-> <<>> ]]
    BY ZenonT(60) DEF Init
  <1>2. /\ replica[s].states = [r \in Request |-> PrefilledState(Prompt[r], first[r])]
        /\ DOMAIN replica[s].completed = {} /\ pc[s] = "loop"
    BY <1>1
  <1>3. ASSUME NEW r \in Request
        PROVE  LET st == replica[s].states[r]
               IN  st.pre /\ st.committed = PromptLen(r) + 1 /\ Fits(st, r)
    <2> DEFINE st == replica[s].states[r]
    <2>1. st = PrefilledState(Prompt[r], first[r]) /\ first[r] \in FirstTokens(r)
      BY <1>1, <1>2
    <2> HIDE DEF st
    <2>2. st.pre /\ st.committed = PromptLen(r) + 1
      BY <2>1, PrefillSound
    <2>3. PromptLen(r) \in Nat /\ MaxTokens[r] \in Nat \ {0} /\ Gamma \in Nat \ {0}
      BY RoomNumbers
    <2> QED
      BY <2>2, <2>3 DEF Fits, Overshoot, st
  <1> QED
    BY <1>2, <1>3 DEF ReplicaFits

\* Every step keeps the requests inside their page tables.
LEMMA StepFits == EnoughRoom /\ IInv /\ FitInv /\ [Next]_vars => FitInv'
  <1> SUFFICES ASSUME EnoughRoom, IInv, FitInv, [Next]_vars PROVE FitInv'
    OBVIOUS
  <1>1. /\ Shape /\ "draft" \in Side /\ "target" \in Side
        /\ \A s \in Side : /\ ReplicaOK(replica[s])
                           /\ pc[s] # "loop" => Topped(replica[s])
    BY DEF IInv, SideOK, Side
  <1>2. \A s \in Side : /\ ReplicaFits(replica[s])
                        /\ pc[s] # "loop" => RowsFit(replica[s])
                        /\ pc[s] # "overflow"
    BY DEF FitInv
  <1>3. ASSUME NEW s \in Side, Schedule(s) PROVE FitInv'
    <2> DEFINE new == LoopTop(replica[s])
    <2>1. ReplicaFits(new) /\ RowsFit(new)
      BY <1>1, <1>2, TopFits
    <2>2. /\ replica' = [replica EXCEPT ![s] = new]
          /\ pc' = [pc EXCEPT ![s] = IF ~TailBucketFilled(new) THEN "raised"
                                     ELSE IF new.rows = <<>> THEN "done" ELSE "forward"]
      BY <1>3, ZenonT(60) DEF Schedule, LoopTop
    <2> HIDE DEF new
    <2>3. /\ replica'[s] = new /\ pc'[s] # "overflow"
          /\ \A x \in Side \ {s} : replica'[x] = replica[x] /\ pc'[x] = pc[x]
      BY <1>1, <2>2 DEF Shape
    <2> QED
      BY <1>2, <2>1, <2>3 DEF FitInv
  <1>4. ASSUME NEW s \in Side, NEW why, pc' = [pc EXCEPT ![s] = why], replica' = replica,
               why # "overflow", pc[s] # "loop"
        PROVE  FitInv'
    <2>1. pc'[s] = why /\ \A x \in Side \ {s} : pc'[x] = pc[x]
      BY <1>1, <1>4 DEF Shape
    <2> QED
      BY <1>2, <1>4, <2>1 DEF FitInv
  <1>5. ASSUME NEW s \in Side, NEW windows, NEW new, RoundOf(replica[s], windows, new),
               new.next = replica[s].next, replica' = [replica EXCEPT ![s] = new],
               pc' = [pc EXCEPT ![s] = "loop"], pc[s] # "loop"
        PROVE  FitInv'
    <2>1. ReplicaFits(new)
      BY <1>1, <1>2, <1>5, RoundFits, ZenonT(60)
    <2>2. /\ replica'[s] = new /\ pc'[s] = "loop"
          /\ \A x \in Side \ {s} : replica'[x] = replica[x] /\ pc'[x] = pc[x]
      BY <1>1, <1>5 DEF Shape
    <2> QED
      BY <1>2, <2>1, <2>2, ZenonT(60) DEF FitInv
  <1>6. ASSUME NEW s \in Side, pc[s] = "forward"
        PROVE  \A i \in 1..Len(replica[s].rows) :
                  Len(RowState(replica[s], i).tokens) + Gamma - 1 <= Capacity
    BY <1>1, <1>2, <1>6, RowsInside, ZenonT(60)
  <1>7. ASSUME NEW s \in Side, NEW verdicts, NEW windows
        PROVE  Applied(replica[s], verdicts, windows).next = replica[s].next
    <2>1. replica[s] = [ states |-> replica[s].states, completed |-> replica[s].completed,
                         active |-> replica[s].active, next |-> replica[s].next,
                         rows |-> replica[s].rows ]
      BY <1>1, ReplicaIs
    <2> QED
      BY <2>1 DEF Applied
  <1>8. CASE DraftForward
    <2> DEFINE rep == replica["draft"]
    <2>1. pc["draft"] = "forward"
      BY <1>8, ZenonT(60) DEF DraftForward
    <2>2. ASSUME NEW i \in 1..Len(rep.rows)
          PROVE  ~(DraftLastPosition(rep.states[rep.rows[i]], Gamma) > Capacity)
      <3>1. Len(RowState(rep, i).tokens) + Gamma - 1 <= Capacity
        BY <1>1, <1>6, <2>1
      <3>2. Sound(RowState(rep, i), rep.rows[i]) /\ rep.rows[i] \in Request
        BY <1>1, RowsSound, ZenonT(60)
      <3>3. Len(RowState(rep, i).tokens) \in Nat
        BY <3>2, SoundSize
      <3>4. Gamma \in Nat /\ Capacity \in Nat
        BY RoomNumbers
      <3> QED
        BY <3>1, <3>3, <3>4 DEF RowState, DraftLastPosition
    <2>3. pc' = [pc EXCEPT !["draft"] = "exchange"] /\ replica' = replica
      BY <1>8, <2>2, ZenonT(60) DEF DraftForward
    <2> QED
      BY <1>1, <1>4, <2>1, <2>3, ZenonT(60)
  <1>9. CASE TargetForward
    <2> DEFINE rep == replica["target"]
               widths == ModelWidths(RowSizes(rep))
    <2>1. pc["target"] = "forward"
      BY <1>9, ZenonT(60) DEF TargetForward
    <2>2. ASSUME NEW i \in 1..Len(rep.rows)
          PROVE  ~(TargetStart(rep.states[rep.rows[i]], RowSize(rep, i)) + widths[i] - 1 > Capacity)
      <3> DEFINE st == RowState(rep, i)
      <3>1. Len(st.tokens) + Gamma - 1 <= Capacity
        BY <1>1, <1>6, <2>1
      <3>2. Sound(st, rep.rows[i]) /\ rep.rows[i] \in Request
        BY <1>1, RowsSound, ZenonT(60)
      <3>3. Len(st.tokens) \in Nat /\ Size(st) \in 1..Gamma
        BY <3>2, SoundSize
      <3>4. Gamma \in Nat /\ Capacity \in Nat
        BY RoomNumbers
      <3>5. RowSize(rep, i) = Size(st) /\ RowSizes(rep)[i] = Size(st) /\ Len(RowSizes(rep)) = Len(rep.rows)
        <4>1. Len(rep.rows) \in Nat
          BY <1>1, ReplicaIs
        <4> QED
          BY <4>1 DEF RowSize, RowSizes, Size, RowState
      <3>6. widths[i] \in Nat /\ widths[i] <= Gamma
        <4>1. Len(rep.rows) \in Nat
          BY <1>1, ReplicaIs
        <4> HIDE DEF rep, st
        <4> QED
          BY <3>3, <3>5, <4>1, WidthsFit, ZenonT(60)
      <3>7. TargetStart(rep.states[rep.rows[i]], RowSize(rep, i)) = Len(st.tokens) - Size(st) + 1
        BY <3>5, ZenonT(60) DEF TargetStart, RowState
      <3> HIDE DEF st, widths
      <3> QED
        BY <3>1, <3>3, <3>4, <3>6, <3>7
    <2>3. pc' = [pc EXCEPT !["target"] = "exchange"] /\ replica' = replica
      BY <1>9, <2>2, ZenonT(60) DEF TargetForward
    <2> QED
      BY <1>1, <1>4, <2>1, <2>3, ZenonT(60)
  <1>10. CASE TargetVerify
    <2> DEFINE rep == replica["target"]
               new == Applied(rep, verdict', drafted)
    <2>1. Verified /\ pc["target"] = "exchange"
      BY <1>10, TargetVerifyIs, ZenonT(60) DEF TargetVerify
    <2>2. /\ drafted \in [1..Len(rep.rows) -> [1..Gamma -> Token]]
          /\ \A i \in 1..Len(rep.rows) : Justified(RowState(rep, i), drafted[i], verdict'[i])
          /\ replica' = [replica EXCEPT !["target"] = new]
          /\ pc' = [pc EXCEPT !["target"] = "loop"]
      BY <2>1, ZenonT(60) DEF Verified
    <2>3. RoundOf(rep, drafted, new)
      BY <1>1, <2>1, <2>2, AppliedOK, ZenonT(60)
    <2>4. new.next = rep.next
      BY <1>1, <1>7, ZenonT(60)
    <2> HIDE DEF new
    <2> QED
      BY <1>1, <1>5, <2>1, <2>2, <2>3, <2>4, ZenonT(60)
  <1>11. CASE DraftApply
    <2> DEFINE rep == replica["draft"]
               new == Applied(rep, verdict, drafted)
    <2>1. pc["draft"] = "exchange" /\ verdict # <<>>
      BY <1>11, ZenonT(60) DEF DraftApply
    <2>2. /\ drafted \in [1..Len(rep.rows) -> [1..Gamma -> Token]]
          /\ \A i \in 1..Len(rep.rows) : Justified(RowState(rep, i), drafted[i], verdict[i])
      BY <2>1, ZenonT(60) DEF IInv, DraftRan, LockStep
    <2>3. replica' = [replica EXCEPT !["draft"] = new] /\ pc' = [pc EXCEPT !["draft"] = "loop"]
      BY <1>11, DraftApplyIs
    <2>4. RoundOf(rep, drafted, new)
      BY <1>1, <2>1, <2>2, AppliedOK, ZenonT(60)
    <2>5. new.next = rep.next
      BY <1>1, <1>7, ZenonT(60)
    <2> HIDE DEF new
    <2> QED
      BY <1>1, <1>5, <2>1, <2>3, <2>4, <2>5, ZenonT(60)
  <1>12. CASE Finish \/ UNCHANGED vars
    <2>1. pc' = pc /\ replica' = replica
      BY <1>12 DEF Finish, vars
    <2> QED
      BY <1>2, <2>1 DEF FitInv
  <1> QED
    BY <1>3, <1>8, <1>9, <1>10, <1>11, <1>12, ZenonT(60) DEF Next, DraftStep, TargetStep, Side

\* With EnoughRoom the guard of generate_batch does what its message says: no
\* worker writes past the page table of an admitted request.
THEOREM RoundsFit ==
  ASSUME EnoughRoom
  PROVE  Spec => []AdmittedRequestsFit
  <1>1. IInv /\ FitInv /\ [Next]_vars => FitInv'
    BY StepFits
  <1>2. FitInv => AdmittedRequestsFit
    BY DEF FitInv, AdmittedRequestsFit
  <1> QED
    BY <1>1, <1>2, InitFits, RoundsInvariant, PTL DEF Spec

\* Windows of up to three tokens need no more than the guard asks for, as long
\* as finished rows do not stay in the batch.
THEOREM ShortWindowsFit ==
  ASSUME Gamma <= 3, ~Padding
  PROVE  Spec => []AdmittedRequestsFit
  <1>1. EnoughRoom
    <2> SUFFICES ASSUME NEW r \in Request
                 PROVE  PromptLen(r) + MaxTokens[r] + (2 * Gamma - 3) <= Capacity
      BY DEF EnoughRoom
    <2> QED
      BY RoomNumbers
  <1> QED
    BY <1>1, RoundsFit
==============================================================================
