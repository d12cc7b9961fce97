----------------------------- MODULE PearlRounds -----------------------------
(***************************************************************************)
(* The decode loop of NativePearlEngine.generate_batch (linear PEARL): the *)
(* draft group drafts the next window of every scheduled request while the *)
(* target group verifies the previous one.                                 *)
(*                                                                         *)
(* The two groups are the two processes.  Each has its own replica of the  *)
(* request states and of the scheduling state, computes its own batch from *)
(* it, and its own KV cache; they meet in two broadcasts per round, the    *)
(* draft's windows (proposal) and the target's verdict (verdict).          *)
(***************************************************************************)
EXTENDS PearlBatch

CONSTANTS
    EnableContinuousBatching,
    PadFinishedRequests

ContinuousBatching == EnableContinuousBatching /\ NumRequests > MaxNumSeqs

ASSUME RoundsAssumption ==
    /\ EnableContinuousBatching \in BOOLEAN
    /\ PadFinishedRequests \in BOOLEAN
    /\ NumRequests > MaxNumSeqs => EnableContinuousBatching

VARIABLES
    pc,             \* per side: "loop", "forward", "exchange", "done", or the
                    \* error the worker died of ("raised" or "overflow")
    replica,        \* per side: the request states and the scheduling state
    kv,             \* per side: request -> position -> cached token
    predictions,    \* what the target forward of this round returned, per row
    proposal,       \* the draft windows under way to the target, per row
    verdict,        \* the verdict under way to the draft, per row
    drafted         \* the draft's local copy of the windows it sent

vars == <<pc, replica, kv, predictions, proposal, verdict, drafted>>

------------------------------------------------------------------------------
(* The top of the loop: restore completed rows, record the requests that   *)
(* have finished, refill the batch from the queue and choose the rows of   *)
(* the next round.                                                         *)

(* The k smallest members of S, in increasing order.                       *)
Smallest(S, k) ==
    Keep(AllRequests, {r \in S : Cardinality({q \in S : q < r}) < k})

TailBucketSize == IF InitialBatchSize < 2 THEN 1 ELSE InitialBatchSize \div 2

PaddingCount(active) ==
    LET bucket == IF Len(active) > TailBucketSize THEN InitialBatchSize
                                                  ELSE TailBucketSize
    IN  IF Len(active) = 0 \/ bucket <= Len(active) THEN 0
        ELSE bucket - Len(active)

(* Mutant of PaddingIndices: one row short.                                *)
PaddingIndicesShort(active, completed) ==
    Smallest(DOMAIN completed \ {active[i] : i \in 1..Len(active)}, PaddingCount(active) - 1)

PaddingIndices(active, completed) ==
    Smallest(DOMAIN completed \ {active[i] : i \in 1..Len(active)}, PaddingCount(active))

(* _restore_completed_states, and its inlined form for continuous batches. *)
Restored(rep) ==
    [r \in Request |-> IF r \in DOMAIN rep.completed THEN rep.completed[r]
                                                     ELSE rep.states[r]]

NewlyFinished(rep) ==
    {r \in Request \ DOMAIN rep.completed :
        /\ ContinuousBatching \/ PadFinishedRequests
        /\ ContinuousBatching => \E i \in 1..Len(rep.active) : rep.active[i] = r
        /\ IsFinished(rep.states[r], r)}

(* Mutant of Refilled: the last queued request is never admitted.          *)
RefilledForgetsLast(rep) ==
    LET finished == NewlyFinished(rep)
        kept == Keep(rep.active, Request \ finished)
        left == NumRequests - 1 - rep.next
        count == IF Cardinality(finished) < left THEN Cardinality(finished) ELSE left
    IN  [ active |-> kept \o [i \in 1..count |-> rep.next + i - 1], next |-> rep.next + count ]

Refilled(rep) ==
    LET finished == NewlyFinished(rep)
        kept == Keep(rep.active, Request \ finished)
        left == NumRequests - rep.next
        count == IF Cardinality(finished) < left THEN Cardinality(finished) ELSE left
    IN  [ active |-> kept \o [i \in 1..count |-> rep.next + i - 1],
          next |-> rep.next + count ]

(* _canonical_active_indices: post-verify rows first, otherwise stable.    *)
Canonical(states, rows) ==
    Keep(rows, {r \in Request : ~states[r].pre}) \o Keep(rows, {r \in Request : states[r].pre})

(* The rows before they are reordered; none when the loop ends.            *)
Chosen(rep) ==
    LET unfinished == Keep(AllRequests, {r \in Request : ~IsFinished(rep.states[r], r)})
    IN  IF ContinuousBatching
        THEN IF DOMAIN rep.completed = Request THEN <<>>
             ELSE rep.active \o PaddingIndices(rep.active, rep.completed)
        ELSE IF PadFinishedRequests /\ unfinished # <<>> THEN AllRequests
        ELSE unfinished

(* The loop up to the choice of the rows.                                  *)
Refreshed(rep) ==
    LET states == Restored(rep)
        refill == Refilled(rep)
    IN  [ states |-> states,
          completed |-> [r \in DOMAIN rep.completed \cup NewlyFinished(rep) |-> states[r]],
          active |-> refill.active, next |-> refill.next, rows |-> <<>> ]

(* "cannot fill its ACLGraph tail bucket".                                 *)
TailBucketFilled(rep) ==
    \/ ~ContinuousBatching
    \/ rep.rows = <<>>
    \/ Len(rep.rows) = Len(rep.active) + PaddingCount(rep.active)

------------------------------------------------------------------------------
RowSize(rep, i) == VerificationSize(rep.states[rep.rows[i]], Gamma, 0)

RowSizes(rep) == [i \in 1..Len(rep.rows) |-> RowSize(rep, i)]

(* The cache of r after a forward over the rows: row i feeds feeds[i] from *)
(* position starts[i] on.                                                  *)
FedCache(rep, cache, r, starts, feeds) ==
    LET mine == {i \in 1..Len(rep.rows) : rep.rows[i] = r}
    IN  IF mine = {} THEN cache
        ELSE LET i == CHOOSE n \in mine : TRUE IN Written(cache, starts[i], feeds[i])

------------------------------------------------------------------------------
Init ==
    \E first \in [Request -> Token], captured \in BOOLEAN :
        /\ \A r \in Request : first[r] \in FirstTokens(r)
        /\ captured => Gamma > 1
        /\ pc = [s \in Side |-> "loop"]
        /\ replica = [s \in Side |->
              [ states |-> [r \in Request |-> PrefilledState(Prompt[r], first[r])],
                completed |-> [r \in {} |-> 0],
                active |-> SubSeq(AllRequests, 1, InitialBatchSize),
                next |-> InitialBatchSize, rows |-> <<>> ]]
        /\ kv = [s \in Side |-> [r \in Request |->
                    PrefilledCache(r, first[r], captured /\ s = "target" /\ r < InitialBatchSize)]]
        /\ predictions = <<>>
        /\ proposal = <<>>
        /\ verdict = <<>>
        /\ drafted = <<>>

(* The worker raises why and leaves the round; the others never hear of it. *)
Raise(s, why) ==
    /\ pc' = [pc EXCEPT ![s] = why]
    /\ UNCHANGED <<replica, kv, predictions, proposal, verdict, drafted>>

(* The loop from its top to the choice of the rows (896-990), on either    *)
(* side.                                                                   *)
Schedule(s) ==
    /\ pc[s] = "loop"
    /\ \E top \in {Refreshed(replica[s])} :
       \E rep \in {[top EXCEPT !.rows = Canonical(top.states, Chosen(top))]} :
          /\ replica' = [replica EXCEPT ![s] = rep]
          /\ pc' = [pc EXCEPT ![s] = IF ~TailBucketFilled(rep) THEN "raised"
                                     ELSE IF rep.rows = <<>> THEN "done"
                                     ELSE "forward"]
    /\ UNCHANGED <<kv, predictions, proposal, verdict, drafted>>

(* The draft ranks run Gamma forwards and broadcast the windows.           *)
DraftForward ==
    /\ pc["draft"] = "forward"
    /\ LET rep == replica["draft"]
           rows == 1..Len(rep.rows)
           state(i) == rep.states[rep.rows[i]]
       IN  IF \E i \in rows : DraftLastPosition(state(i), Gamma) > Capacity
           THEN Raise("draft", "overflow")
           ELSE
              /\ \E windows \in [rows -> [1..Gamma -> Token]] :
                    /\ drafted' = windows
                    /\ proposal' = [i \in rows |->
                          [verify |-> VerificationWindow(state(i), windows[i]),
                           next |-> windows[i]]]
                    /\ kv' = [kv EXCEPT !["draft"] = [r \in Request |->
                          FedCache(rep, @[r], r, [i \in rows |-> Len(state(i).tokens)],
                                   [i \in rows |-> DraftFeed(state(i), windows[i])])]]
              /\ pc' = [pc EXCEPT !["draft"] = "exchange"]
              /\ UNCHANGED <<replica, predictions, verdict>>

(* The target ranks run one forward over their verification rows.          *)
TargetForward ==
    /\ pc["target"] = "forward"
    /\ LET rep == replica["target"]
           rows == 1..Len(rep.rows)
           state(i) == rep.states[rep.rows[i]]
           start(i) == TargetStart(state(i), RowSize(rep, i))
           widths == ModelWidths(RowSizes(rep))
       IN  IF \E i \in rows : start(i) + widths[i] - 1 > Capacity
           THEN Raise("target", "overflow")
           ELSE
              /\ kv' = [kv EXCEPT !["target"] = [r \in Request |->
                    FedCache(rep, @[r], r, [i \in rows |-> start(i)],
                             [i \in rows |-> TargetFeed(state(i), RowSize(rep, i), widths[i])])]]
              /\ predictions' = [i \in rows |->
                    Predictions(kv'["target"][rep.rows[i]], state(i), RowSize(rep, i))]
              /\ pc' = [pc EXCEPT !["target"] = "exchange"]
              /\ UNCHANGED <<replica, proposal, verdict, drafted>>

(* The target ranks receive the windows, form the verdict, broadcast it    *)
(* and apply it (1032-1109).                                               *)
TargetVerify ==
    /\ pc["target"] = "exchange"
    /\ proposal # <<>>
    /\ LET rep == replica["target"]
           rows == 1..Len(rep.rows)
           fits == /\ Len(proposal) = Len(rep.rows)
                   /\ \A i \in rows : Len(proposal[i].verify) = RowSize(rep, i)
           row(r) == CHOOSE i \in rows : rep.rows[i] = r
       IN  IF ~fits THEN Raise("target", "raised")
           ELSE
              /\ \E results \in [rows -> UNION {Verdicts(predictions[i], proposal[i].verify) : i \in rows}] :
                    /\ \A i \in rows : results[i] \in Verdicts(predictions[i], proposal[i].verify)
                    /\ verdict' = results
                    /\ replica' = [replica EXCEPT !["target"].states = [r \in Request |->
                          IF \E i \in rows : rep.rows[i] = r
                          THEN ApplyTargetVerification(@[r], RowSize(rep, row(r)),
                                  results[row(r)].accepted, results[row(r)].correction,
                                  proposal[row(r)].next)
                          ELSE @[r]]]
              /\ proposal' = <<>>
              /\ predictions' = <<>>
              /\ pc' = [pc EXCEPT !["target"] = "loop"]
              /\ UNCHANGED <<kv, drafted>>

(* The draft ranks receive the verdict, append their own windows and apply *)
(* the mirrored transition.                                                *)
DraftApply ==
    /\ pc["draft"] = "exchange"
    /\ verdict # <<>>
    /\ LET rep == replica["draft"]
           rows == 1..Len(rep.rows)
           fits == /\ Len(verdict) = Len(rep.rows)
                   /\ \A i \in rows : ValidVerification(Gamma, RowSize(rep, i),
                          verdict[i].accepted, verdict[i].correction, drafted[i])
           row(r) == CHOOSE i \in rows : rep.rows[i] = r
           extended(r) == [rep.states[r] EXCEPT !.tokens = @ \o drafted[row(r)]]
       IN  IF ~fits THEN Raise("draft", "raised")
           ELSE
              /\ replica' = [replica EXCEPT !["draft"].states = [r \in Request |->
                    IF \E i \in rows : rep.rows[i] = r
                    THEN ApplyDraftVerification(extended(r), RowSize(rep, row(r)),
                            verdict[row(r)].accepted, verdict[row(r)].correction,
                            drafted[row(r)])
                    ELSE @[r]]]
              /\ verdict' = <<>>
              /\ drafted' = <<>>
              /\ pc' = [pc EXCEPT !["draft"] = "loop"]
              /\ UNCHANGED <<kv, predictions, proposal>>

(* Both loops have ended, or one worker has raised and the other waits for *)
(* it in a collective.                                                     *)
Over == (\A s \in Side : pc[s] = "done") \/ (\E s \in Side : pc[s] \in {"raised", "overflow"})

Finish == Over /\ UNCHANGED vars

DraftStep == Schedule("draft") \/ DraftForward \/ DraftApply

TargetStep == Schedule("target") \/ TargetForward \/ TargetVerify

Next == DraftStep \/ TargetStep \/ Finish

Spec == Init /\ [][Next]_vars /\ WF_vars(DraftStep) /\ WF_vars(TargetStep)

------------------------------------------------------------------------------
(* Properties.                                                             *)

(* No worker hits one of the engine's consistency errors: the windows have *)
(* the width the target expects, the verdict is legal for the draft's      *)
(* state and a draining batch can be padded (native_engine.py 237-252,     *)
(* 3058-3079, 3596).                                                       *)
NoWorkerRaises == \A s \in Side : pc[s] # "raised"

(* A request that generate_batch admits (759-761) never runs off its page  *)
(* table: ensure_capacity has a page for every position any forward feeds  *)
(* (native_cache.py 90-92).                                                *)
AdmittedRequestsFit == \A s \in Side : pc[s] # "overflow"

(* Between rounds committed_length is exactly what token_ids says: all of  *)
(* it before a one-token verification, all but the pending window without  *)
(* its first token otherwise; and the reported acceptance segments add up  *)
(* to the tokens committed after prefill (native_engine.py 140-262).       *)
CommittedLengthExact ==
    \A s \in Side, r \in Request :
        LET st == replica[s].states[r]
        IN  /\ st.committed = IF st.pre THEN Len(st.tokens)
                                        ELSE Len(st.tokens) - (st.pending - 1)
            /\ st.segments + st.current = st.committed - PromptLen(r) - 1

(* Whenever both groups meet for the exchange of a round they have the     *)
(* same view of every request and the same rows in the same order, though  *)
(* each derived them from its own replica and neither is sent              *)
(* (native_engine.py 896-990, 1087-1102).                                  *)
ReplicasAgree ==
    (pc["draft"] = "exchange" /\ pc["target"] = "exchange" /\ verdict = <<>>)
        => replica["draft"] = replica["target"]

(* The cached prefix of every request is current when a forward is about   *)
(* to attend to it: no position before the ones the forward rewrites still *)
(* holds a token that was rolled back or a padding row                     *)
(* (native_engine.py 2560-2628, 2933-2943).                                *)
CacheFresh ==
    \A s \in Side, r \in Request :
        pc[s] \in {"loop", "forward"} =>
            LET st == Restored(replica[s])[r]
                rewritten == IF s = "draft" THEN 1 ELSE VerificationSize(st, Gamma, 0)
            IN  \A p \in 1..(Len(st.tokens) - rewritten) : kv[s][r][p] = st.tokens[p]

(* The completion that the target leader would return for r now: the       *)
(* snapshot of a completed row, or the live state.                         *)
Result(r) ==
    TruncateCompletion(
        CommittedCompletion(Restored(replica["target"])[r], PromptLen(r)), MaxTokens[r])

Reference == INSTANCE AutoregressiveDecode
                WITH MaxRun <- Gamma, out <- [r \in Request |-> Result(r)]

(* Speculation is invisible: the visible completions evolve as target-only *)
(* decoding would produce them, never shrink, and padded replays of        *)
(* completed rows leave them alone (native_engine.py 1144-1168, 3566).     *)
RefinesAutoregressive == Reference!Spec

(* Every request finishes and both groups leave the loop in the same       *)
(* round: neither waits for a broadcast the other will never make.         *)
Termination == <>(\A s \in Side : pc[s] = "done")

(* When the loop ends every request has a complete result.                 *)
ResultsComplete ==
    pc["target"] = "done" => \A r \in Request : Reference!Stopped(Result(r), r)
=============================================================================
