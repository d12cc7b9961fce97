--------------------------- MODULE SpecRhythmEngine ---------------------------
(***************************************************************************)
(* The dual-batch pipeline of the native engine                            *)
(* (_generate_spec_rhythm_decode): in one service step the target verifies *)
(* the ready proposals of one home batch while the draft prepares the next *)
(* proposals of the other one and, for urgent requests, an eager           *)
(* continuation of the window under verification.                          *)
(*                                                                         *)
(* As in PearlRounds the two groups are two processes with a replica each, *)
(* here including the pipeline controller and the proposal payloads.       *)
(* Tickets are never agreed on: both sides create them from their own      *)
(* replica, and the draft's envelope is compared with the target's.        *)
(*                                                                         *)
(* The float-valued policy is abstract.  Which candidates are urgent, and  *)
(* what shape() allocates, may be anything SpecRhythmBudget promises, but  *)
(* both sides compute it from the same broadcast values: the side that     *)
(* plans a cycle first makes the choice and the other repeats it, unless   *)
(* it looked up another roofline.                                          *)
(***************************************************************************)
EXTENDS PearlBatch, SpecRhythmController, SpecRhythmBudget

CONSTANTS
    DraftTokenBudget,   \* spec_rhythm_draft_token_budget, or NoBudget
    MaxEagerTokens,     \* spec_rhythm_max_eager_tokens
    LateRequest         \* the requests whose arrival_ts lies in the future

ASSUME EngineAssumption ==
    /\ MaxGamma = Gamma
    /\ DOMAIN RequestMaxGamma = Request
    /\ DraftTokenBudget \in Nat \cup {NoBudget}
    /\ MaxEagerTokens \in Nat
    /\ LateRequest \subseteq Request

VARIABLES
    pc,             \* per side: where in the service step, "done", or the
                    \* error the worker died of ("raised" or "overflow")
    eng,            \* per side: states, ctl, active, waiting, completed,
                    \* payloads, and of this cycle rows, tickets and finished
    kv,             \* per side: request -> position -> cached token
    predictions,    \* what the target forward of this cycle returned, per row
    toTarget,       \* proposal envelopes under way
    toDraft,        \* verdicts and clock values under way
    policy,         \* policy choices only one side has made so far
    arrived         \* the requests whose arrival_ts has passed

vars == <<pc, eng, kv, predictions, toTarget, toDraft, policy, arrived>>
------------------------------------------------------------------------------
(* admit_ready: requests that have arrived enter in queue order, each into *)
(* the home batch that is smaller at that moment.                          *)
AdmitOne(e, now) ==
    LET here == Keep(e.waiting, now)
        r == Head(here)
    IN  IF here = <<>> \/ Len(e.active) >= InitialBatchSize THEN e
        ELSE [e EXCEPT !.waiting = Keep(@, Request \ {r}),
                       !.active = Append(@, r),
                       !.ctl.reqs[r].home = LeastLoadedHome(e.ctl.reqs, Members(e.active))]

AdmitReady(e, now) ==
    LET admitted[n \in 0..InitialBatchSize] ==
            IF n = 0 THEN e ELSE AdmitOne(admitted[n - 1], now)
    IN  admitted[InitialBatchSize]

PayloadsOf(e, R) == {i \in DOMAIN e.payloads : e.payloads[i].ticket.request \in R}

(* Mutant of Retired: the payloads of finished requests stay.              *)
RetiredKeepsPayloads(e) ==
    [e EXCEPT !.completed = [r \in DOMAIN @ \cup e.finished |-> e.states[r]],
              !.ctl = DiscardInactivePayloads(@, DOMAIN e.ctl.reqs \ e.finished),
              !.active = Keep(@, Request \ e.finished), !.finished = {}]

(* Snapshot and retire the requests that finished in this cycle.           *)
Retired(e) ==
    LET staying == DOMAIN e.ctl.reqs \ e.finished
    IN  [e EXCEPT !.completed = [r \in DOMAIN @ \cup e.finished |-> e.states[r]],
                  !.ctl = DiscardInactivePayloads(@, staying),
                  !.payloads = Drop(@, PayloadsOf(e, e.finished)),
                  !.active = Keep(@, Request \ e.finished),
                  !.finished = {}]

(* The tests of NativeSpecRhythmDevicePayload.validate_for.                *)
ValidPayload(p, st) ==
    /\ p.ticket.epoch = st.epoch
    /\ Len(p.verify) = p.size
    /\ p.size = VerificationSize(st, p.ticket.gamma, 0)
    /\ Len(p.next) = p.ticket.gamma

Work(e, plan, budgets) ==
    LET eagerBudget(r) == Least(budgets[r], MaxEagerTokens)
        normal == Keep(e.active, plan.normal)
        eager == Keep(e.active, {r \in DOMAIN budgets \ plan.normal : eagerBudget(r) > 0})
    IN  [i \in 1..Len(normal) |-> [r |-> normal[i], gamma |-> budgets[normal[i]], eager |-> FALSE]]
        \o [i \in 1..Len(eager) |-> [r |-> eager[i], gamma |-> eagerBudget(eager[i]), eager |-> TRUE]]

(* The payload of the ready proposal of r; an eager continuation has it as *)
(* its parent.                                                             *)
ParentOf(e, r) == e.payloads[e.ctl.ready[r].id]

(* The width that the verification of a new proposal will have.            *)
TicketSize(e, t) ==
    IF t.eager THEN ParentOf(e, t.request).ticket.gamma
               ELSE VerificationSize(e.states[t.request], Gamma, 0)

PublishAll(c, payloads) ==
    LET published[n \in 0..Len(payloads)] ==
            IF n = 0 THEN c ELSE Publish(published[n - 1], payloads[n].ticket)
    IN  published[Len(payloads)]

Published(e, payloads) ==
    [e EXCEPT !.ctl = PublishAll(@, payloads),
              !.payloads = [i \in DOMAIN @ \cup {payloads[n].ticket.id : n \in 1..Len(payloads)} |->
                  IF i \in DOMAIN @ THEN @[i]
                  ELSE CHOOSE p \in Members(payloads) : p.ticket.id = i]]

AllPublishable(e, payloads) ==
    \A i \in 1..Len(payloads) : Publishable(e.ctl, payloads[i].ticket)

(* Mutant of EagerTrimmed: the eager window is left in token_ids.          *)
EagerNotTrimmed(e, r, full) == e.states[r]

(* The draft's state of a row whose eager window has become worthless.     *)
EagerTrimmed(e, r, full) ==
    IF r \in DOMAIN e.ctl.staged /\ ~full
    THEN [e.states[r] EXCEPT !.tokens = DropLast(@, e.ctl.staged[r].gamma)]
    ELSE e.states[r]

(* Mutant of Spent: the payload of a promoted continuation is dropped too. *)
SpentDropsPromoted(e, r, full) ==
    {ParentOf(e, r).ticket.id} \cup (IF r \in DOMAIN e.ctl.staged THEN {e.ctl.staged[r].id} ELSE {})

(* The proposals that a verdict uses up: the verified one, and its         *)
(* continuation unless that is promoted.                                   *)
Spent(e, r, full) ==
    {ParentOf(e, r).ticket.id} \cup
    (IF r \in DOMAIN e.ctl.staged /\ ~Promotes(e.ctl, r, full) THEN {e.ctl.staged[r].id} ELSE {})

(* The state update of one verified row: the transition of the side, the   *)
(* controller's, and what becomes of the payloads.                         *)
RowApplied(s, e, r, result) ==
    LET p == ParentOf(e, r)
        full == result.accepted = p.size
        after == IF s = "draft"
                 THEN ApplyDraftVerification(EagerTrimmed(e, r, full), p.size,
                                             result.accepted, result.correction, p.next)
                 ELSE ApplyTargetVerification(e.states[r], p.size,
                                              result.accepted, result.correction, p.next)
    IN  [e EXCEPT !.states[r] = after,
                  !.ctl = FinishVerification(@, r, full),
                  !.payloads = Drop(@, Spent(e, r, full)),
                  !.finished = IF IsFinished(after, r) THEN @ \cup {r} ELSE @]

RowsApplied(s, e, results) ==
    LET applied[n \in 0..Len(e.rows)] ==
            IF n = 0 THEN e ELSE RowApplied(s, applied[n - 1], e.rows[n], results[e.rows[n]])
    IN  applied[Len(e.rows)]

LegalResults(e, results) ==
    /\ DOMAIN results = Members(e.rows)
    /\ \A r \in Members(e.rows) :
          LET p == ParentOf(e, r)
          IN  /\ Consumable(e.ctl, r)
              /\ ValidVerification(Gamma, p.size, results[r].accepted, results[r].correction, p.next)
------------------------------------------------------------------------------
Init ==
    \E first \in [Request -> Token], captured \in BOOLEAN :
        /\ \A r \in Request : first[r] \in FirstTokens(r)
        /\ captured => Gamma > 1
        /\ pc = [s \in Side |-> "admit"]
        /\ eng = [s \in Side |->
              [ states |-> [r \in Request |-> PrefilledState(Prompt[r], first[r])],
                ctl |-> NewController([r \in Request |-> [home |-> r % 2, epoch |-> 0]]),
                active |-> <<>>, waiting |-> AllRequests, completed |-> EmptyDict,
                payloads |-> EmptyDict, rows |-> <<>>, tickets |-> <<>>, finished |-> {} ]]
        /\ kv = [s \in Side |-> [r \in Request |->
                    PrefilledCache(r, first[r], captured /\ s = "target" /\ r < InitialBatchSize)]]
        /\ predictions = EmptyDict
        /\ toTarget = <<>>
        /\ toDraft = <<>>
        /\ policy = <<>>
        /\ arrived = Request \ LateRequest

(* The worker raises why; the others never hear of it.                     *)
Raise(s, why) ==
    /\ pc' = [pc EXCEPT ![s] = why]
    /\ UNCHANGED <<eng, kv, predictions, toTarget, toDraft, policy, arrived>>

Arrive(r) ==
    /\ r \notin arrived
    /\ arrived' = arrived \cup {r}
    /\ UNCHANGED <<pc, eng, kv, predictions, toTarget, toDraft, policy>>

(* The end of a service step (and of the setup): retire and admit, with    *)
(* the clock value now.  An idle group polls; polls that admit nobody      *)
(* change nothing and are left out.                                        *)
Admit(s, now) ==
    /\ pc[s] = "admit" \/ (pc[s] = "idle" /\ Members(eng[s].waiting) \cap now # {})
    /\ LET e == AdmitReady(Retired(eng[s]), now)
       IN  /\ eng' = [eng EXCEPT ![s] = e]
           /\ pc' = [pc EXCEPT ![s] = IF e.active # <<>> THEN "plan"
                                      ELSE IF e.waiting # <<>> THEN "idle" ELSE "done"]
    /\ UNCHANGED <<kv, predictions, toTarget, policy, arrived>>

(* The target leader reads the clock and broadcasts it.                    *)
TargetAdmit ==
    /\ Admit("target", arrived)
    /\ toDraft' = Append(toDraft, [kind |-> "clock", now |-> arrived])

DraftAdmit ==
    /\ toDraft # <<>> /\ Head(toDraft).kind = "clock"
    /\ Admit("draft", Head(toDraft).now)
    /\ toDraft' = Tail(toDraft)

(* The policy choice this side has to repeat, if the other planned first.  *)
Repeats(s) == policy # <<>> /\ Head(policy).side # s

(* build_plan, the payload checks, shape and new_ticket (1391-1474).       *)
Plan(s) ==
    /\ pc[s] = "plan"
    /\ LET active == Members(eng[s].active)
           e == [eng[s] EXCEPT !.ctl = DiscardInactivePayloads(@, active)]
           plan == ExecutionPlan(e.ctl, active)
           context == {Len(e.states[r].tokens) : r \in active}
           longest == CHOOSE n \in context : \A m \in context : m <= n
           roof == VerificationRoof(Cardinality(active), longest)
           available == AvailableDraft(roof, DraftTokenBudget)
           sound == /\ plan.phase # "complete"
                    /\ \A r \in plan.target :
                          /\ e.ctl.ready[r].id \in DOMAIN e.payloads
                          /\ ValidPayload(ParentOf(e, r), e.states[r])
                    /\ MinimumFits(plan.normal, roof, available)
       IN  IF ~sound THEN Raise(s, "raised")
           ELSE
              /\ \E urgent \in IF Repeats(s) THEN {Head(policy).urgent \cap plan.eager}
                               ELSE IF MaxEagerTokens > 0 THEN SUBSET plan.eager ELSE {{}} :
                 \E budgets \in IF Repeats(s) /\ Head(policy).roof = roof
                                   /\ DOMAIN Head(policy).budgets = plan.normal \cup urgent
                                THEN {Head(policy).budgets}
                                ELSE ShapeOutcomes(plan.normal, urgent, roof, available) :
                    LET work == Work(e, plan, budgets)
                        tickets == [i \in 1..Len(work) |->
                            [Ticket(e.ctl, work[i].r, work[i].gamma, work[i].eager)
                                EXCEPT !.id = @ + i - 1]]
                    IN  /\ eng' = [eng EXCEPT ![s] =
                              [e EXCEPT !.rows = Keep(e.active, plan.target),
                                        !.tickets = tickets,
                                        !.ctl.nextId = @ + Len(work)]]
                        /\ policy' = IF Repeats(s) THEN Tail(policy)
                              ELSE Append(policy, [side |-> s, urgent |-> urgent, roof |-> roof,
                                                   budgets |-> budgets])
              /\ pc' = [pc EXCEPT ![s] = "forward"]
              /\ UNCHANGED <<kv, predictions, toTarget, toDraft, arrived>>

(* The draft group drafts one window per ticket, appends it to token_ids,  *)
(* sends the envelope and publishes the proposals (1480-1553).             *)
DraftForward ==
    /\ pc["draft"] = "forward"
    /\ LET e == eng["draft"]
           rows == 1..Len(e.tickets)
           state(i) == e.states[e.tickets[i].request]
           row(r) == CHOOSE i \in rows : e.tickets[i].request = r
           drafted == {e.tickets[i].request : i \in rows}
           prefix(i) == IF e.tickets[i].eager THEN Tail(ParentOf(e, e.tickets[i].request).next)
                        ELSE TakeLast(state(i).tokens, TicketSize(e, e.tickets[i]) - 1)
       IN  IF \E i \in rows : DraftLastPosition(state(i), e.tickets[i].gamma) > Capacity
           THEN Raise("draft", "overflow")
           ELSE
              \E windows \in [rows -> UNION {[1..n -> Token] : n \in 1..Gamma}] :
                 /\ \A i \in rows : Len(windows[i]) = e.tickets[i].gamma
                 /\ LET payloads == [i \in rows |->
                            [ ticket |-> e.tickets[i], verify |-> prefix(i) \o <<windows[i][1]>>,
                              next |-> windows[i], size |-> TicketSize(e, e.tickets[i]) ]]
                        extended == [e EXCEPT !.states = [r \in Request |->
                            IF r \in drafted
                            THEN [e.states[r] EXCEPT !.tokens = @ \o windows[row(r)]]
                            ELSE e.states[r]]]
                    IN  IF ~AllPublishable(e, payloads) THEN Raise("draft", "raised")
                        ELSE
                           /\ eng' = [eng EXCEPT !["draft"] = Published(extended, payloads)]
                           /\ kv' = [kv EXCEPT !["draft"] = [r \in Request |->
                                 IF r \in drafted
                                 THEN Written(@[r], Len(e.states[r].tokens),
                                              DraftFeed(e.states[r], windows[row(r)]))
                                 ELSE @[r]]]
                           /\ toTarget' = IF rows = {} THEN toTarget ELSE Append(toTarget, payloads)
                           /\ pc' = [pc EXCEPT !["draft"] = IF e.rows # <<>> THEN "verdict" ELSE "barrier"]
                           /\ UNCHANGED <<predictions, toDraft, policy, arrived>>

(* The target group runs the verification rows (1510, 2902-2980).          *)
TargetForward ==
    /\ pc["target"] = "forward"
    /\ LET e == eng["target"]
           rows == Members(e.rows)
           size(r) == ParentOf(e, r).size
           start(r) == TargetStart(e.states[r], size(r))
           widths == ModelWidths([i \in 1..Len(e.rows) |-> size(e.rows[i])])
           width(r) == widths[CHOOSE i \in 1..Len(e.rows) : e.rows[i] = r]
       IN  IF \E r \in rows : start(r) + width(r) - 1 > Capacity
           THEN Raise("target", "overflow")
           ELSE
              /\ kv' = [kv EXCEPT !["target"] = [r \in Request |->
                    IF r \in rows
                    THEN Written(@[r], start(r), TargetFeed(e.states[r], size(r), width(r)))
                    ELSE @[r]]]
              /\ predictions' = [r \in rows |-> Predictions(kv'["target"][r], e.states[r], size(r))]
              /\ pc' = [pc EXCEPT !["target"] = IF e.tickets # <<>> THEN "receive" ELSE "verify"]
              /\ UNCHANGED <<eng, toTarget, toDraft, policy, arrived>>

(* The target group compares the envelope with its own tickets and         *)
(* publishes the proposals (1534-1553, 2776-2900).                         *)
TargetReceive ==
    /\ pc["target"] = "receive"
    /\ toTarget # <<>>
    /\ LET e == eng["target"]
           envelope == Head(toTarget)
           matches == /\ Len(envelope) = Len(e.tickets)
                      /\ \A i \in 1..Len(envelope) :
                            /\ envelope[i].ticket = e.tickets[i]
                            /\ envelope[i].size = TicketSize(e, e.tickets[i])
       IN  IF ~matches THEN Raise("target", "misrouted")
           ELSE IF ~AllPublishable(e, envelope) THEN Raise("target", "raised")
           ELSE /\ eng' = [eng EXCEPT !["target"] = Published(e, envelope)]
                /\ toTarget' = Tail(toTarget)
                /\ pc' = [pc EXCEPT !["target"] = IF e.rows # <<>> THEN "verify" ELSE "barrier"]
                /\ UNCHANGED <<kv, predictions, toDraft, policy, arrived>>

(* The target group forms the verdict, broadcasts it and applies it.       *)
TargetVerify ==
    /\ pc["target"] = "verify"
    /\ LET e == eng["target"]
           rows == Members(e.rows)
           verdicts(r) == Verdicts(predictions[r], ParentOf(e, r).verify)
       IN  \E results \in [rows -> UNION {verdicts(r) : r \in rows}] :
              /\ \A r \in rows : results[r] \in verdicts(r)
              /\ IF ~LegalResults(e, results) THEN Raise("target", "raised")
                 ELSE /\ eng' = [eng EXCEPT !["target"] = RowsApplied("target", e, results)]
                      /\ toDraft' = Append(toDraft, [kind |-> "verdict", results |-> results])
                      /\ predictions' = EmptyDict
                      /\ pc' = [pc EXCEPT !["target"] = "admit"]
                      /\ UNCHANGED <<kv, toTarget, policy, arrived>>

(* The draft group receives the verdict and applies it.                    *)
DraftApply ==
    /\ pc["draft"] = "verdict"
    /\ toDraft # <<>> /\ Head(toDraft).kind = "verdict"
    /\ LET e == eng["draft"]
           results == Head(toDraft).results
       IN  IF ~LegalResults(e, results) THEN Raise("draft", "raised")
           ELSE /\ eng' = [eng EXCEPT !["draft"] = RowsApplied("draft", e, results)]
                /\ toDraft' = Tail(toDraft)
                /\ pc' = [pc EXCEPT !["draft"] = "admit"]
                /\ UNCHANGED <<kv, predictions, toTarget, policy, arrived>>

(* A warmup step has no verdict and ends in a barrier of all ranks.        *)
Barrier ==
    /\ \A s \in Side : pc[s] = "barrier"
    /\ pc' = [s \in Side |-> "admit"]
    /\ UNCHANGED <<eng, kv, predictions, toTarget, toDraft, policy, arrived>>

(* Both loops have ended, or one worker has raised and the other waits for *)
(* it in a collective.                                                     *)
Over == \/ \A s \in Side : pc[s] = "done"
        \/ \E s \in Side : pc[s] \in {"raised", "misrouted", "overflow"}

Finish == Over /\ UNCHANGED vars

DraftStep == DraftAdmit \/ Plan("draft") \/ DraftForward \/ DraftApply

TargetStep == TargetAdmit \/ Plan("target") \/ TargetForward \/ TargetReceive \/ TargetVerify

Next == DraftStep \/ TargetStep \/ Barrier \/ (\E r \in Request : Arrive(r)) \/ Finish

(* Every rank keeps running, the barrier opens, and time passes.           *)
Spec ==
    /\ Init /\ [][Next]_vars
    /\ WF_vars(DraftStep) /\ WF_vars(TargetStep) /\ WF_vars(Barrier)
    /\ \A r \in Request : WF_vars(Arrive(r))
------------------------------------------------------------------------------
(* Properties.                                                             *)

(* No worker hits a consistency error of its own: there is always          *)
(* something to verify or to draft (1393), every ready ticket has its      *)
(* payload and the payload fits the request's state (1404-1405, 302-336),  *)
(* publish and finish_verification find the slots they need, and every     *)
(* verdict is legal (237-252).  Nor does a forward run off the page table  *)
(* when the context has one position more than generate_batch asks for     *)
(* (759-761); with none to spare, an eager window on top of a pending and  *)
(* a ready one does.                                                       *)
NoWorkerRaises == \A s \in Side : pc[s] \notin {"raised", "overflow"}

(* The envelope the draft sends describes the tickets the target made up   *)
(* for the same cycle: "SpecRhythm received a misrouted or stale HCCL      *)
(* mailbox envelope" (native_engine.py 2850-2851) never happens.           *)
EnvelopeMatches == \A s \in Side : pc[s] # "misrouted"

(* Both sides stand before the same service step.                          *)
AtStepBoundary == (\A s \in Side : pc[s] = "plan") /\ toDraft = <<>>

(* What the draft has appended beyond the target's token_ids.              *)
InFlight(e, r) == IF r \in DOMAIN e.ctl.ready THEN ParentOf(e, r).next ELSE <<>>

(* Before every service step the two replicas agree on everything but the  *)
(* windows under way: the draft's token_ids are the target's plus the      *)
(* ready window, although rejected windows, eager windows and promotions   *)
(* took different paths on the two sides (1488-1494, 1640-1660).           *)
ReplicasAgree ==
    AtStepBoundary =>
        LET d == eng["draft"]
            t == eng["target"]
        IN  /\ \A f \in {"ctl", "active", "waiting", "payloads"} : d[f] = t[f]
            /\ DOMAIN d.completed = DOMAIN t.completed
            /\ \A r \in Members(t.active) :
                  d.states[r] = [t.states[r] EXCEPT !.tokens = @ \o InFlight(t, r)]

(* Between service steps the mailboxes and the payload store agree: every  *)
(* ready ticket has its payload, no payload is left behind by a rejected,  *)
(* promoted or retired proposal, no eager continuation outlives the        *)
(* verdict on its parent, and the controller counts verdicts as the        *)
(* request state does (1662-1680, 1716).                                   *)
MailboxesClean ==
    \A s \in Side : pc[s] = "plan" =>
        LET e == eng[s]
        IN  /\ DOMAIN e.payloads = {e.ctl.ready[r].id : r \in DOMAIN e.ctl.ready}
            /\ DOMAIN e.ctl.staged = {}
            /\ DOMAIN e.ctl.ready \subseteq Members(e.active)
            /\ \A r \in Request : e.ctl.reqs[r].epoch = e.states[r].epoch

(* When a forward attends to a request, its cached prefix is what          *)
(* token_ids says, whatever eager or rejected windows were written there.  *)
CacheFresh ==
    \A s \in Side : pc[s] = "plan" =>
        \A r \in Members(eng[s].active) :
            LET st == eng[s].states[r]
                rewritten == IF s = "draft" THEN 1 ELSE VerificationSize(st, Gamma, 0)
            IN  \A p \in 1..(Len(st.tokens) - rewritten) : kv[s][r][p] = st.tokens[p]

(* The completion the target leader would return for r now.                *)
Result(r) ==
    LET e == eng["target"]
        st == IF r \in DOMAIN e.completed THEN e.completed[r] ELSE e.states[r]
    IN  TruncateCompletion(CommittedCompletion(st, PromptLen(r)), MaxTokens[r])

Reference == INSTANCE AutoregressiveDecode
                WITH MaxRun <- Gamma, out <- [r \in Request |-> Result(r)]

(* Two batches, eager continuations and variable windows change nothing    *)
(* that can be seen: the completions evolve as target-only decoding would  *)
(* produce them.                                                           *)
RefinesAutoregressive == Reference!Spec

(* Every request that arrives is served to the end, and both groups leave  *)
(* the loop together.                                                      *)
Termination == <>(\A s \in Side : pc[s] = "done")

(* When the loop ends every request has a complete result.                 *)
ResultsComplete ==
    pc["target"] = "done" => \A r \in Request : Reference!Stopped(Result(r), r)
=============================================================================
