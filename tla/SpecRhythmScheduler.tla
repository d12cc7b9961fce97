------------------------- MODULE SpecRhythmScheduler -------------------------
(***************************************************************************)
(* The scheduler adapter of spec_rhythm.py (SpecRhythmScheduler, 540-644)  *)
(* driven by a serving front end: requests are admitted, preempted,        *)
(* reactivated and removed at any time, while workers draft proposals for  *)
(* the last schedule, publish them when they are done and report verdicts. *)
(* The budget that schedule() also returns is BudgetShaper's subject; here *)
(* a proposal has any width up to MaxGamma.                                *)
(***************************************************************************)
EXTENDS SpecRhythmController

CONSTANTS
    Request,        \* request indices
    MaxNumSeqs,
    MaxGamma,
    MaxProposals    \* bound: how many tickets a behaviour creates

ASSUME SchedulerAssumption ==
    MaxNumSeqs \in Nat \ {0} /\ MaxGamma \in Nat \ {0} /\ MaxProposals \in Nat

VARIABLES
    ctl,            \* controller (it shares request_states)
    active,         \* _active
    plan,           \* the execution plan of the last schedule()
    drafting,       \* tickets created and not yet published
    lifecycle,      \* ProposalLifecycle of every ticket created so far, by id
    parent,         \* history: id of an eager ticket -> id of the ready ticket
                    \* whose window it continues
    lastVerdict     \* history: registered request -> the ticket its last verdict
                    \* consumed, and whether the window was accepted in full

vars == <<ctl, active, plan, drafting, lifecycle, parent, lastVerdict>>

NoTicket == -1

NoPlan == [targetHome |-> NoHome, target |-> {}, normal |-> {}, eager |-> {},
           phase |-> "complete"]

Init ==
    /\ ctl = NewController(EmptyDict)
    /\ active = {}
    /\ plan = NoPlan
    /\ drafting = {}
    /\ lifecycle = EmptyDict
    /\ parent = EmptyDict
    /\ lastVerdict = EmptyDict

(* The ids a dict operation takes out of the two mailboxes.                *)
MailboxIds(c) == {c.ready[r].id : r \in DOMAIN c.ready} \cup {c.staged[r].id : r \in DOMAIN c.staged}

Invalidated(old, new) ==
    [i \in DOMAIN lifecycle |->
        IF i \in MailboxIds(old) \ MailboxIds(new) THEN "invalidated" ELSE lifecycle[i]]

Admit(r, home) ==
    /\ r \notin DOMAIN ctl.reqs
    /\ Cardinality(active) < MaxNumSeqs
    /\ LET h == IF home = NoHome THEN LeastLoadedHome(ctl.reqs, active) ELSE home
       IN  ctl' = [ctl EXCEPT !.reqs = Put(@, r, [home |-> h, epoch |-> 0])]
    /\ active' = active \cup {r}
    /\ lastVerdict' = Put(lastVerdict, r, [id |-> NoTicket, full |-> FALSE])
    /\ UNCHANGED <<plan, drafting, lifecycle, parent>>

Preempt(r) ==
    /\ r \in DOMAIN ctl.reqs
    /\ ctl' = InvalidateRequest(ctl, r)
    /\ lifecycle' = Invalidated(ctl, ctl')
    /\ active' = active \ {r}
    /\ UNCHANGED <<plan, drafting, parent, lastVerdict>>

Reactivate(r) ==
    /\ r \in DOMAIN ctl.reqs \ active
    /\ Cardinality(active) < MaxNumSeqs
    /\ active' = active \cup {r}
    /\ UNCHANGED <<ctl, plan, drafting, lifecycle, parent, lastVerdict>>

Remove(r) ==
    /\ r \in DOMAIN ctl.reqs
    /\ LET preempted == InvalidateRequest(ctl, r)
       IN  /\ ctl' = [preempted EXCEPT !.reqs = Drop(@, {r})]
           /\ lifecycle' = Invalidated(ctl, preempted)
    /\ active' = active \ {r}
    /\ lastVerdict' = Drop(lastVerdict, {r})
    /\ UNCHANGED <<plan, drafting, parent>>

(* shape may refuse the draft_token_budget of the call (220-223); by then  *)
(* build_plan has discarded payloads, and the caller has no new plan.      *)
Schedule(refused) ==
    /\ ctl' = DiscardInactivePayloads(ctl, active)
    /\ lifecycle' = Invalidated(ctl, ctl')
    /\ plan' = IF refused THEN plan ELSE ExecutionPlan(ctl', active)
    /\ UNCHANGED <<active, drafting, parent, lastVerdict>>

(* A worker takes up one assignment of the last schedule.                  *)
StartProposal(r, gamma, eager) ==
    /\ r \in active
    /\ r \in (IF eager THEN plan.eager \cap DOMAIN ctl.ready ELSE plan.normal)
    /\ ctl.nextId < MaxProposals
    /\ drafting' = drafting \cup {Ticket(ctl, r, gamma, eager)}
    /\ lifecycle' = Put(lifecycle, ctl.nextId, IF eager THEN "staged_eager" ELSE "available")
    /\ parent' = IF eager THEN Put(parent, ctl.nextId, ctl.ready[r].id) ELSE parent
    /\ plan' = IF eager THEN [plan EXCEPT !.eager = @ \ {r}] ELSE [plan EXCEPT !.normal = @ \ {r}]
    /\ ctl' = NewTicket(ctl)
    /\ UNCHANGED <<active, lastVerdict>>

(* The proposal is finished and published; a ticket that publish refuses   *)
(* is thrown away.                                                         *)
PublishProposal(t) ==
    /\ ctl' = IF Publishable(ctl, t) THEN Publish(ctl, t) ELSE ctl
    /\ drafting' = drafting \ {t}
    /\ UNCHANGED <<active, plan, lifecycle, parent, lastVerdict>>

(* The target reports the verdict on a request of the last schedule.       *)
ReportVerdict(r, full) ==
    /\ r \in plan.target
    /\ Consumable(ctl, r)
    /\ ctl' = FinishVerification(ctl, r, full)
    /\ lifecycle' = [i \in DOMAIN lifecycle |->
          IF i = ctl.ready[r].id THEN "consumed"
          ELSE IF r \in DOMAIN ctl.staged /\ i = ctl.staged[r].id
          THEN IF Promotes(ctl, r, full) THEN "available" ELSE "invalidated"
          ELSE lifecycle[i]]
    /\ lastVerdict' = [lastVerdict EXCEPT ![r] = [id |-> ctl.ready[r].id, full |-> full]]
    /\ UNCHANGED <<active, plan, drafting, parent>>

Next ==
    \/ \E r \in Request, h \in Home \cup {NoHome} : Admit(r, h)
    \/ \E r \in Request : Preempt(r)
    \/ \E r \in Request : Reactivate(r)
    \/ \E r \in Request : Remove(r)
    \/ \E refused \in BOOLEAN : Schedule(refused)
    \/ \E r \in Request, gamma \in 1..MaxGamma, eager \in BOOLEAN : StartProposal(r, gamma, eager)
    \/ \E t \in drafting : PublishProposal(t)
    \/ \E r \in Request, full \in BOOLEAN : ReportVerdict(r, full)

Spec == Init /\ [][Next]_vars
------------------------------------------------------------------------------
(* Properties.                                                             *)

TicketSet ==
    [id : Nat, request : Request, home : Home, gamma : 1..MaxGamma, epoch : Nat, eager : BOOLEAN]

(* The dictionaries of the scheduler and the controller are keyed by       *)
(* requests and hold well-formed entries; every ticket is filed under its  *)
(* own request, and only eager tickets are staged.                         *)
TypeOK ==
    /\ DOMAIN ctl = {"reqs", "nextHome", "nextId", "ready", "staged"}
    /\ IsDict(ctl.reqs, Request, [home : Home, epoch : Nat])
    /\ IsDict(ctl.ready, Request, TicketSet)
    /\ IsDict(ctl.staged, Request, TicketSet)
    /\ ctl.nextHome \in Home /\ ctl.nextId \in Nat
    /\ \A r \in DOMAIN ctl.ready : ctl.ready[r].request = r
    /\ \A r \in DOMAIN ctl.staged : ctl.staged[r].request = r /\ ctl.staged[r].eager
    /\ active \subseteq DOMAIN ctl.reqs
    /\ drafting \subseteq TicketSet
    /\ lastVerdict \in [DOMAIN ctl.reqs -> [id : Nat \cup {NoTicket}, full : BOOLEAN]]

(* Whatever the front end and the workers do, a proposal that the target   *)
(* can find in the ready mailbox was drafted for the current prefix of a   *)
(* registered request: the "stale proposal" error of finish_verification   *)
(* (498-499) cannot happen.                                                *)
ReadyIsCurrent ==
    \A r \in DOMAIN ctl.ready :
        r \in DOMAIN ctl.reqs /\ ctl.ready[r].epoch = ctl.reqs[r].epoch

(* An eager continuation waits for the target only while the last verdict  *)
(* on its request was a full acceptance (508-517): no rejection leaves one *)
(* behind.  Which window that verdict was on is not compared by the code;  *)
(* that it was the parent is the stronger claim below, and false.          *)
PromotedOnlyAfterFullAcceptance ==
    \A r \in DOMAIN ctl.ready : ctl.ready[r].eager => lastVerdict[r].full

(* "A rejected parent invalidates the entire eager continuation; only a    *)
(* fully accepted parent with a matching prefix epoch is promoted"         *)
(* (nano_pearl.md 354-356): a promoted continuation follows the very       *)
(* window that was accepted, not another window of the same epoch.         *)
PromotedContinuesAcceptedParent ==
    \A r \in DOMAIN ctl.ready :
        ctl.ready[r].eager => parent[ctl.ready[r].id] = lastVerdict[r].id

(* A ticket is in at most one place: being drafted, or one mailbox slot.   *)
(* Together with the two rules below, no proposal is verified twice.       *)
TicketsAreUnique ==
    /\ \A r, q \in DOMAIN ctl.ready : ctl.ready[r].id = ctl.ready[q].id => r = q
    /\ \A r \in DOMAIN ctl.ready, q \in DOMAIN ctl.staged : ctl.ready[r].id # ctl.staged[q].id
    /\ \A t \in drafting : t.id \notin MailboxIds(ctl)

(* A mailbox holds no proposal that was consumed or invalidated: what the  *)
(* target can take is available, and what waits for its parent's verdict   *)
(* is staged_eager (469-519).                                              *)
NoDeadProposalWaits ==
    /\ \A r \in DOMAIN ctl.ready : lifecycle[ctl.ready[r].id] = "available"
    /\ \A r \in DOMAIN ctl.staged : lifecycle[ctl.staged[r].id] = "staged_eager"

LifecycleStep ==
    \A i \in DOMAIN lifecycle :
        /\ lifecycle[i] \in {"consumed", "invalidated"} => lifecycle'[i] = lifecycle[i]
        /\ lifecycle[i] = "available" => lifecycle'[i] # "staged_eager"
        /\ i \in MailboxIds(ctl) \ MailboxIds(ctl') => lifecycle'[i] \in {"consumed", "invalidated"}

(* A proposal only moves forward: staged to available, available to        *)
(* consumed, anything live to invalidated; consumed and invalidated are    *)
(* final, and what leaves both mailboxes is final (319-323).               *)
LifecycleMovesForward == [][LifecycleStep]_vars
=============================================================================
