------------------------- MODULE SpecRhythmController -------------------------
(***************************************************************************)
(* SpecRhythmPipelineController (spec_rhythm.py 319-529) as operators on a *)
(* controller record: the lifecycle of the proposals of two alternating    *)
(* batches.  Both the scheduler adapter (SpecRhythmScheduler) and the      *)
(* native engine (SpecRhythmEngine) run it.                                *)
(*                                                                         *)
(* A controller is a record                                                *)
(*   reqs      request_states: registered request -> [home, epoch]         *)
(*   nextHome  next_target_home_batch_id                                   *)
(*   nextId    _next_proposal_id                                           *)
(*   ready     request -> the ticket the target may verify                 *)
(*   staged    request -> the eager continuation of that ticket            *)
(* The policy fields of a request state (SLO, acceptance averages, decode  *)
(* time) only feed the budget shaper; plan_id is only reported.            *)
(***************************************************************************)
EXTENDS Integers, FiniteSets

Home == {0, 1}

(* The keys of a dict after an assignment and after a pop.                 *)
Put(f, k, v) == [x \in DOMAIN f \cup {k} |-> IF x = k THEN v ELSE f[x]]

Drop(f, K) == [x \in DOMAIN f \ K |-> f[x]]

EmptyDict == [x \in {} |-> 0]

(* f is a dict with keys in K and values in V.                             *)
IsDict(f, K, V) == DOMAIN f \subseteq K /\ f \in [DOMAIN f -> V]

(* The home batch with fewer active requests, 0 on a tie.                  *)
LeastLoadedHome(reqs, active) ==
    LET count(h) == Cardinality({r \in active : reqs[r].home = h})
    IN  IF count(0) <= count(1) THEN 0 ELSE 1

NewController(reqs) ==
    [reqs |-> reqs, nextHome |-> 0, nextId |-> 0, ready |-> EmptyDict, staged |-> EmptyDict]

WithMailboxes(c, ready, staged) ==
    [reqs |-> c.reqs, nextHome |-> c.nextHome, nextId |-> c.nextId, ready |-> ready, staged |-> staged]

InvalidateRequest(c, r) == WithMailboxes(c, Drop(c.ready, {r}), Drop(c.staged, {r}))

DiscardInactivePayloads(c, active) ==
    WithMailboxes(c, Drop(c.ready, DOMAIN c.ready \ active), Drop(c.staged, DOMAIN c.staged \ active))

NoHome == -1

(* Mutant of DraftHome: the next home is drafted even when it is empty.    *)
DraftHomeUnpopulated(c, active, targetHome) ==
    IF targetHome # NoHome THEN 1 - targetHome ELSE c.nextHome

(* The batch to draft: the one that is not verified, or with nothing to    *)
(* verify the next in turn that has active requests.                       *)
DraftHome(c, active, targetHome) ==
    IF targetHome # NoHome THEN 1 - targetHome
    ELSE IF \E r \in active : c.reqs[r].home = c.nextHome THEN c.nextHome
    ELSE 1 - c.nextHome

(* build_plan for a controller whose inactive payloads are discarded.      *)
ExecutionPlan(c, active) ==
    LET readyHomes == {c.reqs[r].home : r \in active \cap DOMAIN c.ready}
        targetHome == IF c.nextHome \in readyHomes THEN c.nextHome
                      ELSE IF readyHomes # {} THEN 1 - c.nextHome
                      ELSE NoHome
        target == {r \in active \cap DOMAIN c.ready : c.reqs[r].home = targetHome}
        normal == {r \in active \ (DOMAIN c.ready \cup DOMAIN c.staged) :
                      c.reqs[r].home = DraftHome(c, active, targetHome)}
    IN  [ targetHome |-> targetHome, target |-> target, normal |-> normal,
          eager |-> target \ DOMAIN c.staged,
          phase |-> IF target # {} THEN "steady"
                    ELSE IF normal # {} THEN "warmup"
                    ELSE IF DOMAIN c.ready # {} THEN "drain" ELSE "complete" ]

Ticket(c, r, gamma, eager) ==
    [ id |-> c.nextId, request |-> r, home |-> c.reqs[r].home, gamma |-> gamma,
      epoch |-> c.reqs[r].epoch + (IF eager THEN 1 ELSE 0), eager |-> eager ]

(* Mutant of NewTicket: the counter does not move.                         *)
NewTicketReusesId(c) == c

NewTicket(c) == [c EXCEPT !.nextId = @ + 1]

(* Mutant of Publishable: the epoch is not compared.                       *)
PublishableAnyEpoch(c, t) ==
    IF t.eager THEN t.request \notin DOMAIN c.staged
               ELSE t.request \notin DOMAIN c.ready /\ t.request \in DOMAIN c.reqs

(* publish raises for a ticket that is not publishable.                    *)
Publishable(c, t) ==
    IF t.eager
    THEN t.request \notin DOMAIN c.staged
    ELSE /\ t.request \notin DOMAIN c.ready
         /\ t.request \in DOMAIN c.reqs
         /\ t.epoch = c.reqs[t.request].epoch

Publish(c, t) ==
    IF t.eager THEN WithMailboxes(c, c.ready, Put(c.staged, t.request, t))
               ELSE WithMailboxes(c, Put(c.ready, t.request, t), c.staged)

(* finish_verification raises for a request that is not consumable.        *)
Consumable(c, r) == r \in DOMAIN c.ready /\ c.ready[r].epoch = c.reqs[r].epoch

(* Mutant of Promotes: the verdict on the parent is ignored.               *)
PromotesAlways(c, r, full) ==
    r \in DOMAIN c.staged /\ c.staged[r].epoch = c.reqs[r].epoch + 1

(* The staged continuation is promoted only when the parent was accepted   *)
(* in full and it was drafted for the epoch the parent leads to.           *)
Promotes(c, r, full) ==
    full /\ r \in DOMAIN c.staged /\ c.staged[r].epoch = c.reqs[r].epoch + 1

(* Mutant of FinishVerification: a rejected parent leaves its continuation *)
(* staged.                                                                 *)
FinishVerificationKeepsStaged(c, r, full) ==
    [ reqs |-> [c.reqs EXCEPT ![r].epoch = @ + 1],
      nextHome |-> 1 - c.reqs[r].home, nextId |-> c.nextId,
      ready |-> IF Promotes(c, r, full) THEN Put(c.ready, r, c.staged[r]) ELSE Drop(c.ready, {r}),
      staged |-> IF full THEN Drop(c.staged, {r}) ELSE c.staged ]

(* Mutant of FinishVerification: the verified ticket is read, not popped.  *)
FinishVerificationKeepsReady(c, r, full) ==
    [ reqs |-> [c.reqs EXCEPT ![r].epoch = @ + 1],
      nextHome |-> 1 - c.reqs[r].home, nextId |-> c.nextId,
      ready |-> IF Promotes(c, r, full) THEN Put(c.ready, r, c.staged[r]) ELSE c.ready,
      staged |-> Drop(c.staged, {r}) ]

FinishVerification(c, r, full) ==
    [ reqs |-> [c.reqs EXCEPT ![r].epoch = @ + 1],
      nextHome |-> 1 - c.reqs[r].home,
      nextId |-> c.nextId,
      ready |-> IF Promotes(c, r, full) THEN Put(c.ready, r, c.staged[r]) ELSE Drop(c.ready, {r}),
      staged |-> Drop(c.staged, {r}) ]
=============================================================================
