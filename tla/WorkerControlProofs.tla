------------------------- MODULE WorkerControlProofs -------------------------
(***************************************************************************)
(* Proofs about the two small state machines that steer a worker: the      *)
(* scheduler of SpecRhythm and the allocator behind sleep mode.            *)
(***************************************************************************)
EXTENDS SpecRhythmScheduler, SleepModeAllocator, TLAPS

USE SMTT(20), ZenonT(60)

(* The empty dict has no keys.                                             *)
LEMMA EmptyIsDict ==
    ASSUME NEW K, NEW V
    PROVE  IsDict(EmptyDict, K, V) /\ DOMAIN EmptyDict = {}
  BY DEF IsDict, EmptyDict
------------------------------------------------------------------------------
(* Ids are drawn from the counter, so every id in use is below it, and no  *)
(* two staged tickets and no two drafts share one.                         *)
IdsAreFresh ==
    /\ \A r \in DOMAIN ctl.ready : ctl.ready[r].id < ctl.nextId
    /\ \A r \in DOMAIN ctl.staged : ctl.staged[r].id < ctl.nextId
    /\ \A t \in drafting : t.id < ctl.nextId
    /\ \A r, q \in DOMAIN ctl.staged : ctl.staged[r].id = ctl.staged[q].id => r = q
    /\ \A t, u \in drafting : t.id = u.id => t = u

(* The inductive invariant.                                                *)
IInv ==
    TypeOK /\ ReadyIsCurrent /\ PromotedOnlyAfterFullAcceptance /\ TicketsAreUnique /\ IdsAreFresh

\* The invariant of the scheduler holds before the first request.
LEMMA InitIInv == Init => IInv
  <1> SUFFICES ASSUME Init PROVE IInv
    OBVIOUS
  <1>1. /\ ctl.reqs = EmptyDict /\ ctl.ready = EmptyDict /\ ctl.staged = EmptyDict
        /\ ctl.nextHome = 0 /\ ctl.nextId = 0
        /\ DOMAIN ctl = {"reqs", "nextHome", "nextId", "ready", "staged"}
    BY DEF Init, NewController
  <1>2. TypeOK
    BY <1>1, EmptyIsDict DEF TypeOK, Init, Home, EmptyDict
  <1>3. ReadyIsCurrent /\ PromotedOnlyAfterFullAcceptance
    BY <1>1, EmptyIsDict DEF ReadyIsCurrent, PromotedOnlyAfterFullAcceptance
  <1>4. TicketsAreUnique /\ IdsAreFresh
    BY <1>1, EmptyIsDict DEF TicketsAreUnique, IdsAreFresh, Init
  <1> QED BY <1>2, <1>3, <1>4 DEF IInv

(* What every removal does: the mailboxes lose keys, nothing else moves.   *)
LEMMA MailboxesShrink ==
    ASSUME IInv, NEW X, NEW Y,
           ctl' = WithMailboxes(ctl, Drop(ctl.ready, X), Drop(ctl.staged, Y)),
           active' \subseteq active, drafting' = drafting, lastVerdict' = lastVerdict
    PROVE  IInv'
  <1>1. /\ ctl'.ready = Drop(ctl.ready, X) /\ ctl'.staged = Drop(ctl.staged, Y)
        /\ ctl'.reqs = ctl.reqs /\ ctl'.nextHome = ctl.nextHome /\ ctl'.nextId = ctl.nextId
        /\ DOMAIN ctl' = {"reqs", "nextHome", "nextId", "ready", "staged"}
    BY DEF WithMailboxes
  <1>2. /\ IsDict(ctl'.ready, Request, TicketSet)
        /\ DOMAIN ctl'.ready = DOMAIN ctl.ready \ X
        /\ \A r \in DOMAIN ctl'.ready : ctl'.ready[r] = ctl.ready[r]
    BY <1>1 DEF IInv, TypeOK, IsDict, Drop
  <1>3. /\ IsDict(ctl'.staged, Request, TicketSet)
        /\ DOMAIN ctl'.staged = DOMAIN ctl.staged \ Y
        /\ \A r \in DOMAIN ctl'.staged : ctl'.staged[r] = ctl.staged[r]
    BY <1>1 DEF IInv, TypeOK, IsDict, Drop
  <1>4. TypeOK'
    BY <1>1, <1>2, <1>3 DEF IInv, TypeOK
  <1>5. ReadyIsCurrent' /\ PromotedOnlyAfterFullAcceptance'
    BY <1>1, <1>2 DEF IInv, ReadyIsCurrent, PromotedOnlyAfterFullAcceptance
  <1>6. TicketsAreUnique'
    BY <1>2, <1>3 DEF IInv, TicketsAreUnique, MailboxIds
  <1>7. IdsAreFresh'
    BY <1>1, <1>2, <1>3 DEF IInv, IdsAreFresh
  <1> QED BY <1>4, <1>5, <1>6, <1>7 DEF IInv

(* admit: a fresh epoch cannot clash with a mailbox, because an            *)
(* unregistered request has nothing ready.                                 *)
LEMMA AdmitIInv ==
    ASSUME IInv, NEW r \in Request, NEW h \in Home \cup {NoHome}, Admit(r, h)
    PROVE  IInv'
  <1> DEFINE home == IF h = NoHome THEN LeastLoadedHome(ctl.reqs, active) ELSE h
  <1>1. home \in Home
    BY DEF Home, NoHome, LeastLoadedHome
  <1>2. ctl' = [ctl EXCEPT !.reqs = Put(@, r, [home |-> home, epoch |-> 0])]
    BY DEF Admit
  <1> HIDE DEF home
  <1>3. /\ ctl'.reqs = Put(ctl.reqs, r, [home |-> home, epoch |-> 0])
        /\ ctl'.ready = ctl.ready /\ ctl'.staged = ctl.staged
        /\ ctl'.nextHome = ctl.nextHome /\ ctl'.nextId = ctl.nextId
        /\ DOMAIN ctl' = DOMAIN ctl
    BY <1>2 DEF IInv, TypeOK
  <1>4. /\ IsDict(ctl'.reqs, Request, [home : Home, epoch : Nat])
        /\ DOMAIN ctl'.reqs = DOMAIN ctl.reqs \cup {r}
        /\ \A q \in DOMAIN ctl.reqs : ctl'.reqs[q] = ctl.reqs[q]
    BY <1>1, <1>3 DEF IInv, TypeOK, IsDict, Put, Admit
  <1>5. /\ lastVerdict' \in [DOMAIN ctl'.reqs -> [id : Nat \cup {NoTicket}, full : BOOLEAN]]
        /\ \A q \in DOMAIN ctl.reqs : lastVerdict'[q] = lastVerdict[q]
    BY <1>4 DEF IInv, TypeOK, Put, Admit
  <1>6. TypeOK'
    BY <1>3, <1>4, <1>5, ZenonT(60) DEF IInv, TypeOK, Admit
  <1>7. ReadyIsCurrent' /\ PromotedOnlyAfterFullAcceptance'
    BY <1>3, <1>4, <1>5 DEF IInv, ReadyIsCurrent, PromotedOnlyAfterFullAcceptance
  <1>8. TicketsAreUnique' /\ IdsAreFresh'
    BY <1>3 DEF IInv, TicketsAreUnique, IdsAreFresh, MailboxIds, Admit
  <1> QED BY <1>6, <1>7, <1>8 DEF IInv

(* remove: what is ready never outlives the registration.                  *)
LEMMA RemoveIInv ==
    ASSUME IInv, NEW r \in Request, Remove(r)
    PROVE  IInv'
  <1>1. /\ ctl'.ready = Drop(ctl.ready, {r}) /\ ctl'.staged = Drop(ctl.staged, {r})
        /\ ctl'.reqs = Drop(ctl.reqs, {r})
        /\ ctl'.nextHome = ctl.nextHome /\ ctl'.nextId = ctl.nextId
        /\ DOMAIN ctl' = {"reqs", "nextHome", "nextId", "ready", "staged"}
    BY DEF Remove, InvalidateRequest, WithMailboxes
  <1>a. /\ active' = active \ {r} /\ drafting' = drafting
        /\ lastVerdict' = Drop(lastVerdict, {r})
    BY DEF Remove
  <1>2. /\ IsDict(ctl'.ready, Request, TicketSet)
        /\ DOMAIN ctl'.ready = DOMAIN ctl.ready \ {r}
        /\ \A q \in DOMAIN ctl'.ready : ctl'.ready[q] = ctl.ready[q]
    BY <1>1 DEF IInv, TypeOK, IsDict, Drop
  <1>3. /\ IsDict(ctl'.staged, Request, TicketSet)
        /\ DOMAIN ctl'.staged = DOMAIN ctl.staged \ {r}
        /\ \A q \in DOMAIN ctl'.staged : ctl'.staged[q] = ctl.staged[q]
    BY <1>1 DEF IInv, TypeOK, IsDict, Drop
  <1>4. /\ IsDict(ctl'.reqs, Request, [home : Home, epoch : Nat])
        /\ DOMAIN ctl'.reqs = DOMAIN ctl.reqs \ {r}
        /\ \A q \in DOMAIN ctl'.reqs : ctl'.reqs[q] = ctl.reqs[q]
    BY <1>1 DEF IInv, TypeOK, IsDict, Drop
  <1>5. /\ lastVerdict' \in [DOMAIN ctl'.reqs -> [id : Nat \cup {NoTicket}, full : BOOLEAN]]
        /\ \A q \in DOMAIN ctl'.reqs : lastVerdict'[q] = lastVerdict[q]
    BY <1>a, <1>4 DEF IInv, TypeOK, Drop
  <1>6. TypeOK'
    BY <1>a, <1>1, <1>2, <1>3, <1>4, <1>5, ZenonT(60) DEF IInv, TypeOK
  <1>7. ReadyIsCurrent' /\ PromotedOnlyAfterFullAcceptance'
    BY <1>2, <1>4, <1>5 DEF IInv, ReadyIsCurrent, PromotedOnlyAfterFullAcceptance
  <1>8. TicketsAreUnique'
    BY <1>a, <1>2, <1>3 DEF IInv, TicketsAreUnique, MailboxIds
  <1>9. IdsAreFresh'
    BY <1>a, <1>1, <1>2, <1>3, ZenonT(60) DEF IInv, IdsAreFresh
  <1> QED BY <1>6, <1>7, <1>8, <1>9 DEF IInv

(* new_ticket: the id is new, because every id in use is below nextId.     *)
LEMMA StartProposalIInv ==
    ASSUME IInv, NEW r \in Request, NEW gamma \in 1..MaxGamma, NEW eager \in BOOLEAN,
           StartProposal(r, gamma, eager)
    PROVE  IInv'
  <1> DEFINE t == Ticket(ctl, r, gamma, eager)
  <1>1. /\ ctl'.ready = ctl.ready /\ ctl'.staged = ctl.staged /\ ctl'.reqs = ctl.reqs
        /\ ctl'.nextHome = ctl.nextHome /\ ctl'.nextId = ctl.nextId + 1
        /\ DOMAIN ctl' = DOMAIN ctl
    BY DEF StartProposal, NewTicket, IInv, TypeOK
  <1>2. ctl.reqs[r] \in [home : Home, epoch : Nat]
    BY DEF StartProposal, IInv, TypeOK, IsDict
  <1>3. t \in TicketSet /\ t.id = ctl.nextId
    BY <1>2 DEF Ticket, TicketSet, IInv, TypeOK
  <1>4. drafting' = drafting \cup {t} /\ active' = active /\ lastVerdict' = lastVerdict
    BY DEF StartProposal
  <1> HIDE DEF t
  <1>5. TypeOK'
    BY <1>1, <1>3, <1>4 DEF IInv, TypeOK
  <1>6. ReadyIsCurrent' /\ PromotedOnlyAfterFullAcceptance'
    BY <1>1, <1>4 DEF IInv, ReadyIsCurrent, PromotedOnlyAfterFullAcceptance
  <1>7. MailboxIds(ctl') = MailboxIds(ctl) /\ t.id \notin MailboxIds(ctl)
    BY <1>1, <1>3 DEF MailboxIds, IInv, TypeOK, IdsAreFresh
  <1>8. TicketsAreUnique'
    BY <1>1, <1>4, <1>7 DEF IInv, TicketsAreUnique
  <1>9. \A u \in drafting : u.id # t.id
    BY <1>3 DEF IInv, TypeOK, IdsAreFresh
  <1>10. /\ \A q \in DOMAIN ctl.ready : ctl.ready[q].id \in Nat
         /\ \A q \in DOMAIN ctl.staged : ctl.staged[q].id \in Nat
         /\ \A u \in drafting : u.id \in Nat
         /\ ctl.nextId \in Nat
    BY DEF IInv, TypeOK, IsDict, TicketSet
  <1>11. IdsAreFresh'
    BY <1>1, <1>3, <1>4, <1>9, <1>10 DEF IInv, IdsAreFresh
  <1> QED BY <1>5, <1>6, <1>8, <1>11 DEF IInv

(* publish: an eager ticket goes to a free staged slot, a normal one to a  *)
(* free ready slot of its own epoch.                                       *)
LEMMA PublishIInv ==
    ASSUME IInv, NEW t \in drafting, PublishProposal(t)
    PROVE  IInv'
  <1>1. /\ drafting' = drafting \ {t} /\ active' = active /\ lastVerdict' = lastVerdict
        /\ ctl' = IF Publishable(ctl, t) THEN Publish(ctl, t) ELSE ctl
    BY DEF PublishProposal
  <1>2. /\ t \in TicketSet /\ t.request \in Request /\ t.id < ctl.nextId /\ t.id \in Nat
        /\ \A u \in drafting' : u \in drafting /\ u.id # t.id
    BY <1>1 DEF IInv, TypeOK, IdsAreFresh, TicketSet
  <1>3. t.id \notin MailboxIds(ctl)
    BY DEF IInv, TicketsAreUnique
  <1>4. CASE ~Publishable(ctl, t)
    BY <1>1, <1>4 DEF IInv, TypeOK, ReadyIsCurrent, PromotedOnlyAfterFullAcceptance,
                      TicketsAreUnique, IdsAreFresh
  <1>5. CASE Publishable(ctl, t) /\ t.eager
    <2>1. /\ ctl'.staged = Put(ctl.staged, t.request, t) /\ ctl'.ready = ctl.ready
          /\ ctl'.reqs = ctl.reqs /\ ctl'.nextHome = ctl.nextHome /\ ctl'.nextId = ctl.nextId
          /\ DOMAIN ctl' = {"reqs", "nextHome", "nextId", "ready", "staged"}
      BY <1>1, <1>5 DEF Publish, WithMailboxes
    <2>2. t.request \notin DOMAIN ctl.staged
      BY <1>5 DEF Publishable
    <2>3. /\ IsDict(ctl'.staged, Request, TicketSet)
          /\ DOMAIN ctl'.staged = DOMAIN ctl.staged \cup {t.request}
          /\ ctl'.staged[t.request] = t
          /\ \A q \in DOMAIN ctl.staged : ctl'.staged[q] = ctl.staged[q]
      BY <1>2, <2>1, <2>2 DEF IInv, TypeOK, IsDict, Put
    <2>4. TypeOK'
      BY <1>1, <1>2, <1>5, <2>1, <2>3 DEF IInv, TypeOK
    <2>5. ReadyIsCurrent' /\ PromotedOnlyAfterFullAcceptance'
      BY <1>1, <2>1 DEF IInv, ReadyIsCurrent, PromotedOnlyAfterFullAcceptance
    <2>6. TicketsAreUnique'
      BY <1>1, <1>2, <1>3, <2>1, <2>3 DEF IInv, TicketsAreUnique, MailboxIds
    <2>7. IdsAreFresh'
      BY <1>1, <1>2, <1>3, <2>1, <2>3 DEF IInv, IdsAreFresh, MailboxIds
    <2> QED BY <2>4, <2>5, <2>6, <2>7 DEF IInv
  <1>6. CASE Publishable(ctl, t) /\ ~t.eager
    <2>1. /\ ctl'.ready = Put(ctl.ready, t.request, t) /\ ctl'.staged = ctl.staged
          /\ ctl'.reqs = ctl.reqs /\ ctl'.nextHome = ctl.nextHome /\ ctl'.nextId = ctl.nextId
          /\ DOMAIN ctl' = {"reqs", "nextHome", "nextId", "ready", "staged"}
      BY <1>1, <1>6 DEF Publish, WithMailboxes
    <2>2. /\ t.request \notin DOMAIN ctl.ready
          /\ t.request \in DOMAIN ctl.reqs /\ t.epoch = ctl.reqs[t.request].epoch
      BY <1>6 DEF Publishable
    <2>3. /\ IsDict(ctl'.ready, Request, TicketSet)
          /\ DOMAIN ctl'.ready = DOMAIN ctl.ready \cup {t.request}
          /\ ctl'.ready[t.request] = t
          /\ \A q \in DOMAIN ctl.ready : ctl'.ready[q] = ctl.ready[q]
      BY <1>2, <2>1, <2>2 DEF IInv, TypeOK, IsDict, Put
    <2>4. TypeOK'
      BY <1>1, <1>2, <2>1, <2>3 DEF IInv, TypeOK
    <2>5. ReadyIsCurrent' /\ PromotedOnlyAfterFullAcceptance'
      BY <1>1, <1>6, <2>1, <2>2, <2>3 DEF IInv, ReadyIsCurrent, PromotedOnlyAfterFullAcceptance
    <2>6. TicketsAreUnique'
      BY <1>1, <1>2, <1>3, <2>1, <2>3 DEF IInv, TicketsAreUnique, MailboxIds
    <2>7. IdsAreFresh'
      BY <1>1, <1>2, <1>3, <2>1, <2>3 DEF IInv, IdsAreFresh, MailboxIds
    <2> QED BY <2>4, <2>5, <2>6, <2>7 DEF IInv
  <1> QED BY <1>4, <1>5, <1>6

(* finish_verification: the epoch moves on, so what stays ready for the    *)
(* request is a promoted continuation of the next epoch or nothing.        *)
LEMMA ReportVerdictIInv ==
    ASSUME IInv, NEW r \in Request, NEW full \in BOOLEAN, ReportVerdict(r, full)
    PROVE  IInv'
  <1>1. /\ r \in DOMAIN ctl.ready /\ r \in DOMAIN ctl.reqs
        /\ ctl.ready[r] \in TicketSet /\ ctl.reqs[r] \in [home : Home, epoch : Nat]
    BY DEF ReportVerdict, Consumable, IInv, ReadyIsCurrent, TypeOK, IsDict
  <1>2. /\ ctl'.reqs = [ctl.reqs EXCEPT ![r].epoch = @ + 1]
        /\ ctl'.nextHome = 1 - ctl.reqs[r].home /\ ctl'.nextId = ctl.nextId
        /\ ctl'.ready = IF Promotes(ctl, r, full) THEN Put(ctl.ready, r, ctl.staged[r])
                                                 ELSE Drop(ctl.ready, {r})
        /\ ctl'.staged = Drop(ctl.staged, {r})
        /\ DOMAIN ctl' = {"reqs", "nextHome", "nextId", "ready", "staged"}
    BY DEF ReportVerdict, FinishVerification
  <1>3. /\ active' = active /\ drafting' = drafting
        /\ lastVerdict' = [lastVerdict EXCEPT ![r] = [id |-> ctl.ready[r].id, full |-> full]]
    BY DEF ReportVerdict
  <1>4. /\ IsDict(ctl'.reqs, Request, [home : Home, epoch : Nat])
        /\ DOMAIN ctl'.reqs = DOMAIN ctl.reqs
        /\ ctl'.reqs[r].epoch = ctl.reqs[r].epoch + 1
        /\ \A q \in DOMAIN ctl.reqs : q # r => ctl'.reqs[q] = ctl.reqs[q]
    BY <1>1, <1>2 DEF IInv, TypeOK, IsDict
  <1>5. ctl'.nextHome \in Home
    BY <1>1, <1>2 DEF Home
  <1>6. /\ IsDict(ctl'.staged, Request, TicketSet)
        /\ DOMAIN ctl'.staged = DOMAIN ctl.staged \ {r}
        /\ \A q \in DOMAIN ctl'.staged : ctl'.staged[q] = ctl.staged[q]
    BY <1>2 DEF IInv, TypeOK, IsDict, Drop
  <1>7. /\ lastVerdict' \in [DOMAIN ctl'.reqs -> [id : Nat \cup {NoTicket}, full : BOOLEAN]]
        /\ lastVerdict'[r].full = full
        /\ \A q \in DOMAIN ctl.reqs : q # r => lastVerdict'[q] = lastVerdict[q]
    BY <1>1, <1>3, <1>4 DEF IInv, TypeOK, TicketSet
  <1>8. CASE Promotes(ctl, r, full)
    <2>1. full /\ r \in DOMAIN ctl.staged /\ ctl.staged[r].epoch = ctl.reqs[r].epoch + 1
      BY <1>8 DEF Promotes
    <2>2. /\ IsDict(ctl'.ready, Request, TicketSet)
          /\ DOMAIN ctl'.ready = DOMAIN ctl.ready
          /\ ctl'.ready[r] = ctl.staged[r]
          /\ \A q \in DOMAIN ctl.ready : q # r => ctl'.ready[q] = ctl.ready[q]
      BY <1>1, <1>2, <1>8, <2>1 DEF IInv, TypeOK, IsDict, Put
    <2>e. /\ \A q \in DOMAIN ctl'.ready : ctl'.ready[q].request = q
          /\ \A q \in DOMAIN ctl'.staged : ctl'.staged[q].request = q /\ ctl'.staged[q].eager
      BY <1>6, <2>1, <2>2 DEF IInv, TypeOK
    <2>f. /\ DOMAIN ctl' = {"reqs", "nextHome", "nextId", "ready", "staged"}
          /\ ctl'.nextId \in Nat
          /\ active' \subseteq DOMAIN ctl'.reqs /\ drafting' \subseteq TicketSet
      BY <1>2, <1>3, <1>4 DEF IInv, TypeOK
    <2>3. TypeOK'
      BY <1>4, <1>5, <1>6, <1>7, <2>2, <2>e, <2>f DEF TypeOK
    <2>4. ReadyIsCurrent'
      BY <1>4, <2>1, <2>2 DEF IInv, ReadyIsCurrent
    <2>5. PromotedOnlyAfterFullAcceptance'
      BY <1>7, <2>1, <2>2, ZenonT(60) DEF IInv, ReadyIsCurrent, PromotedOnlyAfterFullAcceptance
    <2>a. MailboxIds(ctl') \subseteq MailboxIds(ctl)
      BY <1>6, <2>1, <2>2 DEF MailboxIds
    <2>b. \A q \in DOMAIN ctl.ready, p \in DOMAIN ctl.staged : ctl.ready[q].id # ctl.staged[p].id
      BY DEF IInv, TicketsAreUnique
    <2>c. \A q, p \in DOMAIN ctl'.ready : ctl'.ready[q].id = ctl'.ready[p].id => q = p
      BY <2>1, <2>2, <2>b DEF IInv, TicketsAreUnique
    <2>d. \A q \in DOMAIN ctl'.ready, p \in DOMAIN ctl'.staged :
              ctl'.ready[q].id # ctl'.staged[p].id
      BY <1>6, <2>1, <2>2, <2>b DEF IInv, IdsAreFresh
    <2>6. TicketsAreUnique'
      BY <1>3, <2>a, <2>c, <2>d DEF IInv, TicketsAreUnique
    <2>7. IdsAreFresh'
      BY <1>2, <1>3, <1>6, <2>1, <2>2, ZenonT(60) DEF IInv, IdsAreFresh
    <2> QED BY <2>3, <2>4, <2>5, <2>6, <2>7 DEF IInv
  <1>9. CASE ~Promotes(ctl, r, full)
    <2>2. /\ IsDict(ctl'.ready, Request, TicketSet)
          /\ DOMAIN ctl'.ready = DOMAIN ctl.ready \ {r}
          /\ \A q \in DOMAIN ctl'.ready : ctl'.ready[q] = ctl.ready[q]
      BY <1>2, <1>9 DEF IInv, TypeOK, IsDict, Drop
    <2>3. TypeOK'
      BY <1>2, <1>3, <1>4, <1>5, <1>6, <1>7, <2>2, ZenonT(60) DEF IInv, TypeOK
    <2>4. ReadyIsCurrent'
      BY <1>4, <2>2 DEF IInv, ReadyIsCurrent
    <2>5. PromotedOnlyAfterFullAcceptance'
      BY <1>7, <2>2 DEF IInv, ReadyIsCurrent, PromotedOnlyAfterFullAcceptance
    <2>6. TicketsAreUnique'
      BY <1>3, <1>6, <2>2 DEF IInv, TicketsAreUnique, MailboxIds
    <2>7. IdsAreFresh'
      BY <1>2, <1>3, <1>6, <2>2, ZenonT(60) DEF IInv, IdsAreFresh
    <2> QED BY <2>3, <2>4, <2>5, <2>6, <2>7 DEF IInv
  <1> QED BY <1>8, <1>9

\* Every step of the scheduler and of the workers keeps its invariant.
LEMMA NextIInv == IInv /\ [Next]_vars => IInv'
  <1> SUFFICES ASSUME IInv, [Next]_vars PROVE IInv'
    OBVIOUS
  <1>1. CASE \E r \in Request, h \in Home \cup {NoHome} : Admit(r, h)
    BY <1>1, AdmitIInv
  <1>2. CASE \E r \in Request : Preempt(r)
    <2>1. PICK r \in Request : Preempt(r)
      BY <1>2
    <2>2. /\ ctl' = WithMailboxes(ctl, Drop(ctl.ready, {r}), Drop(ctl.staged, {r}))
          /\ active' \subseteq active /\ drafting' = drafting /\ lastVerdict' = lastVerdict
      BY <2>1 DEF Preempt, InvalidateRequest
    <2> QED BY <2>2, MailboxesShrink
  <1>3. CASE \E r \in Request : Reactivate(r)
    BY <1>3 DEF Reactivate, IInv, TypeOK, ReadyIsCurrent, PromotedOnlyAfterFullAcceptance,
                TicketsAreUnique, IdsAreFresh
  <1>4. CASE \E r \in Request : Remove(r)
    BY <1>4, RemoveIInv
  <1>5. CASE \E refused \in BOOLEAN : Schedule(refused)
    <2>1. /\ ctl' = WithMailboxes(ctl, Drop(ctl.ready, DOMAIN ctl.ready \ active),
                                       Drop(ctl.staged, DOMAIN ctl.staged \ active))
          /\ active' \subseteq active /\ drafting' = drafting /\ lastVerdict' = lastVerdict
      BY <1>5 DEF Schedule, DiscardInactivePayloads
    <2> QED BY <2>1, MailboxesShrink
  <1>6. CASE \E r \in Request, gamma \in 1..MaxGamma, eager \in BOOLEAN :
                StartProposal(r, gamma, eager)
    BY <1>6, StartProposalIInv
  <1>7. CASE \E t \in drafting : PublishProposal(t)
    BY <1>7, PublishIInv
  <1>8. CASE \E r \in Request, full \in BOOLEAN : ReportVerdict(r, full)
    BY <1>8, ReportVerdictIInv
  <1>9. CASE UNCHANGED vars
    BY <1>9 DEF vars, IInv, TypeOK, ReadyIsCurrent, PromotedOnlyAfterFullAcceptance,
                TicketsAreUnique, IdsAreFresh
  <1> QED BY <1>1, <1>2, <1>3, <1>4, <1>5, <1>6, <1>7, <1>8, <1>9 DEF Next

(* The strengthened invariant holds in every reachable state.              *)
THEOREM Invariance == Spec => []IInv
  BY InitIInv, NextIInv, PTL DEF Spec

(* The dictionaries of the scheduler stay well formed (540-644).           *)
THEOREM TypeCorrect == Spec => []TypeOK
  <1>1. IInv => TypeOK
    BY DEF IInv
  <1> QED BY <1>1, Invariance, PTL

(* finish_verification never meets a stale ready proposal (498-499),       *)
(* whatever requests come, go and return while proposals are in flight.    *)
THEOREM ReadyStaysCurrent == Spec => []ReadyIsCurrent
  <1>1. IInv => ReadyIsCurrent
    BY DEF IInv
  <1> QED BY <1>1, Invariance, PTL

(* A continuation is ready only while the last verdict on its request was  *)
(* a full acceptance (508-517), whichever window that verdict was on.      *)
THEOREM PromotionNeedsFullAcceptance == Spec => []PromotedOnlyAfterFullAcceptance
  <1>1. IInv => PromotedOnlyAfterFullAcceptance
    BY DEF IInv
  <1> QED BY <1>1, Invariance, PTL

(* No ticket is in two places at once (445-529).                           *)
THEOREM TicketsStayUnique == Spec => []TicketsAreUnique
  <1>1. IInv => TicketsAreUnique
    BY DEF IInv
  <1> QED BY <1>1, Invariance, PTL
------------------------------------------------------------------------------
(* The second layer: the lifecycle of every ticket in use is on record and *)
(* agrees with the place the ticket is in.                                 *)
LInv ==
    /\ NoDeadProposalWaits
    /\ \A t \in drafting :
          t.id \in DOMAIN lifecycle /\ lifecycle[t.id] = IF t.eager THEN "staged_eager" ELSE "available"
    /\ MailboxIds(ctl) \subseteq DOMAIN lifecycle
    /\ \A i \in DOMAIN lifecycle : i \in Nat /\ i < ctl.nextId

\* Before the first request no ticket waits and none is drafted.
LEMMA InitLInv == Init => LInv
  <1> SUFFICES ASSUME Init PROVE LInv
    OBVIOUS
  <1>1. ctl.ready = EmptyDict /\ ctl.staged = EmptyDict
    BY DEF Init, NewController
  <1> QED BY <1>1, EmptyIsDict DEF Init, LInv, NoDeadProposalWaits, MailboxIds

(* What a removal does to the second layer.                                *)
LEMMA MailboxesShrinkLInv ==
    ASSUME IInv, LInv, NEW X, NEW Y, NEW c,
           c.ready = Drop(ctl.ready, X), c.staged = Drop(ctl.staged, Y),
           ctl'.ready = c.ready, ctl'.staged = c.staged, ctl'.nextId = ctl.nextId,
           lifecycle' = Invalidated(ctl, c), drafting' = drafting
    PROVE  LInv' /\ LifecycleStep
  <1>1. /\ DOMAIN ctl'.ready = DOMAIN ctl.ready \ X
        /\ \A r \in DOMAIN ctl'.ready : ctl'.ready[r] = ctl.ready[r]
        /\ DOMAIN ctl'.staged = DOMAIN ctl.staged \ Y
        /\ \A r \in DOMAIN ctl'.staged : ctl'.staged[r] = ctl.staged[r]
    BY DEF Drop
  <1>2. MailboxIds(c) = MailboxIds(ctl)' /\ MailboxIds(ctl)' \subseteq MailboxIds(ctl)
    BY <1>1 DEF MailboxIds
  <1>3. /\ DOMAIN lifecycle' = DOMAIN lifecycle
        /\ \A i \in DOMAIN lifecycle :
              lifecycle'[i] = IF i \in MailboxIds(ctl) /\ i \notin MailboxIds(ctl)'
                              THEN "invalidated" ELSE lifecycle[i]
    BY <1>2 DEF Invalidated
  <1>4. \A i \in MailboxIds(ctl) : lifecycle[i] \in {"available", "staged_eager"}
    BY DEF LInv, NoDeadProposalWaits, MailboxIds
  <1>5. NoDeadProposalWaits'
    <2>1. /\ \A r \in DOMAIN ctl'.ready : ctl'.ready[r].id \in MailboxIds(ctl)'
          /\ \A r \in DOMAIN ctl'.staged : ctl'.staged[r].id \in MailboxIds(ctl)'
      BY DEF MailboxIds
    <2> QED BY <1>1, <1>2, <1>3, <2>1 DEF LInv, NoDeadProposalWaits
  <1>6. LInv'
    BY <1>2, <1>3, <1>5 DEF LInv, IInv, TicketsAreUnique
  <1>7. LifecycleStep
    BY <1>3, <1>4 DEF LifecycleStep
  <1> QED BY <1>6, <1>7

(* new_ticket: the id is new, so no record is overwritten.                 *)
LEMMA StartProposalLInv ==
    ASSUME IInv, LInv, NEW r \in Request, NEW gamma \in 1..MaxGamma, NEW eager \in BOOLEAN,
           StartProposal(r, gamma, eager)
    PROVE  LInv' /\ LifecycleStep
  <1> DEFINE t == Ticket(ctl, r, gamma, eager)
  <1>1. /\ ctl'.ready = ctl.ready /\ ctl'.staged = ctl.staged /\ ctl'.nextId = ctl.nextId + 1
        /\ ctl.nextId \in Nat
    BY DEF StartProposal, NewTicket, IInv, TypeOK
  <1>2. t.id = ctl.nextId /\ t.eager = eager /\ drafting' = drafting \cup {t}
    BY DEF StartProposal, Ticket
  <1>3. /\ DOMAIN lifecycle' = DOMAIN lifecycle \cup {ctl.nextId}
        /\ lifecycle'[ctl.nextId] = IF eager THEN "staged_eager" ELSE "available"
        /\ \A i \in DOMAIN lifecycle : i # ctl.nextId => lifecycle'[i] = lifecycle[i]
    BY DEF StartProposal, Put
  <1>4. \A i \in DOMAIN lifecycle : i # ctl.nextId /\ lifecycle'[i] = lifecycle[i]
    BY <1>1, <1>3 DEF LInv
  <1>5. MailboxIds(ctl)' = MailboxIds(ctl)
    BY <1>1 DEF MailboxIds
  <1> HIDE DEF t
  <1>6. NoDeadProposalWaits'
    <2>1. /\ \A q \in DOMAIN ctl.ready : ctl.ready[q].id \in DOMAIN lifecycle
          /\ \A q \in DOMAIN ctl.staged : ctl.staged[q].id \in DOMAIN lifecycle
      BY DEF LInv, MailboxIds
    <2> QED BY <1>1, <1>4, <2>1 DEF LInv, NoDeadProposalWaits
  <1>7. \A u \in drafting' :
           u.id \in DOMAIN lifecycle' /\ lifecycle'[u.id] = IF u.eager THEN "staged_eager" ELSE "available"
    BY <1>2, <1>3, <1>4 DEF LInv
  <1>8. LInv'
    BY <1>1, <1>3, <1>5, <1>6, <1>7 DEF LInv
  <1>9. LifecycleStep
    BY <1>4, <1>5 DEF LifecycleStep
  <1> QED BY <1>8, <1>9

(* publish: a ticket enters the mailbox its lifecycle names.               *)
LEMMA PublishLInv ==
    ASSUME IInv, LInv, NEW t \in drafting, PublishProposal(t)
    PROVE  LInv' /\ LifecycleStep
  <1>1. lifecycle' = lifecycle /\ drafting' \subseteq drafting
    BY DEF PublishProposal
  <1>2. CASE Publishable(ctl, t) /\ t.eager
    <2>1. /\ ctl'.ready = ctl.ready /\ ctl'.nextId = ctl.nextId
          /\ ctl'.staged = Put(ctl.staged, t.request, t)
      BY <1>2 DEF PublishProposal, Publish, WithMailboxes
    <2>2. /\ DOMAIN ctl'.staged = DOMAIN ctl.staged \cup {t.request}
          /\ \A q \in DOMAIN ctl'.staged : ctl'.staged[q] = IF q = t.request THEN t ELSE ctl.staged[q]
      BY <2>1 DEF Put
    <2>3. NoDeadProposalWaits'
      BY <1>1, <1>2, <2>1, <2>2 DEF LInv, NoDeadProposalWaits
    <2>4. MailboxIds(ctl) \subseteq MailboxIds(ctl)' /\ MailboxIds(ctl)' \subseteq MailboxIds(ctl) \cup {t.id}
      BY <1>2, <2>1, <2>2 DEF MailboxIds, Publishable
    <2> QED BY <1>1, <2>1, <2>3, <2>4 DEF LInv, LifecycleStep
  <1>3. CASE Publishable(ctl, t) /\ ~t.eager
    <2>1. /\ ctl'.staged = ctl.staged /\ ctl'.nextId = ctl.nextId
          /\ ctl'.ready = Put(ctl.ready, t.request, t)
      BY <1>3 DEF PublishProposal, Publish, WithMailboxes
    <2>2. /\ DOMAIN ctl'.ready = DOMAIN ctl.ready \cup {t.request}
          /\ \A q \in DOMAIN ctl'.ready : ctl'.ready[q] = IF q = t.request THEN t ELSE ctl.ready[q]
      BY <2>1 DEF Put
    <2>3. NoDeadProposalWaits'
      BY <1>1, <1>3, <2>1, <2>2 DEF LInv, NoDeadProposalWaits
    <2>4. MailboxIds(ctl) \subseteq MailboxIds(ctl)' /\ MailboxIds(ctl)' \subseteq MailboxIds(ctl) \cup {t.id}
      BY <1>3, <2>1, <2>2 DEF MailboxIds, Publishable
    <2> QED BY <1>1, <2>1, <2>3, <2>4 DEF LInv, LifecycleStep
  <1>4. CASE ~Publishable(ctl, t)
    <2>1. ctl' = ctl
      BY <1>4 DEF PublishProposal
    <2> QED BY <1>1, <2>1 DEF LInv, LifecycleStep, NoDeadProposalWaits, MailboxIds
  <1> QED BY <1>2, <1>3, <1>4

(* finish_verification: the parent is consumed, its continuation promoted  *)
(* or invalidated, and no other ticket is touched.                         *)
LEMMA ReportVerdictLInv ==
    ASSUME IInv, LInv, NEW r \in Request, NEW full \in BOOLEAN, ReportVerdict(r, full)
    PROVE  LInv' /\ LifecycleStep
  <1>1. r \in DOMAIN ctl.ready /\ ctl.ready[r].id \in MailboxIds(ctl)
    BY DEF ReportVerdict, Consumable, MailboxIds
  <1>2. /\ ctl'.staged = Drop(ctl.staged, {r}) /\ ctl'.nextId = ctl.nextId
        /\ ctl'.ready = IF Promotes(ctl, r, full) THEN Put(ctl.ready, r, ctl.staged[r])
                                                   ELSE Drop(ctl.ready, {r})
        /\ drafting' = drafting
    BY DEF ReportVerdict, FinishVerification
  <1>3. /\ DOMAIN ctl'.staged = DOMAIN ctl.staged \ {r}
        /\ \A q \in DOMAIN ctl'.staged : ctl'.staged[q] = ctl.staged[q]
    BY <1>2 DEF Drop
  <1>4. /\ DOMAIN lifecycle' = DOMAIN lifecycle
        /\ \A i \in DOMAIN lifecycle :
              lifecycle'[i] = IF i = ctl.ready[r].id THEN "consumed"
                              ELSE IF r \in DOMAIN ctl.staged /\ i = ctl.staged[r].id
                              THEN IF Promotes(ctl, r, full) THEN "available" ELSE "invalidated"
                              ELSE lifecycle[i]
    BY DEF ReportVerdict
  <1>5. /\ \A q \in DOMAIN ctl.ready : ctl.ready[q].id \in DOMAIN lifecycle
        /\ \A q \in DOMAIN ctl.staged : ctl.staged[q].id \in DOMAIN lifecycle
    BY DEF LInv, MailboxIds
  <1>6. \A q \in DOMAIN ctl.ready \ {r} : lifecycle'[ctl.ready[q].id] = "available"
    BY <1>1, <1>4, <1>5 DEF IInv, TicketsAreUnique, LInv, NoDeadProposalWaits
  <1>7. \A q \in DOMAIN ctl.staged \ {r} : lifecycle'[ctl.staged[q].id] = "staged_eager"
    BY <1>1, <1>4, <1>5 DEF IInv, TicketsAreUnique, IdsAreFresh, LInv, NoDeadProposalWaits
  <1>8. r \in DOMAIN ctl.staged /\ Promotes(ctl, r, full)
           => lifecycle'[ctl.staged[r].id] = "available"
    BY <1>1, <1>4, <1>5 DEF IInv, TicketsAreUnique
  <1>9. \A t \in drafting : lifecycle'[t.id] = lifecycle[t.id]
    <2>1. r \in DOMAIN ctl.staged => ctl.staged[r].id \in MailboxIds(ctl)
      BY DEF MailboxIds
    <2> QED BY <1>1, <1>4, <2>1 DEF IInv, TicketsAreUnique, LInv
  <1>10. \A q \in DOMAIN ctl'.ready :
            \/ q \in DOMAIN ctl.ready \ {r} /\ ctl'.ready[q] = ctl.ready[q]
            \/ /\ q = r /\ Promotes(ctl, r, full) /\ r \in DOMAIN ctl.staged
               /\ ctl'.ready[q] = ctl.staged[r]
    BY <1>2 DEF Put, Drop, Promotes
  <1>11. NoDeadProposalWaits'
    BY <1>3, <1>6, <1>7, <1>8, <1>10 DEF NoDeadProposalWaits
  <1>12. MailboxIds(ctl)' \subseteq MailboxIds(ctl)
    BY <1>3, <1>10 DEF MailboxIds
  <1>13. LInv'
    BY <1>2, <1>4, <1>9, <1>11, <1>12 DEF LInv
  <1>14. /\ DOMAIN ctl.ready \ {r} \subseteq DOMAIN ctl'.ready
         /\ \A q \in DOMAIN ctl.ready \ {r} : ctl'.ready[q] = ctl.ready[q]
         /\ Promotes(ctl, r, full) => r \in DOMAIN ctl'.ready /\ ctl'.ready[r] = ctl.staged[r]
    BY <1>2 DEF Put, Drop
  <1>15. \A i \in MailboxIds(ctl) \ MailboxIds(ctl)' :
            \/ i = ctl.ready[r].id
            \/ r \in DOMAIN ctl.staged /\ i = ctl.staged[r].id /\ ~Promotes(ctl, r, full)
    BY <1>3, <1>14 DEF MailboxIds
  <1>16. LifecycleStep
    <2>1. lifecycle[ctl.ready[r].id] = "available"
      BY <1>1 DEF LInv, NoDeadProposalWaits
    <2>2. r \in DOMAIN ctl.staged => lifecycle[ctl.staged[r].id] = "staged_eager"
      BY DEF LInv, NoDeadProposalWaits
    <2> QED BY <1>4, <1>15, <2>1, <2>2 DEF LifecycleStep
  <1> QED BY <1>13, <1>16

\* Every step keeps the life cycles of the tickets and is a step that a life
\* cycle allows.
LEMMA NextLInv == IInv /\ LInv /\ [Next]_vars => LInv' /\ [LifecycleStep]_vars
  <1> SUFFICES ASSUME IInv, LInv, [Next]_vars PROVE LInv' /\ [LifecycleStep]_vars
    OBVIOUS
  <1>1. CASE \E r \in Request, h \in Home \cup {NoHome} : Admit(r, h)
    <2>1. /\ ctl'.ready = ctl.ready /\ ctl'.staged = ctl.staged /\ ctl'.nextId = ctl.nextId
          /\ lifecycle' = lifecycle /\ drafting' = drafting
      BY <1>1 DEF Admit, IInv, TypeOK
    <2> QED BY <2>1 DEF LInv, LifecycleStep, NoDeadProposalWaits, MailboxIds
  <1>2. CASE \E r \in Request : Preempt(r)
    <2>1. PICK r \in Request : Preempt(r)
      BY <1>2
    <2>2. /\ ctl'.ready = Drop(ctl.ready, {r}) /\ ctl'.staged = Drop(ctl.staged, {r})
          /\ ctl'.nextId = ctl.nextId /\ lifecycle' = Invalidated(ctl, ctl')
          /\ drafting' = drafting
      BY <2>1 DEF Preempt, InvalidateRequest, WithMailboxes
    <2> QED BY <2>2, MailboxesShrinkLInv
  <1>3. CASE \E r \in Request : Reactivate(r)
    BY <1>3 DEF Reactivate, LInv, LifecycleStep, NoDeadProposalWaits, MailboxIds
  <1>4. CASE \E r \in Request : Remove(r)
    <2>1. PICK r \in Request : Remove(r)
      BY <1>4
    <2> DEFINE c == InvalidateRequest(ctl, r)
    <2>2. /\ c.ready = Drop(ctl.ready, {r}) /\ c.staged = Drop(ctl.staged, {r})
          /\ ctl'.ready = c.ready /\ ctl'.staged = c.staged /\ ctl'.nextId = ctl.nextId
          /\ drafting' = drafting
      BY <2>1 DEF Remove, InvalidateRequest, WithMailboxes
    <2>3. lifecycle' = Invalidated(ctl, c)
      BY <2>1 DEF Remove
    <2> HIDE DEF c
    <2> QED BY <2>2, <2>3, MailboxesShrinkLInv
  <1>5. CASE \E refused \in BOOLEAN : Schedule(refused)
    <2>1. /\ ctl'.ready = Drop(ctl.ready, DOMAIN ctl.ready \ active)
          /\ ctl'.staged = Drop(ctl.staged, DOMAIN ctl.staged \ active)
          /\ ctl'.nextId = ctl.nextId /\ lifecycle' = Invalidated(ctl, ctl')
          /\ drafting' = drafting
      BY <1>5 DEF Schedule, DiscardInactivePayloads, WithMailboxes
    <2> QED BY <2>1, MailboxesShrinkLInv
  <1>6. CASE \E r \in Request, gamma \in 1..MaxGamma, eager \in BOOLEAN :
                StartProposal(r, gamma, eager)
    BY <1>6, StartProposalLInv
  <1>7. CASE \E t \in drafting : PublishProposal(t)
    BY <1>7, PublishLInv
  <1>8. CASE \E r \in Request, full \in BOOLEAN : ReportVerdict(r, full)
    BY <1>8, ReportVerdictLInv
  <1>9. CASE UNCHANGED vars
    BY <1>9 DEF vars, LInv, NoDeadProposalWaits, MailboxIds
  <1> QED BY <1>1, <1>2, <1>3, <1>4, <1>5, <1>6, <1>7, <1>8, <1>9 DEF Next

(* No consumed or invalidated proposal is left in a mailbox (469-530), for *)
(* any number of requests and proposals.                                   *)
THEOREM NoDeadProposalEverWaits == Spec => []NoDeadProposalWaits
  <1>1. LInv => NoDeadProposalWaits
    BY DEF LInv
  <1>2. Spec => []LInv
    BY InitLInv, NextLInv, Invariance, PTL DEF Spec
  <1> QED BY <1>1, <1>2, PTL

(* The lifecycle of a proposal never runs backwards, and a proposal leaves *)
(* the mailboxes only consumed or invalidated (319-323, 483-530).          *)
THEOREM LifecycleNeverRunsBack == Spec => LifecycleMovesForward
  <1>1. Spec => []LInv
    BY InitLInv, NextLInv, Invariance, PTL DEF Spec
  <1> QED BY <1>1, NextLInv, Invariance, PTL DEF Spec, LifecycleMovesForward

------------------------------------------------------------------------------
(***************************************************************************)
(* Proof that waking restores what the model may rely on, and that physical*)
(* memory is paired with mappings, for any number of allocations, tags,    *)
(* writes, sleeps of both levels and wake-ups, complete or not.            *)
(*                                                                         *)
(* The argument: what is mapped is paired with physical memory whatever    *)
(* fails (MemoryInv).  As long as no sleep has raised (ContentInv), an     *)
(* awake block is mapped, holds what is expected of it and has no backup;  *)
(* a sleeping block that is still unmapped has its expected content        *)
(* pending: in the saved buffers, in its backup, or as the empty pages it  *)
(* will be given.  A wake-up that raises maps blocks of tags that go on    *)
(* sleeping; their tag can never wake, so nothing is claimed of them.      *)
(***************************************************************************)

\* What a list holds is what it is a list of.
LEMMA ElementOfSeq == ASSUME NEW S, NEW s \in Seq(S), NEW n \in 1..Len(s) PROVE s[n] \in S
  OBVIOUS

\* What pages can hold.
IsContent(v) == v \in Int /\ v # Unmapped /\ v # NoBackup

SleepTypes ==
  /\ loaded \in 0..Len(LoadOrder)
  /\ pointer_to_data \subseteq Allocations
  /\ backup \in [Allocations -> Int] /\ content \in [Allocations -> Int]
  /\ physical \in [Allocations -> Int] /\ version \in [Allocations -> Nat]
  /\ expected \in [Allocations -> Int]
  /\ sleeping \subseteq {"weights", "kv_cache"}
  /\ out_of_memory \in BOOLEAN
  /\ out_of_memory => sleeping = {}
  /\ \A b \in Allocations : backup[b] # Unmapped /\ content[b] # NoBackup

\* What has not been allocated yet has no pages.
NotYetLoaded ==
  \A i \in DOMAIN LoadOrder : i > loaded =>
    LoadOrder[i] \notin pointer_to_data /\ content[LoadOrder[i]] = Unmapped

\* Saved buffers are contents of buffers.
SavedTypes == \A b \in DOMAIN saved_buffers : b \in Buffers /\ IsContent(saved_buffers[b])

MemoryInv == SleepTypes /\ NotYetLoaded /\ SavedTypes /\ PhysicalMemoryIsPaired

AwakeOK ==
  ~out_of_memory =>
    \A b \in pointer_to_data : TagOf[b] \notin sleeping =>
      content[b] = expected[b] /\ IsContent(content[b]) /\ backup[b] = NoBackup

\* What a wake-up of the block's tag would put into its pages.
Pending(b) == IF b \in DOMAIN saved_buffers THEN saved_buffers[b] ELSE Restored(b)

AsleepOK ==
  \A b \in pointer_to_data : TagOf[b] \in sleeping /\ content[b] = Unmapped =>
    Pending(b) = expected[b] /\ IsContent(expected[b])

\* Buffers are saved only while the weights sleep.
SavedOK == saved_buffers # << >> => "weights" \in sleeping

ContentInv == AwakeOK /\ AsleepOK /\ SavedOK

SleepInv == MemoryInv /\ (~sleep_failed => ContentInv)

\* Allocations are tagged, and each has one place in the order of loading.
LEMMA AllocationsAreTagged ==
  /\ \A b \in Allocations : TagOf[b] \in {"weights", "kv_cache", "sleep_persistent"}
  /\ \A i \in DOMAIN LoadOrder : LoadOrder[i] \in Allocations
  /\ \A i, k \in DOMAIN LoadOrder : LoadOrder[i] = LoadOrder[k] => i = k
  /\ Len(LoadOrder) \in Nat /\ DOMAIN LoadOrder = 1..Len(LoadOrder)
  <1>a. LoadOrder \in Seq(DOMAIN TagOf)
    BY SleepAssumption
  <1>1. \A i \in DOMAIN LoadOrder : LoadOrder[i] \in DOMAIN TagOf
    BY <1>a, ElementOfSeq
  <1>2. Len(LoadOrder) \in Nat /\ DOMAIN LoadOrder = 1..Len(LoadOrder)
    BY <1>a
  <1> QED
    BY <1>1, <1>2, SleepAssumption DEF Allocations

\* Nothing is allocated at the start.
LEMMA InitSleep ==
  ASSUME SleepInit
  PROVE  SleepInv
  <1>1. SleepTypes
    <2>1. 0 \in 0..Len(LoadOrder)
      BY AllocationsAreTagged
    <2>2. /\ backup = [b \in Allocations |-> -3] /\ content = [b \in Allocations |-> -2]
          /\ physical = [b \in Allocations |-> 0] /\ version = [b \in Allocations |-> 0]
          /\ expected = [b \in Allocations |-> -2]
      BY DEF SleepInit, NoBackup, Unmapped
    <2>3. /\ backup \in [Allocations -> Int] /\ content \in [Allocations -> Int]
          /\ physical \in [Allocations -> Int] /\ version \in [Allocations -> Nat]
          /\ expected \in [Allocations -> Int]
      BY <2>2
    <2>4. \A b \in Allocations : backup[b] # Unmapped /\ content[b] # NoBackup
      BY <2>2 DEF Unmapped, NoBackup
    <2> QED
      BY <2>1, <2>3, <2>4, ZenonT(60) DEF SleepInit, SleepTypes
  <1>2. NotYetLoaded
    BY AllocationsAreTagged DEF SleepInit, NotYetLoaded
  <1>3. AwakeOK /\ AsleepOK
    BY DEF SleepInit, AwakeOK, AsleepOK
  <1>4. SavedOK /\ SavedTypes
    BY DEF SleepInit, SavedOK, SavedTypes
  <1>5. PhysicalMemoryIsPaired
    BY DEF SleepInit, PhysicalMemoryIsPaired
  <1> QED
    BY <1>1, <1>2, <1>3, <1>4, <1>5 DEF SleepInv, MemoryInv, ContentInv

\* The block that is loaded next has no pages, and those after it are others.
LEMMA LoadedNext ==
  ASSUME MemoryInv, NEW b \in Allocations, NextToLoad(b)
  PROVE  /\ sleeping = {} /\ ~out_of_memory
         /\ b \notin pointer_to_data /\ content[b] = Unmapped
         /\ loaded' \in 0..Len(LoadOrder)
         /\ \A i \in DOMAIN LoadOrder : i > loaded' => i > loaded /\ LoadOrder[i] # b
  <1>1. /\ loaded \in 0..Len(LoadOrder) /\ loaded < Len(LoadOrder) /\ b = LoadOrder[loaded + 1]
        /\ loaded' = loaded + 1 /\ sleeping = {} /\ ~out_of_memory
    BY DEF MemoryInv, SleepTypes, NextToLoad
  <1>2. loaded + 1 \in DOMAIN LoadOrder /\ loaded + 1 > loaded /\ loaded' \in 0..Len(LoadOrder)
    BY <1>1, AllocationsAreTagged
  <1>3. b \notin pointer_to_data /\ content[b] = Unmapped
    BY <1>1, <1>2 DEF MemoryInv, NotYetLoaded
  <1>4. \A i \in DOMAIN LoadOrder : i > loaded' => i > loaded /\ i # loaded + 1
    BY <1>1, AllocationsAreTagged
  <1>5. \A i \in DOMAIN LoadOrder : i # loaded + 1 => LoadOrder[i] # b
    BY <1>1, <1>2, AllocationsAreTagged
  <1> QED
    BY <1>1, <1>2, <1>3, <1>4, <1>5

\* my_malloc
LEMMA MallocKeeps ==
  ASSUME MemoryInv, NEW b \in Allocations, MyMalloc(b)
  PROVE  MemoryInv' /\ (ContentInv => ContentInv')
  <1>1. NextToLoad(b)
    BY DEF MyMalloc
  <1>2. /\ sleeping = {} /\ ~out_of_memory
        /\ b \notin pointer_to_data /\ content[b] = Unmapped
        /\ loaded' \in 0..Len(LoadOrder)
        /\ \A i \in DOMAIN LoadOrder : i > loaded' => i > loaded /\ LoadOrder[i] # b
    BY <1>1, LoadedNext
  <1>3. SleepTypes'
    BY <1>2 DEF MemoryInv, SleepTypes, MyMalloc, NoBackup, Empty, Unmapped
  <1>4. NotYetLoaded'
    BY <1>2, AllocationsAreTagged DEF MemoryInv, SleepTypes, NotYetLoaded, MyMalloc
  <1>5. SavedTypes'
    BY ZenonT(60) DEF MemoryInv, SavedTypes, MyMalloc
  <1>6. PhysicalMemoryIsPaired'
    BY <1>2 DEF MemoryInv, SleepTypes, PhysicalMemoryIsPaired, MyMalloc, Empty, Unmapped
  <1>7. ASSUME ContentInv
        PROVE  ContentInv'
    <2>1. AwakeOK'
      BY <1>2, <1>7 DEF MemoryInv, SleepTypes, ContentInv, AwakeOK, MyMalloc, IsContent,
                        NoBackup, Empty, Unmapped
    <2>2. AsleepOK' /\ SavedOK'
      BY <1>2, <1>7, ZenonT(60) DEF ContentInv, SavedOK, AsleepOK, MyMalloc
    <2> QED
      BY <2>1, <2>2 DEF ContentInv
  <1> QED
    BY <1>3, <1>4, <1>5, <1>6, <1>7 DEF MemoryInv

\* ... when create_and_map raises: the worker does not start.
LEMMA MallocRaisesKeeps ==
  ASSUME MemoryInv, NEW b \in Allocations, NEW mapping \in BOOLEAN, MyMallocRaises(b, mapping)
  PROVE  MemoryInv' /\ (ContentInv => ContentInv')
  <1>1. NextToLoad(b)
    BY DEF MyMallocRaises
  <1>2. /\ sleeping = {}
        /\ loaded' \in 0..Len(LoadOrder)
        /\ \A i \in DOMAIN LoadOrder : i > loaded' => i > loaded /\ LoadOrder[i] # b
    BY <1>1, LoadedNext
  <1>3. SleepTypes'
    BY <1>2 DEF MemoryInv, SleepTypes, MyMallocRaises
  <1>4. NotYetLoaded'
    BY <1>2, ZenonT(60) DEF MemoryInv, NotYetLoaded, MyMallocRaises
  <1>5. SavedTypes'
    BY ZenonT(60) DEF MemoryInv, SavedTypes, MyMallocRaises
  <1>6. PhysicalMemoryIsPaired'
    BY DEF MemoryInv, SleepTypes, PhysicalMemoryIsPaired, MyMallocRaises
  <1>7. ContentInv => ContentInv'
    BY <1>2 DEF ContentInv, AwakeOK, AsleepOK, SavedOK, MyMallocRaises
  <1> QED
    BY <1>3, <1>4, <1>5, <1>6, <1>7 DEF MemoryInv

\* my_free of a block of an awake worker, which is mapped.
LEMMA FreeKeeps ==
  ASSUME MemoryInv, NEW b \in Allocations, MyFree(b)
  PROVE  MemoryInv' /\ (ContentInv => ContentInv')
  <1>1. /\ sleeping = {} /\ ~out_of_memory /\ b \in pointer_to_data
        /\ content[b] # Unmapped
    BY DEF MyFree
  <1>2. SleepTypes'
    BY <1>1 DEF MemoryInv, SleepTypes, MyFree, NoBackup, Unmapped
  <1>3. NotYetLoaded'
    BY <1>1, AllocationsAreTagged DEF MemoryInv, SleepTypes, NotYetLoaded, MyFree
  <1>4. SavedTypes'
    BY ZenonT(60) DEF MemoryInv, SavedTypes, MyFree
  <1>5. PhysicalMemoryIsPaired'
    BY <1>1 DEF MemoryInv, SleepTypes, PhysicalMemoryIsPaired, MyFree
  <1>6. ASSUME ContentInv
        PROVE  ContentInv'
    <2>1. AwakeOK'
      BY <1>1, <1>6 DEF MemoryInv, SleepTypes, ContentInv, AwakeOK, MyFree
    <2>2. AsleepOK' /\ SavedOK'
      BY <1>1, <1>6 DEF ContentInv, SavedOK, AsleepOK, MyFree
    <2> QED
      BY <2>1, <2>2 DEF ContentInv
  <1> QED
    BY <1>2, <1>3, <1>4, <1>5, <1>6 DEF MemoryInv

\* The model runner writes a mapped block whose tag is awake.
LEMMA WriteKeeps ==
  ASSUME MemoryInv, NEW b \in Allocations, WriteBlock(b)
  PROVE  MemoryInv' /\ (ContentInv => ContentInv')
  <1>1. b \in pointer_to_data /\ TagOf[b] \notin sleeping /\ ~out_of_memory /\ content[b] # Unmapped
    BY DEF WriteBlock
  <1>2. version[b] + 1 \in Nat /\ IsContent(version[b] + 1)
    BY DEF MemoryInv, SleepTypes, IsContent, NoBackup, Unmapped
  <1>3. SleepTypes'
    BY <1>2 DEF MemoryInv, SleepTypes, WriteBlock, IsContent
  <1>4. NotYetLoaded'
    BY <1>1, AllocationsAreTagged DEF MemoryInv, SleepTypes, NotYetLoaded, WriteBlock
  <1>5. SavedTypes'
    BY ZenonT(60) DEF MemoryInv, SavedTypes, WriteBlock
  <1>6. PhysicalMemoryIsPaired'
    BY <1>1, <1>2 DEF MemoryInv, SleepTypes, PhysicalMemoryIsPaired, WriteBlock, IsContent
  <1>7. ASSUME ContentInv
        PROVE  ContentInv'
    <2>1. AwakeOK'
      BY <1>1, <1>2, <1>7 DEF MemoryInv, SleepTypes, ContentInv, AwakeOK, WriteBlock
    <2>2. AsleepOK'
      BY <1>1, <1>2, <1>7 DEF MemoryInv, SleepTypes, ContentInv, AsleepOK, WriteBlock, Pending, Restored
    <2>3. SavedOK'
      BY <1>7 DEF ContentInv, SavedOK, WriteBlock
    <2> QED
      BY <2>1, <2>2, <2>3 DEF ContentInv
  <1> QED
    BY <1>3, <1>4, <1>5, <1>6, <1>7 DEF MemoryInv

\* CaMemAllocator.sleep over mapped blocks, complete or not: what it releases it
\* has unmapped, and what it unmaps it releases unless aclrtFreePhysical fails.
LEMMA ReleaseKeeps ==
  ASSUME MemoryInv, NEW level, NEW offloaded, NEW unmapped, NEW released,
         SaveBuffers(level), AllocatorSleep(offloaded, unmapped, released),
         \A b \in unmapped : content[b] # Unmapped,
         released \subseteq unmapped, unmapped \ released \subseteq leaked',
         leaked \subseteq leaked',
         UNCHANGED <<loaded, pointer_to_data, out_of_memory, version>>,
         expected' \in [Allocations -> Int], sleeping' \subseteq {"weights", "kv_cache"}
  PROVE  MemoryInv'
  <1>1. /\ backup' = [b \in Allocations |-> IF b \in offloaded THEN Copied(b) ELSE backup[b]]
        /\ content' = [b \in Allocations |-> IF b \in unmapped THEN Unmapped ELSE content[b]]
        /\ physical' = [b \in Allocations |-> IF b \in released THEN physical[b] - 1 ELSE physical[b]]
    BY ZenonT(60) DEF AllocatorSleep
  <1>2. SleepTypes /\ NotYetLoaded /\ SavedTypes /\ PhysicalMemoryIsPaired
    BY DEF MemoryInv
  <1>3. \A b \in Allocations : content[b] \in Int /\ backup[b] \in Int /\ physical[b] \in Int
                               /\ backup[b] # Unmapped /\ content[b] # NoBackup
    BY <1>2 DEF SleepTypes
  <1>4. \A b \in Allocations : Copied(b) \in Int /\ Copied(b) # Unmapped
    BY <1>3 DEF Copied, Empty, Unmapped
  <1>5. SleepTypes'
    <2>1. backup' \in [Allocations -> Int] /\ \A b \in Allocations : backup'[b] # Unmapped
      BY <1>1, <1>3, <1>4
    <2>2. content' \in [Allocations -> Int] /\ \A b \in Allocations : content'[b] # NoBackup
      BY <1>1, <1>3 DEF Unmapped, NoBackup
    <2>3. physical' \in [Allocations -> Int]
      BY <1>1, <1>3
    <2>4. ~out_of_memory
      BY DEF SaveBuffers
    <2> QED
      BY <1>2, <2>1, <2>2, <2>3, <2>4, ZenonT(60) DEF SleepTypes
  <1>6. NotYetLoaded'
    BY <1>1, <1>2, AllocationsAreTagged, ZenonT(60) DEF NotYetLoaded
  <1>7. SavedTypes'
    <2>1. CASE level = 2
      <3>1. /\ saved_buffers' = [b \in Buffers \cap pointer_to_data |-> content[b]]
            /\ \A b \in Buffers \cap pointer_to_data : content[b] # Unmapped
        BY <2>1, ZenonT(60) DEF SaveBuffers
      <3>2. \A b \in Buffers \cap pointer_to_data : b \in Allocations
        BY <1>2 DEF SleepTypes
      <3> QED
        BY <1>3, <3>1, <3>2 DEF SavedTypes, IsContent
    <2>2. CASE level # 2
      BY <1>2, <2>2, ZenonT(60) DEF SaveBuffers, SavedTypes
    <2> QED
      BY <2>1, <2>2
  <1>8. PhysicalMemoryIsPaired'
    <2> SUFFICES ASSUME NEW b \in Allocations, b \notin leaked'
                 PROVE  physical'[b] = IF content'[b] = Unmapped THEN 0 ELSE 1
      BY ZenonT(60) DEF PhysicalMemoryIsPaired
    <2>1. physical[b] = IF content[b] = Unmapped THEN 0 ELSE 1
      BY <1>2, ZenonT(60) DEF PhysicalMemoryIsPaired
    <2>2. CASE b \in released
      <3>1. b \in unmapped /\ content[b] # Unmapped
        BY <2>2
      <3> QED
        BY <1>1, <2>1, <2>2, <3>1
    <2>3. CASE b \notin released
      <3>1. b \notin unmapped
        BY <2>3
      <3> QED
        BY <1>1, <2>1, <2>3, <3>1, ZenonT(60)
    <2> QED
      BY <2>2, <2>3
  <1> QED
    BY <1>5, <1>6, <1>7, <1>8 DEF MemoryInv

\* NPUWorker.sleep: what a released block is expected to hold later is in its
\* backup, in the saved buffers, or empty.
LEMMA SleepKeeps ==
  ASSUME MemoryInv, NEW level \in {1, 2}, WorkerSleep(level)
  PROVE  MemoryInv' /\ (ContentInv => ContentInv')
  <1> DEFINE released == Visited(SleepTags)
  <1>1. /\ SaveBuffers(level) /\ \A b \in released : content[b] # Unmapped
        /\ AllocatorSleep(Visited(OffloadTags(level)), released, released)
        /\ sleeping' = {"weights", "kv_cache"}
        /\ expected' = [b \in Allocations |->
              IF \/ Persistent(b) \/ b \notin pointer_to_data
                 \/ level = 1 /\ TagOf[b] = "weights"
                 \/ level = 2 /\ b \in Buffers
                THEN expected[b] ELSE Empty]
        /\ UNCHANGED <<loaded, pointer_to_data, out_of_memory, leaked, sleep_failed, version>>
    BY ZenonT(60) DEF WorkerSleep, SleepTags
  <1>2. SleepTypes
    BY DEF MemoryInv
  <1>3. \A b \in Allocations : content[b] \in Int /\ expected[b] \in Int
    BY <1>2 DEF SleepTypes
  <1>4. expected' \in [Allocations -> Int]
    BY <1>1, <1>3 DEF Empty
  <1>5. MemoryInv'
    <2> HIDE DEF released
    <2>1. released \subseteq released /\ released \ released \subseteq leaked' /\ leaked \subseteq leaked'
          /\ sleeping' \subseteq {"weights", "kv_cache"}
      BY <1>1, ZenonT(60)
    <2> QED
      BY <1>1, <1>4, <2>1, ReleaseKeeps, ZenonT(60)
  <1>6. ASSUME ContentInv
        PROVE  ContentInv'
    <2>1. /\ sleeping = {} /\ ~out_of_memory /\ saved_buffers = << >>
          /\ \A b \in pointer_to_data : /\ content[b] = expected[b] /\ IsContent(content[b])
                                        /\ backup[b] = NoBackup
      BY <1>1, <1>6, ZenonT(60) DEF SaveBuffers, ContentInv, SavedOK, AwakeOK
    <2>2. \A b \in pointer_to_data : b \in released <=> TagOf[b] \in {"weights", "kv_cache"}
      BY DEF Visited, SleepTags
    <2>3. /\ backup' = [b \in Allocations |->
               IF b \in Visited(OffloadTags(level)) THEN Copied(b) ELSE backup[b]]
          /\ content' = [b \in Allocations |-> IF b \in released THEN Unmapped ELSE content[b]]
      BY <1>1, ZenonT(60) DEF AllocatorSleep
    <2>4. saved_buffers' = IF level = 2 THEN [b \in Buffers \cap pointer_to_data |-> content[b]]
                           ELSE saved_buffers
      BY <1>1, ZenonT(60) DEF SaveBuffers
    <2>5. \A b \in pointer_to_data :
            b \in Visited(OffloadTags(level)) <=> level = 1 /\ TagOf[b] = "weights"
      BY DEF Visited, OffloadTags
    <2>6. \A b \in pointer_to_data : b \in Allocations /\ Copied(b) = content[b]
      BY <1>2, <2>1 DEF SleepTypes, Copied, IsContent
    <2> HIDE DEF released
    <2>7. AwakeOK'
      <3> SUFFICES ASSUME NEW b \in pointer_to_data, TagOf[b] \notin {"weights", "kv_cache"}
                   PROVE  content'[b] = expected'[b] /\ IsContent(content'[b]) /\ backup'[b] = NoBackup
        BY <1>1, ZenonT(60) DEF AwakeOK
      <3>1. b \in Allocations /\ b \notin released /\ Persistent(b) /\ TagOf[b] # "weights"
        BY <2>2, <2>6, AllocationsAreTagged DEF Persistent
      <3>2. b \notin Visited(OffloadTags(level))
        BY <2>5, <3>1
      <3> QED
        BY <1>1, <2>1, <2>3, <3>1, <3>2, ZenonT(60)
    <2>8. AsleepOK'
      <3> SUFFICES ASSUME NEW b \in pointer_to_data, TagOf[b] \in {"weights", "kv_cache"}
                   PROVE  Pending(b)' = expected'[b] /\ IsContent(expected'[b])
        BY <1>1, ZenonT(60) DEF AsleepOK
      <3>1. b \in Allocations /\ b \in released /\ ~Persistent(b)
        BY <2>2, <2>6 DEF Persistent
      <3>2. content[b] = expected[b] /\ IsContent(content[b]) /\ backup[b] = NoBackup
        BY <2>1
      <3>3. CASE level = 2 /\ b \in Buffers
        BY <1>1, <2>4, <3>1, <3>2, <3>3, ZenonT(60) DEF Pending
      <3>4. CASE level = 2 /\ b \notin Buffers
        <4>1. b \notin DOMAIN saved_buffers'
          BY <2>4, <3>4
        <4>2. backup'[b] = NoBackup
          BY <2>3, <2>5, <3>1, <3>2, <3>4
        <4>3. expected'[b] = Empty
          BY <1>1, <3>1, <3>4
        <4> QED
          BY <4>1, <4>2, <4>3 DEF Pending, Restored, IsContent, NoBackup, Empty, Unmapped
      <3>5. CASE level = 1 /\ TagOf[b] = "weights"
        <4>1. DOMAIN saved_buffers' = {}
          BY <2>1, <2>4, <3>5
        <4>2. backup'[b] = content[b] /\ expected'[b] = expected[b]
          BY <1>1, <2>3, <2>5, <2>6, <3>1, <3>5, ZenonT(60)
        <4>3. Restored(b)' = content[b]
          BY <3>2, <4>2 DEF Restored, IsContent
        <4> QED
          BY <3>2, <4>1, <4>2, <4>3, ZenonT(60) DEF Pending
      <3>6. CASE level = 1 /\ TagOf[b] # "weights"
        <4>1. DOMAIN saved_buffers' = {}
          BY <2>1, <2>4, <3>6
        <4>2. backup'[b] = NoBackup
          BY <2>3, <2>5, <3>1, <3>2, <3>6
        <4>3. expected'[b] = Empty
          BY <1>1, <3>1, <3>6
        <4> QED
          BY <4>1, <4>2, <4>3 DEF Pending, Restored, IsContent, NoBackup, Empty, Unmapped
      <3> QED
        BY <3>3, <3>4, <3>5, <3>6
    <2>9. SavedOK'
      BY <1>1 DEF SavedOK
    <2> QED
      BY <2>7, <2>8, <2>9 DEF ContentInv
  <1> QED
    BY <1>5, <1>6

\* ... when it raises half-way: memory stays paired; nothing more is claimed.
LEMMA SleepRaisesKeeps ==
  ASSUME MemoryInv, NEW level \in {1, 2}, NEW b \in Allocations, NEW step,
         WorkerSleepRaises(level, b, step)
  PROVE  MemoryInv' /\ sleep_failed'
  <1> DEFINE before == VisitedBefore(SleepTags, b)
             released == IF step = "assert" THEN before \cup {b} ELSE before
             unmapped == IF step = "free" THEN released \cup {b} ELSE released
             tried == IF step = "backup" THEN before ELSE before \cup {b}
  <1>1. /\ SaveBuffers(level)
        /\ \A c \in unmapped : content[c] # Unmapped
        /\ AllocatorSleep(tried \cap Visited(OffloadTags(level)), unmapped, released)
        /\ leaked' = IF step = "free" THEN leaked \cup {b} ELSE leaked
        /\ sleep_failed' = TRUE
        /\ UNCHANGED <<loaded, pointer_to_data, sleeping, out_of_memory, version, expected>>
    BY ZenonT(60) DEF WorkerSleepRaises
  <1>2. released \subseteq unmapped /\ unmapped \ released \subseteq leaked' /\ leaked \subseteq leaked'
    BY <1>1, ZenonT(60)
  <1>3. expected' \in [Allocations -> Int] /\ sleeping' \subseteq {"weights", "kv_cache"}
    BY <1>1 DEF MemoryInv, SleepTypes
  <1> HIDE DEF before, released, unmapped, tried
  <1>4. UNCHANGED <<loaded, pointer_to_data, out_of_memory, version>>
    BY <1>1
  <1>5. MemoryInv'
    BY <1>1, <1>2, <1>3, <1>4, ReleaseKeeps, ZenonT(60)
  <1> QED
    BY <1>1, <1>5

\* CaMemAllocator.wake_up over blocks that sleep unmapped.
LEMMA WokenTypes ==
  ASSUME MemoryInv, NEW woken, NEW buffers, WakeBlocks(woken, buffers),
         woken \subseteq pointer_to_data,
         \A b \in DOMAIN buffers \cap pointer_to_data : b \in woken /\ IsContent(buffers[b])
  PROVE  /\ content' \in [Allocations -> Int] /\ backup' \in [Allocations -> Int]
         /\ \A b \in Allocations : backup'[b] # Unmapped /\ content'[b] # NoBackup
         /\ \A b \in woken : IsContent(content'[b]) /\ backup'[b] = NoBackup
         /\ \A b \in woken : content'[b] = IF b \in DOMAIN buffers THEN buffers[b] ELSE Restored(b)
         /\ \A b \in Allocations : b \notin woken => content'[b] = content[b] /\ backup'[b] = backup[b]
  <1>1. /\ content \in [Allocations -> Int] /\ backup \in [Allocations -> Int]
        /\ \A b \in Allocations : backup[b] # Unmapped /\ content[b] # NoBackup
        /\ pointer_to_data \subseteq Allocations
    BY ZenonT(60) DEF MemoryInv, SleepTypes
  <1>2. \A b \in Allocations : IsContent(Restored(b))
    BY <1>1 DEF IsContent, Restored, Empty, Unmapped, NoBackup
  <1>3. /\ content' = [b \in Allocations |->
             IF b \in DOMAIN buffers \cap pointer_to_data THEN buffers[b]
             ELSE IF b \in woken THEN Restored(b) ELSE content[b]]
        /\ backup' = [b \in Allocations |-> IF b \in woken THEN NoBackup ELSE backup[b]]
    BY ZenonT(60) DEF WakeBlocks
  <1>4. content' \in [Allocations -> Int] /\ \A b \in Allocations : content'[b] # NoBackup
    BY <1>1, <1>2, <1>3, ZenonT(60) DEF IsContent
  <1>5. backup' \in [Allocations -> Int] /\ \A b \in Allocations : backup'[b] # Unmapped
    BY <1>1, <1>3 DEF NoBackup, Unmapped
  <1>6. \A b \in woken : IsContent(content'[b]) /\ backup'[b] = NoBackup
    BY <1>1, <1>2, <1>3, ZenonT(60)
  <1>7. \A b \in woken : content'[b] = IF b \in DOMAIN buffers THEN buffers[b] ELSE Restored(b)
    BY <1>1, <1>3, ZenonT(60)
  <1>8. \A b \in Allocations : b \notin woken => content'[b] = content[b] /\ backup'[b] = backup[b]
    BY <1>3, ZenonT(60)
  <1> QED
    BY <1>4, <1>5, <1>6, <1>7, <1>8, ZenonT(60)

\* Blocks that are not allocated yet are not woken.
LEMMA WokenNotYetLoaded ==
  ASSUME NotYetLoaded, NEW woken \in SUBSET pointer_to_data,
         \A b \in Allocations : b \notin woken => content'[b] = content[b],
         UNCHANGED <<loaded, pointer_to_data>>
  PROVE  NotYetLoaded'
  BY AllocationsAreTagged, ZenonT(60) DEF NotYetLoaded

\* NPUWorker.wake_up
LEMMA WakeKeeps ==
  ASSUME MemoryInv, NEW tags \in WakeTags, WorkerWakeUp(tags)
  PROVE  MemoryInv' /\ (ContentInv => ContentInv')
  <1> DEFINE woken == Visited(tags)
  <1>1. /\ tags # {} /\ tags \subseteq sleeping
        /\ saved_buffers # << >> => "weights" \in tags
        /\ \A b \in woken : content[b] = Unmapped
        /\ WakeBlocks(woken, saved_buffers)
        /\ physical' = [b \in Allocations |-> IF b \in woken THEN physical[b] + 1 ELSE physical[b]]
        /\ saved_buffers' = << >>
        /\ sleeping' = sleeping \ tags
        /\ UNCHANGED <<loaded, pointer_to_data, out_of_memory, leaked, version, expected>>
    BY ZenonT(60) DEF WorkerWakeUp
  <1>2. /\ woken \subseteq pointer_to_data
        /\ \A b \in pointer_to_data : b \in woken <=> TagOf[b] \in tags
        /\ \A b \in woken : TagOf[b] \in sleeping
    BY <1>1, ZenonT(60) DEF Visited
  <1>3. SleepTypes /\ NotYetLoaded /\ SavedTypes /\ PhysicalMemoryIsPaired
    BY DEF MemoryInv
  <1>4. pointer_to_data \subseteq Allocations /\ ~out_of_memory
    BY <1>1, <1>3, ZenonT(60) DEF SleepTypes
  <1>5. \A b \in DOMAIN saved_buffers \cap pointer_to_data : b \in woken /\ IsContent(saved_buffers[b])
    <2> SUFFICES ASSUME NEW b \in DOMAIN saved_buffers, b \in pointer_to_data
                 PROVE  b \in woken /\ IsContent(saved_buffers[b])
      OBVIOUS
    <2>1. b \in Buffers /\ IsContent(saved_buffers[b])
      BY <1>3, ZenonT(60) DEF SavedTypes
    <2>2. saved_buffers # << >>
      OBVIOUS
    <2>3. TagOf[b] \in tags
      BY <1>1, <2>1, <2>2, SleepAssumption, ZenonT(60)
    <2> QED
      BY <1>2, <2>1, <2>3, ZenonT(60)
  <1> HIDE DEF woken
  <1>6. /\ content' \in [Allocations -> Int] /\ backup' \in [Allocations -> Int]
        /\ \A b \in Allocations : backup'[b] # Unmapped /\ content'[b] # NoBackup
        /\ \A b \in woken : IsContent(content'[b]) /\ backup'[b] = NoBackup
        /\ \A b \in woken : content'[b] = Pending(b)
        /\ \A b \in Allocations : b \notin woken => content'[b] = content[b] /\ backup'[b] = backup[b]
    BY <1>1, <1>2, <1>5, WokenTypes, ZenonT(60) DEF Pending
  <1>7. SleepTypes'
    <2>1. physical' \in [Allocations -> Int]
      BY <1>1, <1>3 DEF SleepTypes
    <2>2. sleeping' \subseteq {"weights", "kv_cache"}
      BY <1>1, <1>3, ZenonT(60) DEF SleepTypes
    <2> QED
      BY <1>1, <1>3, <1>4, <1>6, <2>1, <2>2, ZenonT(60) DEF SleepTypes
  <1>8. NotYetLoaded'
    BY <1>1, <1>2, <1>3, <1>6, WokenNotYetLoaded, ZenonT(60)
  <1>9. SavedTypes'
    BY <1>1 DEF SavedTypes
  <1>10. PhysicalMemoryIsPaired'
    <2>1. \A b \in Allocations : physical[b] \in Int
      BY <1>3 DEF SleepTypes
    <2> QED
      BY <1>1, <1>3, <1>6, <2>1 DEF PhysicalMemoryIsPaired, IsContent
  <1>11. ASSUME ContentInv
         PROVE  ContentInv'
    <2>0. AwakeOK /\ AsleepOK
      BY <1>11 DEF ContentInv
    <2>1. \A b \in woken : Pending(b) = expected[b] /\ IsContent(expected[b])
      BY <1>1, <1>2, <2>0, ZenonT(60) DEF AsleepOK
    <2>2. AwakeOK'
      <3> SUFFICES ASSUME NEW b \in pointer_to_data, TagOf[b] \notin sleeping \ tags
                   PROVE  content'[b] = expected[b] /\ IsContent(content'[b]) /\ backup'[b] = NoBackup
        BY <1>1, ZenonT(60) DEF AwakeOK
      <3>1. CASE b \in woken
        BY <1>6, <2>1, <3>1, ZenonT(60)
      <3>2. CASE b \notin woken
        <4>1. TagOf[b] \notin sleeping /\ b \in Allocations
          BY <1>2, <1>4, <3>2
        <4> QED
          BY <1>4, <1>6, <2>0, <3>2, <4>1, ZenonT(60) DEF AwakeOK
      <3> QED
        BY <3>1, <3>2, ZenonT(60)
    <2>3. AsleepOK'
      <3> SUFFICES ASSUME NEW b \in pointer_to_data, TagOf[b] \in sleeping \ tags, content'[b] = Unmapped
                   PROVE  Pending(b)' = expected[b] /\ IsContent(expected[b])
        BY <1>1, ZenonT(60) DEF AsleepOK
      <3>1. b \notin woken /\ b \in Allocations /\ b \notin DOMAIN saved_buffers
        BY <1>2, <1>4, <1>5, ZenonT(60)
      <3>2. Pending(b) = expected[b] /\ IsContent(expected[b])
        BY <1>6, <2>0, <3>1, ZenonT(60) DEF AsleepOK
      <3>3. Pending(b)' = Pending(b)
        <4>1. b \notin DOMAIN saved_buffers'
          BY <1>1
        <4>2. backup'[b] = backup[b]
          BY <1>6, <3>1, ZenonT(60)
        <4> QED
          BY <3>1, <4>1, <4>2 DEF Pending, Restored
      <3> QED
        BY <3>2, <3>3, ZenonT(60)
    <2>4. SavedOK'
      BY <1>1 DEF SavedOK
    <2> QED
      BY <2>2, <2>3, <2>4 DEF ContentInv
  <1> QED
    BY <1>7, <1>8, <1>9, <1>10, <1>11 DEF MemoryInv

\* ... when create_and_map raises half-way: the tags go on sleeping.
LEMMA WakeRaisesKeeps ==
  ASSUME MemoryInv, NEW tags \in WakeTags, NEW b \in Allocations, NEW mapping \in BOOLEAN,
         WorkerWakeUpRaises(tags, b, mapping)
  PROVE  MemoryInv' /\ (ContentInv => ContentInv')
  <1> DEFINE woken == VisitedBefore(tags, b)
  <1>1. /\ tags # {} /\ tags \subseteq sleeping
        /\ \A c \in woken : content[c] = Unmapped
        /\ WakeBlocks(woken, << >>)
        /\ physical' = [c \in Allocations |->
              IF c \in woken \/ (c = b /\ mapping) THEN physical[c] + 1 ELSE physical[c]]
        /\ leaked' = IF mapping THEN leaked \cup {b} ELSE leaked
        /\ UNCHANGED <<loaded, pointer_to_data, saved_buffers, sleeping, out_of_memory, version,
                       expected>>
    BY ZenonT(60) DEF WorkerWakeUpRaises
  <1>2. woken \subseteq pointer_to_data /\ \A c \in woken : TagOf[c] \in sleeping
    BY <1>1, ZenonT(60) DEF Visited, VisitedBefore
  <1>3. SleepTypes /\ NotYetLoaded /\ SavedTypes /\ PhysicalMemoryIsPaired
    BY DEF MemoryInv
  <1>4. pointer_to_data \subseteq Allocations
    BY <1>3 DEF SleepTypes
  <1> HIDE DEF woken
  <1>5. /\ content' \in [Allocations -> Int] /\ backup' \in [Allocations -> Int]
        /\ \A c \in Allocations : backup'[c] # Unmapped /\ content'[c] # NoBackup
        /\ \A c \in woken : IsContent(content'[c])
        /\ \A c \in Allocations : c \notin woken => content'[c] = content[c] /\ backup'[c] = backup[c]
    <2>1. \A c \in DOMAIN << >> \cap pointer_to_data : c \in woken /\ IsContent((<< >>)[c])
      OBVIOUS
    <2> QED
      BY <1>1, <1>2, <2>1, WokenTypes, ZenonT(60)
  <1>6. SleepTypes'
    <2>1. physical' \in [Allocations -> Int]
      BY <1>1, <1>3 DEF SleepTypes
    <2> QED
      BY <1>1, <1>3, <1>5, <2>1, ZenonT(60) DEF SleepTypes
  <1>7. NotYetLoaded'
    BY <1>1, <1>2, <1>3, <1>5, WokenNotYetLoaded, ZenonT(60)
  <1>8. SavedTypes'
    BY <1>1, <1>3, ZenonT(60) DEF SavedTypes
  <1>9. ASSUME ContentInv
        PROVE  ContentInv'
    <2>0. AwakeOK /\ AsleepOK /\ SavedOK
      BY <1>9 DEF ContentInv
    <2>1. AwakeOK'
      <3> SUFFICES ASSUME ~out_of_memory, NEW c \in pointer_to_data, TagOf[c] \notin sleeping
                   PROVE  content'[c] = expected[c] /\ IsContent(content'[c]) /\ backup'[c] = NoBackup
        BY <1>1, ZenonT(60) DEF AwakeOK
      <3>1. c \notin woken /\ c \in Allocations
        BY <1>2, <1>4
      <3> QED
        BY <1>5, <2>0, <3>1, ZenonT(60) DEF AwakeOK
    <2>2. AsleepOK'
      <3> SUFFICES ASSUME NEW c \in pointer_to_data, TagOf[c] \in sleeping, content'[c] = Unmapped
                   PROVE  Pending(c)' = expected[c] /\ IsContent(expected[c])
        BY <1>1, ZenonT(60) DEF AsleepOK
      <3>1. c \notin woken /\ c \in Allocations
        BY <1>4, <1>5, ZenonT(60) DEF IsContent
      <3>2. Pending(c) = expected[c] /\ IsContent(expected[c])
        BY <1>5, <2>0, <3>1, ZenonT(60) DEF AsleepOK
      <3>3. Pending(c)' = Pending(c)
        BY <1>1, <1>5, <3>1, ZenonT(60) DEF Pending, Restored
      <3> QED
        BY <3>2, <3>3, ZenonT(60)
    <2>3. SavedOK'
      BY <1>1, <2>0, ZenonT(60) DEF SavedOK
    <2> QED
      BY <2>1, <2>2, <2>3 DEF ContentInv
  <1>10. PhysicalMemoryIsPaired'
    <2>1. \A c \in Allocations : physical[c] \in Int
      BY <1>3 DEF SleepTypes
    <2> SUFFICES ASSUME NEW c \in Allocations, c \notin leaked'
                 PROVE  physical'[c] = IF content'[c] = Unmapped THEN 0 ELSE 1
      BY ZenonT(60) DEF PhysicalMemoryIsPaired
    <2>2. c \notin leaked /\ ~(c = b /\ mapping)
      BY <1>1, ZenonT(60)
    <2>3. physical[c] = IF content[c] = Unmapped THEN 0 ELSE 1
      BY <1>3, <2>2 DEF PhysicalMemoryIsPaired
    <2>4. CASE c \in woken
      BY <1>1, <1>5, <2>3, <2>4 DEF IsContent
    <2>5. CASE c \notin woken
      BY <1>1, <1>5, <2>2, <2>3, <2>5, ZenonT(60)
    <2> QED
      BY <2>4, <2>5, ZenonT(60)
  <1> QED
    BY <1>6, <1>7, <1>8, <1>9, <1>10 DEF MemoryInv

\* Every step of the worker keeps the invariant.
LEMMA NextSleep ==
  ASSUME SleepInv, [SleepNext]_sleepVars
  PROVE  SleepInv'
  <1>0. MemoryInv /\ (~sleep_failed => ContentInv)
    BY DEF SleepInv
  <1>1. ASSUME NEW b \in Allocations, MyMalloc(b) \/ MyFree(b) \/ WriteBlock(b)
        PROVE  SleepInv'
    <2>1. MemoryInv' /\ (ContentInv => ContentInv')
      BY <1>0, <1>1, MallocKeeps, FreeKeeps, WriteKeeps
    <2>2. sleep_failed' = sleep_failed
      BY <1>1 DEF MyMalloc, MyFree, WriteBlock
    <2> QED
      BY <1>0, <2>1, <2>2, ZenonT(60) DEF SleepInv
  <1>2. ASSUME NEW b \in Allocations, NEW mapping \in BOOLEAN, MyMallocRaises(b, mapping)
        PROVE  SleepInv'
    <2>1. MemoryInv' /\ (ContentInv => ContentInv')
      BY <1>0, <1>2, MallocRaisesKeeps
    <2>2. sleep_failed' = sleep_failed
      BY <1>2 DEF MyMallocRaises
    <2> QED
      BY <1>0, <2>1, <2>2, ZenonT(60) DEF SleepInv
  <1>3. ASSUME NEW level \in {1, 2}, WorkerSleep(level)
        PROVE  SleepInv'
    <2>1. MemoryInv' /\ (ContentInv => ContentInv')
      BY <1>0, <1>3, SleepKeeps
    <2>2. sleep_failed' = sleep_failed
      BY <1>3, ZenonT(60) DEF WorkerSleep
    <2> QED
      BY <1>0, <2>1, <2>2, ZenonT(60) DEF SleepInv
  <1>4. ASSUME NEW level \in {1, 2}, NEW b \in Allocations, NEW step,
               WorkerSleepRaises(level, b, step)
        PROVE  SleepInv'
    <2>1. MemoryInv' /\ sleep_failed'
      BY <1>0, <1>4, SleepRaisesKeeps
    <2> QED
      BY <2>1, ZenonT(60) DEF SleepInv
  <1>5. ASSUME NEW tags \in WakeTags, WorkerWakeUp(tags)
        PROVE  SleepInv'
    <2>1. MemoryInv' /\ (ContentInv => ContentInv')
      BY <1>0, <1>5, WakeKeeps
    <2>2. sleep_failed' = sleep_failed
      BY <1>5, ZenonT(60) DEF WorkerWakeUp
    <2> QED
      BY <1>0, <2>1, <2>2, ZenonT(60) DEF SleepInv
  <1>6. ASSUME NEW tags \in WakeTags, NEW b \in Allocations, NEW mapping \in BOOLEAN,
               WorkerWakeUpRaises(tags, b, mapping)
        PROVE  SleepInv'
    <2>1. MemoryInv' /\ (ContentInv => ContentInv')
      BY <1>0, <1>6, WakeRaisesKeeps
    <2>2. sleep_failed' = sleep_failed
      BY <1>6, ZenonT(60) DEF WorkerWakeUpRaises
    <2> QED
      BY <1>0, <2>1, <2>2, ZenonT(60) DEF SleepInv
  <1>7. CASE UNCHANGED sleepVars
    <2>1. MemoryInv'
      BY <1>0, <1>7, ZenonT(60) DEF MemoryInv, SleepTypes, NotYetLoaded, SavedTypes,
         PhysicalMemoryIsPaired, sleepVars
    <2>2. ContentInv => ContentInv'
      BY <1>7, ZenonT(60) DEF ContentInv, AwakeOK, AsleepOK, Pending, Restored, SavedOK, sleepVars
    <2>3. sleep_failed' = sleep_failed
      BY <1>7 DEF sleepVars
    <2> QED
      BY <1>0, <2>1, <2>2, <2>3, ZenonT(60) DEF SleepInv
  <1> QED
    BY <1>1, <1>2, <1>3, <1>4, <1>5, <1>6, <1>7 DEF SleepNext

\* Waking restores: as long as no sleep has raised, a block whose tag is awake
\* holds its last write, or empty pages where the sleep discarded it, and never
\* the stale backup of an earlier sleep, for any order of sleeps, tagged wake-ups,
\* writes, failed allocations and failed wake-ups.
THEOREM WakeAlwaysRestores == SleepSpec => []WakeRestores
  <1>1. SleepInit => SleepInv
    BY InitSleep
  <1>2. SleepInv /\ [SleepNext]_sleepVars => SleepInv'
    BY NextSleep
  <1>3. SleepInv => WakeRestores
    BY ZenonT(60) DEF SleepInv, ContentInv, AwakeOK, WakeRestores
  <1> QED
    BY <1>1, <1>2, <1>3, PTL DEF SleepSpec

\* create_and_map and unmap_and_release are paired: a block has one physical
\* allocation while it is mapped and none otherwise, whichever sleeps and wake-ups
\* raised half-way, unless aclrtMapMem or aclrtFreePhysical failed for the block.
THEOREM PhysicalStaysPaired == SleepSpec => []PhysicalMemoryIsPaired
  <1>1. SleepInit => SleepInv
    BY InitSleep
  <1>2. SleepInv /\ [SleepNext]_sleepVars => SleepInv'
    BY NextSleep
  <1>3. SleepInv => PhysicalMemoryIsPaired
    BY DEF SleepInv, MemoryInv
  <1> QED
    BY <1>1, <1>2, <1>3, PTL DEF SleepSpec
==============================================================================
