------------------------ MODULE SpecRhythmEngineProofs ------------------------
(***************************************************************************)
(* Proofs that properties of SpecRhythmEngine hold for any number of       *)
(* requests, any windows and any policy.                                   *)
(***************************************************************************)
EXTENDS SpecRhythmEngine, PearlBatchProofs

USE SMTT(20), ZenonT(60)

------------------------------------------------------------------------------
(* Loops.                                                                  *)

(* One turn of each loop of the engine, on what the turn before left:      *)
(* admitting a request, publishing a ticket, applying a verdict.           *)
Turn(loop, x, n) ==
    IF loop.kind = "admit" THEN AdmitOne(x, loop.now)
    ELSE IF loop.kind = "publish" THEN Publish(x, loop.payloads[n].ticket)
    ELSE RowApplied(loop.side, x, loop.rows[n], loop.results[loop.rows[n]])

\* g is a solution of the recursion that defines a loop.
Solves(g, loop, x, N) == g = [n \in 0..N |-> IF n = 0 THEN x ELSE Turn(loop, g[n - 1], n)]

\* The recursion has a solution.
LEMMA LoopDefined ==
  ASSUME NEW loop, NEW x, NEW N \in Nat
  PROVE  \E g : Solves(g, loop, x, N)
  <1> DEFINE Good(m) == \E g : \A n \in 0..m : g[n] = IF n = 0 THEN x ELSE Turn(loop, g[n - 1], n)
             T == {m \in Nat : ~Good(m)}
  <1>1. T = {}
    <2>1. SUFFICES ASSUME T # {} PROVE FALSE
      OBVIOUS
    <2>2. PICK m \in T : \A n \in T : m <= n
      <3>1. T \in SUBSET Nat
        OBVIOUS
      <3> HIDE DEF T
      <3> QED
        BY <2>1, <3>1, LeastExists
    <2>3. m \in Nat /\ ~Good(m)
      BY <2>2, ZenonT(60)
    <2>4. CASE m = 0
      <3> DEFINE h == [n \in 0..0 |-> x]
      <3>1. \A n \in 0..0 : h[n] = IF n = 0 THEN x ELSE Turn(loop, h[n - 1], n)
        OBVIOUS
      <3>2. Good(0)
        BY <3>1, ZenonT(60)
      <3> QED
        BY <2>3, <2>4, <3>2
    <2>5. CASE m # 0
      <3>1. m - 1 \in Nat /\ ~(m <= m - 1)
        BY <2>3, <2>5
      <3>2. m - 1 \notin T
        <4> HIDE DEF T
        <4> QED
          BY <2>2, <2>3, <3>1
      <3>3. Good(m - 1)
        BY <3>1, <3>2, ZenonT(60)
      <3>4. PICK g : \A n \in 0..(m - 1) : g[n] = IF n = 0 THEN x ELSE Turn(loop, g[n - 1], n)
        BY <3>3
      <3> DEFINE h == [n \in 0..m |-> IF n = m THEN Turn(loop, g[m - 1], m) ELSE g[n]]
      <3>5. \A n \in 0..m : h[n] = IF n = 0 THEN x ELSE Turn(loop, h[n - 1], n)
        <4> TAKE n \in 0..m
        <4>1. n # 0 => h[n - 1] = g[n - 1]
          BY <2>3
        <4>2. CASE n = m
          BY <2>3, <2>5, <4>1, <4>2
        <4>3. CASE n # m
          BY <2>3, <3>4, <4>1, <4>3
        <4> QED
          BY <4>2, <4>3
      <3>6. Good(m)
        <4> HIDE DEF h
        <4> QED
          BY <3>5
      <3> QED
        BY <2>3, <3>6
    <2> QED
      BY <2>4, <2>5
  <1>2. Good(N)
    BY <1>1, ZenonT(60)
  <1>3. PICK g : \A n \in 0..N : g[n] = IF n = 0 THEN x ELSE Turn(loop, g[n - 1], n)
    BY <1>2
  <1> DEFINE h == [n \in 0..N |-> g[n]]
  <1>4. \A n \in 0..N : g[n] = IF n = 0 THEN x ELSE Turn(loop, h[n - 1], n)
    <2> TAKE n \in 0..N
    <2>1. n # 0 => h[n - 1] = g[n - 1]
      OBVIOUS
    <2> QED
      BY <1>3, <2>1
  <1>5. h = [n \in 0..N |-> IF n = 0 THEN x ELSE Turn(loop, h[n - 1], n)]
    BY <1>4
  <1> QED
    BY <1>5, ZenonT(60) DEF Solves

\* The admission loop.
LEMMA AdmitRuns ==
  ASSUME NEW e, NEW now
  PROVE  /\ InitialBatchSize \in Nat
         /\ \E g : /\ g[0] = e /\ g[InitialBatchSize] = AdmitReady(e, now)
                  /\ \A n \in 1..InitialBatchSize : g[n] = AdmitOne(g[n - 1], now)
  <1> DEFINE N == InitialBatchSize
             F(g) == [n \in 0..N |-> IF n = 0 THEN e ELSE AdmitOne(g[n - 1], now)]
             k == CHOOSE g : g = F(g)
             loop == [kind |-> "admit", now |-> now]
  <1>1. N \in Nat
    BY BatchAssumption DEF InitialBatchSize
  <1>2. AdmitReady(e, now) = k[N]
    BY DEF AdmitReady
  <1> HIDE DEF N
  <1>3. k = F(k)
    <2>1. PICK g : Solves(g, loop, e, N)
      BY <1>1, LoopDefined, ZenonT(60)
    <2>2. \A y, n : Turn(loop, y, n) = AdmitOne(y, now)
      BY DEF Turn
    <2>3. g = F(g)
      BY <2>1, <2>2, ZenonT(60) DEF Solves
    <2> HIDE DEF F
    <2> QED
      BY <2>3
  <1> HIDE DEF k
  <1>4. \A n \in 0..N : k[n] = IF n = 0 THEN e ELSE AdmitOne(k[n - 1], now)
    BY <1>3, ZenonT(60)
  <1>5. k[0] = e /\ \A n \in 1..N : k[n] = AdmitOne(k[n - 1], now)
    BY <1>1, <1>4
  <1> QED
    BY <1>1, <1>2, <1>5 DEF N

\* The publishing loop.
LEMMA PublishRuns ==
  ASSUME NEW c, NEW payloads, Len(payloads) \in Nat
  PROVE  \E g : /\ g[0] = c /\ g[Len(payloads)] = PublishAll(c, payloads)
               /\ \A n \in 1..Len(payloads) : g[n] = Publish(g[n - 1], payloads[n].ticket)
  <1> DEFINE N == Len(payloads)
             F(g) == [n \in 0..N |-> IF n = 0 THEN c ELSE Publish(g[n - 1], payloads[n].ticket)]
             k == CHOOSE g : g = F(g)
             loop == [kind |-> "publish", payloads |-> payloads]
  <1>1. N \in Nat
    OBVIOUS
  <1>2. PublishAll(c, payloads) = k[N]
    BY DEF PublishAll
  <1> HIDE DEF N
  <1>3. k = F(k)
    <2>1. PICK g : Solves(g, loop, c, N)
      BY <1>1, LoopDefined, ZenonT(60)
    <2>2. \A y, n : Turn(loop, y, n) = Publish(y, payloads[n].ticket)
      BY DEF Turn
    <2>3. g = F(g)
      BY <2>1, <2>2, ZenonT(60) DEF Solves
    <2> HIDE DEF F
    <2> QED
      BY <2>3
  <1> HIDE DEF k
  <1>4. \A n \in 0..N : k[n] = IF n = 0 THEN c ELSE Publish(k[n - 1], payloads[n].ticket)
    BY <1>3, ZenonT(60)
  <1>5. k[0] = c /\ \A n \in 1..N : k[n] = Publish(k[n - 1], payloads[n].ticket)
    BY <1>1, <1>4
  <1> QED
    BY <1>2, <1>5 DEF N

\* g holds the engine after every row.
Applies(g, s, e, results) ==
    /\ g[0] = e /\ g[Len(e.rows)] = RowsApplied(s, e, results)
    /\ \A n \in 1..Len(e.rows) : g[n] = RowApplied(s, g[n - 1], e.rows[n], results[e.rows[n]])

\* The loop over the verified rows.
LEMMA ApplyRuns ==
  ASSUME NEW s, NEW e, e.rows \in Seq(Request), NEW results
  PROVE  \E g : Applies(g, s, e, results)
  <1> DEFINE N == Len(e.rows)
             F(g) == [n \in 0..N |-> IF n = 0 THEN e
                                     ELSE RowApplied(s, g[n - 1], e.rows[n], results[e.rows[n]])]
             k == CHOOSE g : g = F(g)
             loop == [kind |-> "apply", side |-> s, rows |-> e.rows, results |-> results]
  <1>1. N \in Nat
    OBVIOUS
  <1>2. RowsApplied(s, e, results) = k[N]
    BY DEF RowsApplied
  <1> HIDE DEF N
  <1>3. k = F(k)
    <2>1. PICK g : Solves(g, loop, e, N)
      BY <1>1, LoopDefined, ZenonT(60)
    <2>2. \A y, n : Turn(loop, y, n) = RowApplied(s, y, e.rows[n], results[e.rows[n]])
      BY DEF Turn
    <2>3. g = F(g)
      BY <2>1, <2>2, ZenonT(60) DEF Solves
    <2> HIDE DEF F
    <2> QED
      BY <2>3
  <1> HIDE DEF k
  <1>4. \A n \in 0..N : k[n] = IF n = 0 THEN e
                                 ELSE RowApplied(s, k[n - 1], e.rows[n], results[e.rows[n]])
    BY <1>3, ZenonT(60)
  <1>5. k[0] = e /\ \A n \in 1..N : k[n] = RowApplied(s, k[n - 1], e.rows[n], results[e.rows[n]])
    BY <1>1, <1>4
  <1> QED
    BY <1>2, <1>5 DEF N, Applies

\* What holds before the first turn and is kept by every turn holds after the
\* last one.
LEMMA LoopKeeps ==
  ASSUME NEW N \in Nat, NEW P, 0 \in P, \A n \in 1..N : n - 1 \in P => n \in P
  PROVE  N \in P
  <1> DEFINE T == {n \in 0..N : n \notin P}
  <1>1. T = {}
    <2>1. SUFFICES ASSUME T # {} PROVE FALSE
      OBVIOUS
    <2>2. PICK m \in T : \A n \in T : m <= n
      <3>1. T \in SUBSET Nat
        OBVIOUS
      <3> HIDE DEF T
      <3> QED
        BY <2>1, <3>1, LeastExists
    <2>3. m \in 1..N /\ m \notin P
      BY <2>2
    <2>4. m - 1 \in 0..N /\ ~(m <= m - 1)
      BY <2>3
    <2>5. m - 1 \notin T
      <3> HIDE DEF T
      <3> QED
        BY <2>2, <2>4
    <2> QED
      BY <2>3, <2>4, <2>5
  <1> QED
    BY <1>1

------------------------------------------------------------------------------
(* The invariant of one side.                                              *)

EngineFields ==
    {"states", "ctl", "active", "waiting", "completed", "payloads", "rows", "tickets", "finished"}

StateFields == {"tokens", "pre", "committed", "pending", "epoch", "segments", "current"}

(* The controller: ready and staged tickets belong to their requests and   *)
(* to the epoch that comes next, and their ids are below bound and differ. *)
CtlOK(c, bound) ==
    /\ DOMAIN c = {"reqs", "nextHome", "nextId", "ready", "staged"}
    /\ c.reqs \in [Request -> [home : Home, epoch : Nat]]
    /\ c.nextId \in Nat /\ bound \in Nat
    /\ DOMAIN c.ready \subseteq Request /\ DOMAIN c.staged \subseteq Request
    /\ \A r \in DOMAIN c.ready : /\ c.ready[r].request = r /\ c.ready[r].epoch = c.reqs[r].epoch
                                 /\ c.ready[r].id \in Nat /\ c.ready[r].id < bound
    /\ \A r \in DOMAIN c.staged : /\ c.staged[r].request = r /\ c.staged[r].epoch = c.reqs[r].epoch + 1
                                  /\ c.staged[r].id \in Nat /\ c.staged[r].id < bound
    /\ \A r, q \in DOMAIN c.ready : c.ready[r].id = c.ready[q].id => r = q
    /\ \A r, q \in DOMAIN c.staged : c.staged[r].id = c.staged[q].id => r = q
    /\ \A r \in DOMAIN c.ready, q \in DOMAIN c.staged : c.ready[r].id # c.staged[q].id

ReadyIds(c) == {c.ready[r].id : r \in DOMAIN c.ready}

StagedIds(c) == {c.staged[r].id : r \in DOMAIN c.staged}

(* The payload store holds the payload of every ticket in a mailbox and no *)
(* other.                                                                  *)
StoreOK(c, payloads) ==
    /\ DOMAIN payloads = ReadyIds(c) \cup StagedIds(c)
    /\ \A r \in DOMAIN c.ready : payloads[c.ready[r].id].ticket = c.ready[r]
    /\ \A r \in DOMAIN c.staged : payloads[c.staged[r].id].ticket = c.staged[r]

(* The queues: nobody is admitted twice.                                   *)
QueuesOK(active, waiting) ==
    /\ active \in Seq(Request) /\ Distinct(active) /\ waiting \in Seq(Request)
    /\ Members(waiting) \cap Members(active) = {}

StatesOK(states, reqs) ==
    /\ DOMAIN states = Request
    /\ \A r \in Request : DOMAIN states[r] = StateFields /\ states[r].epoch = reqs[r].epoch

(* What always holds of an engine whose new tickets have ids from bound.   *)
EngineOK(e, bound) ==
    /\ DOMAIN e = EngineFields
    /\ CtlOK(e.ctl, bound)
    /\ StoreOK(e.ctl, e.payloads)
    /\ QueuesOK(e.active, e.waiting)
    /\ StatesOK(e.states, e.ctl.reqs)
    /\ DOMAIN e.ctl.ready \subseteq Members(e.active)

(* Between verifications no continuation is staged.                        *)
Idle(e) == EngineOK(e, e.ctl.nextId) /\ DOMAIN e.ctl.staged = {}

(* The rows to verify have their ready tickets.                            *)
RowsOK(e) ==
    /\ e.rows \in Seq(Request) /\ Distinct(e.rows)
    /\ Members(e.rows) \subseteq DOMAIN e.ctl.ready

(* The tickets of this cycle: their ids are the last ones drawn, no        *)
(* request has two, and an eager one continues a row under verification.   *)
TicketsOK(e) ==
    /\ Len(e.tickets) \in Nat
    /\ \A i \in 1..Len(e.tickets) :
          LET t == e.tickets[i]
          IN  /\ t.id = e.ctl.nextId - Len(e.tickets) + i - 1
              /\ t.request \in Members(e.active)
              /\ t.eager => t.request \in Members(e.rows) /\ t.epoch = e.ctl.reqs[t.request].epoch + 1
    /\ \A i, j \in 1..Len(e.tickets) : e.tickets[i].request = e.tickets[j].request => i = j

Planned(e) ==
    /\ EngineOK(e, e.ctl.nextId - Len(e.tickets))
    /\ DOMAIN e.ctl.staged = {} /\ RowsOK(e) /\ TicketsOK(e)

Verifying(e) ==
    EngineOK(e, e.ctl.nextId) /\ RowsOK(e) /\ DOMAIN e.ctl.staged \subseteq Members(e.rows)

(* Nobody is lost between the queues: a request waits, is in the batch or  *)
(* has its result, and only finished requests leave the batch.             *)
Served(e) ==
    /\ Request \subseteq Members(e.active) \cup Members(e.waiting) \cup DOMAIN e.completed
    /\ DOMAIN e.completed \subseteq Request
    /\ DOMAIN e.completed \cap (Members(e.active) \cup Members(e.waiting)) = {}
    /\ \A r \in Request : e.states[r].committed \in Nat
    /\ \A r \in DOMAIN e.completed : e.completed[r] = e.states[r] /\ IsFinished(e.states[r], r)
    /\ \A r \in e.finished : r \in Members(e.active) /\ IsFinished(e.states[r], r)

(* What holds of a side with engine e that stands at at.                   *)
SideOK(at, e) ==
    /\ at \in {"admit", "plan", "idle", "done", "barrier"} => Idle(e)
    /\ at \in {"forward", "receive"} => Planned(e)
    /\ at \in {"verify", "verdict"} => Verifying(e)
    /\ Served(e)
    /\ at # "admit" => e.finished = {}
    /\ at = "done" => e.active = <<>> /\ e.waiting = <<>>

(* The inductive invariant.                                                *)
EngineInv ==
    /\ DOMAIN pc = Side /\ DOMAIN eng = Side
    /\ \A s \in Side : SideOK(pc[s], eng[s])

------------------------------------------------------------------------------
(* Admission.                                                              *)

\* The mailboxes do not depend on the home batches.
LEMMA NewHomes ==
  ASSUME NEW c, NEW bound, CtlOK(c, bound), NEW d, DOMAIN d = DOMAIN c,
         d.ready = c.ready, d.staged = c.staged, d.nextId = c.nextId,
         d.reqs \in [Request -> [home : Home, epoch : Nat]],
         \A q \in Request : d.reqs[q].epoch = c.reqs[q].epoch
  PROVE  CtlOK(d, bound)
  <1>1. /\ \A r \in DOMAIN d.ready : /\ d.ready[r].request = r /\ d.ready[r].epoch = d.reqs[r].epoch
                                     /\ d.ready[r].id \in Nat /\ d.ready[r].id < bound
        /\ \A r \in DOMAIN d.staged : /\ d.staged[r].request = r /\ d.staged[r].epoch = d.reqs[r].epoch + 1
                                      /\ d.staged[r].id \in Nat /\ d.staged[r].id < bound
    BY DEF CtlOK
  <1> QED
    BY <1>1 DEF CtlOK

(* From e to f requests only went from the waiting queue into the batch.   *)
Admits(e, f) ==
    /\ f.states = e.states /\ f.completed = e.completed /\ f.finished = e.finished
    /\ Members(f.active) \cup Members(f.waiting) = Members(e.active) \cup Members(e.waiting)
    /\ Members(e.active) \subseteq Members(f.active)

\* A function on an initial segment of the numbers is a sequence.
LEMMA FunctionIsSeq ==
  ASSUME NEW S, NEW n \in Nat, NEW f \in [1..n -> S]
  PROVE  f \in Seq(S) /\ Len(f) = n
  OBVIOUS

\* A request moves to another home batch.
LEMMA HomeChanges ==
  ASSUME NEW reqs \in [Request -> [home : Home, epoch : Nat]], NEW r \in Request, NEW home \in Home,
         NEW new, new = [reqs EXCEPT ![r].home = home]
  PROVE  /\ new \in [Request -> [home : Home, epoch : Nat]]
         /\ \A q \in Request : new[q].epoch = reqs[q].epoch
  OBVIOUS

\* One request enters.
LEMMA AdmitOneOK ==
  ASSUME NEW e, Idle(e), NEW now
  PROVE  Idle(AdmitOne(e, now)) /\ Admits(e, AdmitOne(e, now))
  <1> DEFINE here == Keep(e.waiting, now)
             r == Head(here)
             home == LeastLoadedHome(e.ctl.reqs, Members(e.active))
             f == [e EXCEPT !.waiting = Keep(@, Request \ {r}), !.active = Append(@, r),
                            !.ctl.reqs[r].home = home]
  <1>1. CASE here = <<>> \/ Len(e.active) >= InitialBatchSize
    <2>1. AdmitOne(e, now) = e
      BY <1>1 DEF AdmitOne
    <2> QED
      BY <2>1, ZenonT(60) DEF Admits
  <1>2. CASE ~(here = <<>> \/ Len(e.active) >= InitialBatchSize)
    <2>1. AdmitOne(e, now) = f
      BY <1>2 DEF AdmitOne
    <2>2. /\ e.active \in Seq(Request) /\ Distinct(e.active) /\ e.waiting \in Seq(Request)
          /\ Members(e.waiting) \cap Members(e.active) = {}
      BY DEF Idle, EngineOK, QueuesOK
    <2>3. /\ here \in Seq(Request) /\ Members(here) = Members(e.waiting) \cap now
      <3>1. Kept(Request, e.waiting, now, here)
        BY <2>2, KeepIs
      <3> HIDE DEF here
      <3> QED
        BY <3>1 DEF Kept
    <2>4. r \in Members(e.waiting) /\ r \in Request
      <3>1. Len(here) >= 1 /\ r = here[1]
        BY <1>2, <2>3, EmptySeq
      <3>2. r \in Members(here)
        BY <3>1 DEF Members
      <3> QED
        BY <2>3, <3>1, <3>2
    <2>5. home \in Home
      BY DEF LeastLoadedHome, Home
    <2> HIDE DEF here, r, home
    <2>6. /\ DOMAIN e = EngineFields /\ DOMAIN e.ctl = {"reqs", "nextHome", "nextId", "ready", "staged"}
          /\ e.ctl.reqs \in [Request -> [home : Home, epoch : Nat]]
      BY DEF Idle, EngineOK, CtlOK
    <2>7. /\ DOMAIN f = EngineFields /\ DOMAIN f.ctl = DOMAIN e.ctl
          /\ f.ctl.ready = e.ctl.ready /\ f.ctl.staged = e.ctl.staged /\ f.ctl.nextId = e.ctl.nextId
          /\ f.payloads = e.payloads /\ f.states = e.states
          /\ f.completed = e.completed /\ f.finished = e.finished
          /\ f.waiting = Keep(e.waiting, Request \ {r}) /\ f.active = Append(e.active, r)
      BY <2>6 DEF EngineFields
    <2>8. /\ f.ctl.reqs \in [Request -> [home : Home, epoch : Nat]]
          /\ \A q \in Request : f.ctl.reqs[q].epoch = e.ctl.reqs[q].epoch
      <3>1. f.ctl.reqs = [e.ctl.reqs EXCEPT ![r].home = home]
        BY <2>6 DEF EngineFields
      <3> HIDE DEF f
      <3> QED
        BY <2>4, <2>5, <2>6, <3>1, HomeChanges
    <2> HIDE DEF f
    <2>9. /\ QueuesOK(f.active, f.waiting) /\ Members(e.active) \subseteq Members(f.active)
          /\ Members(f.active) \cup Members(f.waiting) = Members(e.active) \cup Members(e.waiting)
      <3>1. /\ f.waiting \in Seq(Request) /\ Members(f.waiting) = Members(e.waiting) \ {r}
        <4>1. Kept(Request, e.waiting, Request \ {r}, f.waiting)
          BY <2>2, <2>7, KeepIs
        <4>2. Members(e.waiting) \subseteq Request
          BY <2>2, ElementOfSeq DEF Members
        <4> QED
          BY <4>1, <4>2 DEF Kept
      <3>2. /\ f.active \in Seq(Request) /\ Len(f.active) = Len(e.active) + 1 /\ Len(e.active) \in Nat
            /\ \A i \in 1..Len(e.active) : f.active[i] = e.active[i]
            /\ f.active[Len(e.active) + 1] = r
        BY <2>2, <2>4, <2>7, AppendProperties
      <3>3. Members(f.active) = Members(e.active) \cup {r}
        <4>1. \A i \in 1..Len(f.active) : i \in 1..Len(e.active) \/ i = Len(e.active) + 1
          BY <3>2
        <4>2. \A i \in 1..Len(e.active) : i \in 1..Len(f.active)
          BY <3>2
        <4>3. Len(e.active) + 1 \in 1..Len(f.active)
          BY <3>2
        <4> QED
          BY <3>2, <4>1, <4>2, <4>3, ZenonT(60) DEF Members
      <3>4. r \notin Members(e.active)
        BY <2>2, <2>4
      <3>5. Distinct(f.active)
        <4> SUFFICES ASSUME NEW i \in 1..Len(f.active), NEW j \in 1..Len(f.active),
                            f.active[i] = f.active[j], i # j
                     PROVE  FALSE
          BY ZenonT(60) DEF Distinct
        <4>1. CASE i \in 1..Len(e.active) /\ j \in 1..Len(e.active)
          BY <2>2, <3>2, <4>1 DEF Distinct
        <4>2. CASE i \in 1..Len(e.active) /\ j = Len(e.active) + 1
          BY <3>2, <3>4, <4>2 DEF Members
        <4>3. CASE i = Len(e.active) + 1 /\ j \in 1..Len(e.active)
          BY <3>2, <3>4, <4>3, ZenonT(60) DEF Members
        <4> QED
          BY <3>2, <4>1, <4>2, <4>3
      <3> QED
        BY <2>2, <2>4, <3>1, <3>2, <3>3, <3>5, ZenonT(60) DEF QueuesOK
    <2>10. CtlOK(f.ctl, f.ctl.nextId)
      <3>1. CtlOK(e.ctl, e.ctl.nextId)
        BY DEF Idle, EngineOK
      <3>2. /\ DOMAIN f.ctl = DOMAIN e.ctl /\ f.ctl.ready = e.ctl.ready
            /\ f.ctl.staged = e.ctl.staged /\ f.ctl.nextId = e.ctl.nextId
        BY <2>7
      <3> QED
        BY <2>8, <3>1, <3>2, NewHomes
    <2>11. StoreOK(f.ctl, f.payloads)
      BY <2>7, ZenonT(60) DEF Idle, EngineOK, StoreOK, ReadyIds, StagedIds
    <2>12. StatesOK(f.states, f.ctl.reqs)
      BY <2>7, <2>8 DEF Idle, EngineOK, StatesOK
    <2>13. DOMAIN f.ctl.ready \subseteq Members(f.active) /\ DOMAIN f.ctl.staged = {}
      BY <2>7, <2>9 DEF Idle, EngineOK
    <2>14. Idle(f)
      BY <2>7, <2>9, <2>10, <2>11, <2>12, <2>13, ZenonT(60) DEF Idle, EngineOK
    <2>15. Admits(e, f)
      BY <2>7, <2>9, ZenonT(60) DEF Admits
    <2> QED
      BY <2>1, <2>14, <2>15
  <1> QED
    BY <1>1, <1>2

\* All who have arrived enter as far as there is room.
LEMMA AdmitReadyOK ==
  ASSUME NEW e, Idle(e), NEW now
  PROVE  Idle(AdmitReady(e, now)) /\ Admits(e, AdmitReady(e, now))
  <1> DEFINE N == InitialBatchSize
  <1>1. PICK g : /\ g[0] = e /\ g[N] = AdmitReady(e, now)
                 /\ \A n \in 1..N : g[n] = AdmitOne(g[n - 1], now)
    BY AdmitRuns
  <1>2. N \in Nat
    BY AdmitRuns
  <1> HIDE DEF N
  <1> DEFINE P == {n \in 0..N : Idle(g[n]) /\ Admits(e, g[n])}
  <1>3. 0 \in P
    <2>1. Admits(e, e)
      BY ZenonT(60) DEF Admits
    <2> QED
      BY <1>1, <1>2, <2>1
  <1>4. ASSUME NEW n \in 1..N, n - 1 \in P PROVE n \in P
    <2> DEFINE a == g[n - 1]
               b == g[n]
    <2>1. Idle(a) /\ Admits(e, a) /\ b = AdmitOne(a, now)
      BY <1>1, <1>4
    <2> HIDE DEF a, b
    <2>2. Idle(b) /\ Admits(a, b)
      BY <2>1, AdmitOneOK
    <2>3. Admits(e, b)
      BY <2>1, <2>2, ZenonT(60) DEF Admits
    <2> QED
      BY <2>2, <2>3 DEF b
  <1>5. N \in P
    <2> HIDE DEF P
    <2> QED
      BY <1>2, <1>3, <1>4, LoopKeeps, ZenonT(60)
  <1> QED
    BY <1>1, <1>5

------------------------------------------------------------------------------
(* Retirement.                                                             *)

(* From e to f the finished requests left the batch.                       *)
Retires(e, f) ==
    /\ f.states = e.states /\ f.finished = {} /\ f.waiting = e.waiting
    /\ f.completed = [r \in DOMAIN e.completed \cup e.finished |-> e.states[r]]
    /\ Members(f.active) = Members(e.active) \ e.finished

\* The finished requests leave the batch, the mailboxes and the store.
LEMMA RetiredOK ==
  ASSUME NEW e, Idle(e)
  PROVE  Idle(Retired(e)) /\ Retires(e, Retired(e))
  <1> DEFINE c == e.ctl
             staying == DOMAIN c.reqs \ e.finished
             gone == PayloadsOf(e, e.finished)
             d == DiscardInactivePayloads(c, staying)
             f == Retired(e)
  <1>1. /\ DOMAIN e = EngineFields /\ c.reqs \in [Request -> [home : Home, epoch : Nat]]
        /\ DOMAIN c.ready \subseteq Request /\ DOMAIN c.staged = {}
    BY DEF Idle, EngineOK, CtlOK
  <1>2. /\ DOMAIN f = EngineFields /\ f.ctl = d /\ f.payloads = Drop(e.payloads, gone)
        /\ f.active = Keep(e.active, Request \ e.finished) /\ f.waiting = e.waiting
        /\ f.states = e.states /\ f.finished = {}
        /\ f.completed = [r \in DOMAIN e.completed \cup e.finished |-> e.states[r]]
    BY <1>1 DEF Retired, EngineFields
  <1>3. /\ DOMAIN d = {"reqs", "nextHome", "nextId", "ready", "staged"}
        /\ d.reqs = c.reqs /\ d.nextId = c.nextId
        /\ d.ready = Drop(c.ready, DOMAIN c.ready \ staying)
        /\ d.staged = Drop(c.staged, DOMAIN c.staged \ staying)
    BY ZenonT(60) DEF DiscardInactivePayloads, WithMailboxes
  <1>4. /\ DOMAIN d.ready = DOMAIN c.ready \ e.finished /\ DOMAIN d.staged = {}
        /\ \A r \in DOMAIN d.ready : d.ready[r] = c.ready[r]
    BY <1>1, <1>3, ZenonT(60) DEF Drop
  <1>5. /\ DOMAIN f.payloads = DOMAIN e.payloads \ gone
        /\ \A i \in DOMAIN f.payloads : f.payloads[i] = e.payloads[i]
    BY <1>2 DEF Drop
  <1>6. /\ DOMAIN e.payloads = {c.ready[r].id : r \in DOMAIN c.ready}
        /\ \A r \in DOMAIN c.ready : e.payloads[c.ready[r].id].ticket = c.ready[r]
        /\ \A r \in DOMAIN c.ready : c.ready[r].request = r
    BY <1>1, ZenonT(60) DEF Idle, EngineOK, StoreOK, CtlOK, ReadyIds, StagedIds
  <1>7. gone = {i \in DOMAIN e.payloads : e.payloads[i].ticket.request \in e.finished}
    BY DEF PayloadsOf
  <1>8. Kept(Request, e.active, Request \ e.finished, f.active)
    BY <1>2, KeepIs DEF Idle, EngineOK, QueuesOK
  <1>9. Members(e.active) \subseteq Request
    BY ElementOfSeq DEF Idle, EngineOK, QueuesOK, Members
  <1> HIDE DEF f, d, gone, staying
  <1>10. /\ QueuesOK(f.active, f.waiting) /\ DOMAIN f.ctl.ready \subseteq Members(f.active)
    BY <1>1, <1>2, <1>4, <1>8, <1>9, ZenonT(60) DEF Idle, EngineOK, QueuesOK, Kept
  <1>11. CtlOK(f.ctl, f.ctl.nextId)
    <2>1. CtlOK(c, c.nextId)
      BY DEF Idle, EngineOK
    <2> HIDE DEF c
    <2>2. CtlOK(d, c.nextId)
      BY <1>3, <1>4, <2>1, ZenonT(60) DEF CtlOK
    <2> QED
      BY <1>2, <1>3, <2>2
  <1>12. StoreOK(f.ctl, f.payloads)
    <2>1. DOMAIN f.payloads = {d.ready[r].id : r \in DOMAIN d.ready}
      BY <1>4, <1>5, <1>6, <1>7
    <2>2. \A r \in DOMAIN d.ready : f.payloads[d.ready[r].id].ticket = d.ready[r]
      BY <1>4, <1>5, <1>6, <2>1
    <2> QED
      BY <1>2, <1>4, <2>1, <2>2 DEF StoreOK, ReadyIds, StagedIds
  <1>13. StatesOK(f.states, f.ctl.reqs)
    BY <1>2, <1>3, ZenonT(60) DEF Idle, EngineOK
  <1>14. Retires(e, f)
    BY <1>2, <1>8, <1>9, ZenonT(60) DEF Retires, Kept
  <1> QED
    BY <1>2, <1>4, <1>10, <1>11, <1>12, <1>13, <1>14, ZenonT(60) DEF f, Idle, EngineOK

------------------------------------------------------------------------------
(* Planning.                                                               *)

\* What is planned for whom.
LEMMA PlanIs ==
  ASSUME NEW c, NEW active
  PROVE  LET plan == ExecutionPlan(c, active)
         IN  /\ plan.target \subseteq active \cap DOMAIN c.ready
             /\ plan.normal \subseteq active \ DOMAIN c.ready
             /\ plan.eager \subseteq plan.target
  BY ZenonT(60) DEF ExecutionPlan

(* The proposals to draft: one per request, those of the batch in turn     *)
(* first, then the eager ones.                                             *)
WorkOK(e, plan, work) ==
    /\ Len(work) \in Nat
    /\ \A i \in 1..Len(work) :
          /\ work[i].r \in Members(e.active)
          /\ work[i].eager \in BOOLEAN
          /\ work[i].eager => work[i].r \in plan.target
    /\ \A i, j \in 1..Len(work) : work[i].r = work[j].r => i = j

\* The rows of a plan: at most one per request, all of active requests.
LEMMA WorkIs ==
  ASSUME NEW e, e.active \in Seq(Request), Distinct(e.active),
         NEW plan, NEW budgets,
         DOMAIN budgets \subseteq plan.normal \cup plan.target
  PROVE  WorkOK(e, plan, Work(e, plan, budgets))
  <1> DEFINE eagerBudget(r) == Least(budgets[r], MaxEagerTokens)
             late == {r \in DOMAIN budgets \ plan.normal : eagerBudget(r) > 0}
             normal == Keep(e.active, plan.normal)
             eager == Keep(e.active, late)
             a == [i \in 1..Len(normal) |->
                      [r |-> normal[i], gamma |-> budgets[normal[i]], eager |-> FALSE]]
             b == [i \in 1..Len(eager) |->
                      [r |-> eager[i], gamma |-> eagerBudget(eager[i]), eager |-> TRUE]]
             work == Work(e, plan, budgets)
             S == {a[i] : i \in 1..Len(normal)} \cup {b[i] : i \in 1..Len(eager)}
  <1>1. Kept(Request, e.active, plan.normal, normal)
    BY KeepIs
  <1>2. Kept(Request, e.active, late, eager)
    <2> HIDE DEF late
    <2> QED
      BY KeepIs
  <1>3. work = a \o b
    BY DEF Work
  <1>4. late \subseteq plan.target /\ late \cap plan.normal = {}
    BY ZenonT(60)
  <1> HIDE DEF normal, eager, late, work, eagerBudget
  <1>5. /\ normal \in Seq(Request) /\ Distinct(normal) /\ Members(normal) = Members(e.active) \cap plan.normal
        /\ eager \in Seq(Request) /\ Distinct(eager) /\ Members(eager) = Members(e.active) \cap late
    BY <1>1, <1>2 DEF Kept
  <1>6. Len(normal) \in Nat /\ Len(eager) \in Nat
    BY <1>5
  <1>7. a \in Seq(S) /\ b \in Seq(S) /\ Len(a) = Len(normal) /\ Len(b) = Len(eager)
    <2>1. (\A i \in 1..Len(normal) : a[i] \in S) /\ (\A i \in 1..Len(eager) : b[i] \in S)
      BY ZenonT(60)
    <2> HIDE DEF S
    <2>2. a \in [1..Len(normal) -> S]
      BY <2>1
    <2>3. b \in [1..Len(eager) -> S]
      BY <2>1
    <2> HIDE DEF a, b
    <2> QED
      BY <1>6, <2>2, <2>3, FunctionIsSeq, ZenonT(60)
  <1>8. /\ \A i \in 1..Len(normal) : a[i].r = normal[i] /\ a[i].eager = FALSE
        /\ \A i \in 1..Len(eager) : b[i].r = eager[i] /\ b[i].eager = TRUE
    OBVIOUS
  <1> HIDE DEF a, b, S
  <1>9. /\ Len(work) = Len(normal) + Len(eager)
        /\ \A i \in 1..Len(normal) : work[i] = a[i]
        /\ \A i \in 1..Len(eager) : work[Len(normal) + i] = b[i]
    <2>1. /\ Len(a \o b) = Len(a) + Len(b)
          /\ \A i \in 1..Len(a) + Len(b) : (a \o b)[i] = IF i <= Len(a) THEN a[i] ELSE b[i - Len(a)]
      BY <1>7, ConcatProperties, ZenonT(60)
    <2>2. \A i \in 1..Len(normal) : i \in 1..Len(a) + Len(b) /\ i <= Len(a)
      BY <1>6, <1>7
    <2>3. \A i \in 1..Len(eager) : /\ Len(normal) + i \in 1..Len(a) + Len(b)
                                   /\ ~(Len(normal) + i <= Len(a)) /\ Len(normal) + i - Len(a) = i
      BY <1>6, <1>7
    <2> QED
      BY <1>3, <1>7, <2>1, <2>2, <2>3
  <1>10. ASSUME NEW i \in 1..Len(work)
         PROVE  \/ /\ i \in 1..Len(normal) /\ work[i].r = normal[i] /\ work[i].eager = FALSE
                   /\ normal[i] \in Members(e.active) \cap plan.normal
                \/ \E j \in 1..Len(eager) :
                      /\ i = Len(normal) + j /\ work[i].r = eager[j] /\ work[i].eager = TRUE
                      /\ eager[j] \in Members(e.active) \cap late
    <2>1. CASE i \in 1..Len(normal)
      BY <1>5, <1>8, <1>9, <2>1, ZenonT(60) DEF Members
    <2>2. CASE i \notin 1..Len(normal)
      <3>1. PICK j \in 1..Len(eager) : i = Len(normal) + j
        <4>1. i - Len(normal) \in 1..Len(eager) /\ i = Len(normal) + (i - Len(normal))
          BY <1>6, <1>9, <2>2
        <4> QED
          BY <4>1
      <3>2. eager[j] \in Members(eager)
        BY DEF Members
      <3> QED
        BY <1>5, <1>8, <1>9, <3>1, <3>2
    <2> QED
      BY <2>1, <2>2, ZenonT(60)
  <1>11. ASSUME NEW i \in 1..Len(work), NEW j \in 1..Len(work), work[i].r = work[j].r
         PROVE  i = j
    <2>1. CASE i \in 1..Len(normal) /\ work[i].r = normal[i] /\ work[i].r \in plan.normal
      <3>1. j \in 1..Len(normal) /\ work[j].r = normal[j]
        BY <1>4, <1>10, <1>11, <2>1, ZenonT(60)
      <3> QED
        BY <1>5, <1>11, <2>1, <3>1, ZenonT(60) DEF Distinct
    <2>2. CASE \E k \in 1..Len(eager) : i = Len(normal) + k /\ work[i].r = eager[k] /\ work[i].r \in late
      <3>1. \E k \in 1..Len(eager) : j = Len(normal) + k /\ work[j].r = eager[k]
        BY <1>4, <1>10, <1>11, <2>2, ZenonT(60)
      <3> QED
        BY <1>5, <1>11, <2>2, <3>1, ZenonT(60) DEF Distinct
    <2> QED
      BY <1>10, <2>1, <2>2, ZenonT(60)
  <1>12. Len(work) \in Nat
    BY <1>6, <1>9
  <1>13. \A i \in 1..Len(work) : /\ work[i].r \in Members(e.active) /\ work[i].eager \in BOOLEAN
                                 /\ work[i].eager => work[i].r \in plan.target
    BY <1>4, <1>10, ZenonT(60)
  <1> QED
    BY <1>11, <1>12, <1>13 DEF WorkOK, work

\* The mailboxes do not depend on the next id.
LEMMA NewIds ==
  ASSUME NEW c, NEW bound, CtlOK(c, bound), NEW d, DOMAIN d = DOMAIN c,
         d.ready = c.ready, d.staged = c.staged, d.reqs = c.reqs, d.nextId \in Nat
  PROVE  CtlOK(d, bound)
  BY DEF CtlOK

\* The i-th ticket of a plan.
IthTicket(c, r, gamma, eager, i) == [Ticket(c, r, gamma, eager) EXCEPT !.id = @ + i - 1]

\* Its fields.
LEMMA TicketFields ==
  ASSUME NEW c, NEW r, NEW gamma, NEW eager, NEW i
  PROVE  /\ IthTicket(c, r, gamma, eager, i).id = c.nextId + i - 1
         /\ IthTicket(c, r, gamma, eager, i).request = r
         /\ IthTicket(c, r, gamma, eager, i).eager = eager
         /\ IthTicket(c, r, gamma, eager, i).epoch = c.reqs[r].epoch + (IF eager THEN 1 ELSE 0)
  BY ZenonT(60) DEF IthTicket, Ticket

\* Tickets and rows of a new cycle.
LEMMA PlanOK ==
  ASSUME NEW e, Idle(e), NEW plan, plan.target \subseteq Members(e.active) \cap DOMAIN e.ctl.ready,
         NEW work, WorkOK(e, plan, work)
  PROVE  LET tickets == [i \in 1..Len(work) |->
                 [Ticket(e.ctl, work[i].r, work[i].gamma, work[i].eager) EXCEPT !.id = @ + i - 1]]
         IN  Planned([e EXCEPT !.rows = Keep(e.active, plan.target), !.tickets = tickets,
                               !.ctl.nextId = @ + Len(work)])
  <1> DEFINE tickets == [i \in 1..Len(work) |->
                 [Ticket(e.ctl, work[i].r, work[i].gamma, work[i].eager) EXCEPT !.id = @ + i - 1]]
             f == [e EXCEPT !.rows = Keep(e.active, plan.target), !.tickets = tickets,
                            !.ctl.nextId = @ + Len(work)]
  <1>1. /\ DOMAIN e = EngineFields /\ DOMAIN e.ctl = {"reqs", "nextHome", "nextId", "ready", "staged"}
        /\ e.ctl.nextId \in Nat /\ Len(work) \in Nat /\ e.active \in Seq(Request) /\ Distinct(e.active)
    BY DEF Idle, EngineOK, CtlOK, QueuesOK, WorkOK
  <1>2. /\ DOMAIN f = EngineFields /\ f.rows = Keep(e.active, plan.target) /\ f.tickets = tickets
        /\ f.payloads = e.payloads /\ f.active = e.active /\ f.waiting = e.waiting
        /\ f.states = e.states
    BY <1>1 DEF EngineFields
  <1>3. /\ DOMAIN f.ctl = {"reqs", "nextHome", "nextId", "ready", "staged"}
        /\ f.ctl.nextId = e.ctl.nextId + Len(work)
        /\ f.ctl.ready = e.ctl.ready /\ f.ctl.staged = e.ctl.staged /\ f.ctl.reqs = e.ctl.reqs
    BY <1>1 DEF EngineFields
  <1> HIDE DEF f
  <1>4. Kept(Request, e.active, plan.target, f.rows)
    BY <1>1, <1>2, KeepIs
  <1>5. RowsOK(f) /\ Members(f.rows) = plan.target
    BY <1>1, <1>3, <1>4, ZenonT(60) DEF RowsOK, Kept
  <1>6. /\ Len(tickets) = Len(work)
        /\ \A i \in 1..Len(work) :
              /\ tickets[i].id = e.ctl.nextId + i - 1
              /\ tickets[i].request = work[i].r /\ tickets[i].eager = work[i].eager
              /\ tickets[i].epoch = e.ctl.reqs[work[i].r].epoch + (IF work[i].eager THEN 1 ELSE 0)
    <2>1. \A i \in 1..Len(work) :
             tickets[i] = IthTicket(e.ctl, work[i].r, work[i].gamma, work[i].eager, i)
      BY DEF IthTicket
    <2>2. Len(tickets) = Len(work)
      BY <1>1
    <2> HIDE DEF tickets
    <2> QED
      BY <2>1, <2>2, TicketFields
  <1> HIDE DEF tickets
  <1>7. f.ctl.nextId - Len(tickets) = e.ctl.nextId
    BY <1>1, <1>3, <1>6
  <1>8. TicketsOK(f)
    <2>1. ASSUME NEW i \in 1..Len(f.tickets)
          PROVE  LET t == f.tickets[i]
                 IN  /\ t.id = f.ctl.nextId - Len(f.tickets) + i - 1
                     /\ t.request \in Members(f.active)
                     /\ t.eager => /\ t.request \in Members(f.rows)
                                   /\ t.epoch = f.ctl.reqs[t.request].epoch + 1
      <3>1. i \in 1..Len(work)
        BY <1>2, <1>6
      <3>2. f.tickets[i].id = f.ctl.nextId - Len(f.tickets) + i - 1
        BY <1>2, <1>6, <1>7, <3>1
      <3>3. work[i].r \in Members(e.active) /\ (work[i].eager => work[i].r \in plan.target)
        BY <3>1, ZenonT(60) DEF WorkOK
      <3> QED
        BY <1>2, <1>3, <1>5, <1>6, <3>1, <3>2, <3>3, ZenonT(60)
    <2>2. \A i, j \in 1..Len(f.tickets) : f.tickets[i].request = f.tickets[j].request => i = j
      BY <1>2, <1>6 DEF WorkOK
    <2> QED
      BY <1>1, <1>2, <1>6, <2>1, <2>2, ZenonT(60) DEF TicketsOK
  <1>9. CtlOK(f.ctl, e.ctl.nextId)
    <2>1. CtlOK(e.ctl, e.ctl.nextId)
      BY ZenonT(60) DEF Idle, EngineOK
    <2>2. f.ctl.nextId \in Nat
      BY <1>1, <1>3
    <2> QED
      BY <1>1, <1>3, <2>1, <2>2, NewIds, ZenonT(60)
  <1>10. StoreOK(f.ctl, f.payloads)
    <2>1. StoreOK(e.ctl, e.payloads)
      BY ZenonT(60) DEF Idle, EngineOK
    <2>2. ReadyIds(f.ctl) = ReadyIds(e.ctl) /\ StagedIds(f.ctl) = StagedIds(e.ctl)
      BY <1>3, ZenonT(60) DEF ReadyIds, StagedIds
    <2> QED
      BY <1>2, <1>3, <2>1, <2>2, ZenonT(60) DEF StoreOK
  <1>11. EngineOK(f, e.ctl.nextId)
    BY <1>2, <1>3, <1>9, <1>10, ZenonT(60) DEF Idle, EngineOK
  <1> QED
    BY <1>2, <1>3, <1>5, <1>7, <1>8, <1>11, ZenonT(60) DEF Idle, Planned, f, tickets

------------------------------------------------------------------------------
(* Publication.                                                            *)

(* What the mailboxes hold once the first n tickets of t are published.    *)
PublishedTo(c, t, n, d) ==
    /\ DOMAIN d = {"reqs", "nextHome", "nextId", "ready", "staged"}
    /\ d.reqs = c.reqs /\ d.nextId = c.nextId
    /\ DOMAIN d.ready = DOMAIN c.ready \cup {t[i].request : i \in {k \in 1..n : ~t[k].eager}}
    /\ DOMAIN d.staged = DOMAIN c.staged \cup {t[i].request : i \in {k \in 1..n : t[k].eager}}
    /\ \A r \in DOMAIN d.ready :
          \/ r \in DOMAIN c.ready /\ d.ready[r] = c.ready[r]
          \/ \E i \in 1..n : ~t[i].eager /\ t[i].request = r /\ d.ready[r] = t[i]
    /\ \A r \in DOMAIN d.staged :
          \/ r \in DOMAIN c.staged /\ d.staged[r] = c.staged[r]
          \/ \E i \in 1..n : t[i].eager /\ t[i].request = r /\ d.staged[r] = t[i]

\* Publishing one more ticket.
LEMMA PublishOne ==
  ASSUME NEW c, NEW t, NEW n \in Nat \ {0}, NEW d, PublishedTo(c, t, n - 1, d)
  PROVE  PublishedTo(c, t, n, Publish(d, t[n]))
  <1> DEFINE f == Publish(d, t[n])
             r == t[n].request
  <1>1. \A i : i \in 1..n <=> i \in 1..(n - 1) \/ i = n
    OBVIOUS
  <1>2. CASE t[n].eager
    <2>1. /\ DOMAIN f = {"reqs", "nextHome", "nextId", "ready", "staged"}
          /\ f.reqs = d.reqs /\ f.nextId = d.nextId /\ f.ready = d.ready
          /\ f.staged = Put(d.staged, r, t[n])
      BY <1>2, ZenonT(60) DEF Publish, WithMailboxes
    <2>2. /\ DOMAIN f.staged = DOMAIN d.staged \cup {r} /\ f.staged[r] = t[n]
          /\ \A q \in DOMAIN d.staged : q # r => f.staged[q] = d.staged[q]
      BY <2>1, ZenonT(60) DEF Put
    <2>3. DOMAIN f.ready = DOMAIN c.ready \cup {t[i].request : i \in {k \in 1..n : ~t[k].eager}}
      <3>1. {k \in 1..n : ~t[k].eager} = {k \in 1..(n - 1) : ~t[k].eager}
        BY <1>1, <1>2, ZenonT(60)
      <3> QED
        BY <2>1, <3>1 DEF PublishedTo
    <2>4. DOMAIN f.staged = DOMAIN c.staged \cup {t[i].request : i \in {k \in 1..n : t[k].eager}}
      <3>1. {k \in 1..n : t[k].eager} = {k \in 1..(n - 1) : t[k].eager} \cup {n}
        BY <1>1, <1>2, ZenonT(60)
      <3> QED
        BY <2>2, <3>1 DEF PublishedTo
    <2> HIDE DEF f
    <2>5. \A q \in DOMAIN f.staged :
             \/ q \in DOMAIN c.staged /\ f.staged[q] = c.staged[q]
             \/ \E i \in 1..n : t[i].eager /\ t[i].request = q /\ f.staged[q] = t[i]
      BY <1>1, <1>2, <2>2 DEF PublishedTo
    <2>6. \A q \in DOMAIN f.ready :
             \/ q \in DOMAIN c.ready /\ f.ready[q] = c.ready[q]
             \/ \E i \in 1..n : ~t[i].eager /\ t[i].request = q /\ f.ready[q] = t[i]
      BY <1>1, <2>1 DEF PublishedTo
    <2> QED
      BY <2>1, <2>3, <2>4, <2>5, <2>6, ZenonT(60) DEF PublishedTo, f
  <1>3. CASE ~t[n].eager
    <2>1. /\ DOMAIN f = {"reqs", "nextHome", "nextId", "ready", "staged"}
          /\ f.reqs = d.reqs /\ f.nextId = d.nextId /\ f.staged = d.staged
          /\ f.ready = Put(d.ready, r, t[n])
      BY <1>3 DEF Publish, WithMailboxes
    <2>2. /\ DOMAIN f.ready = DOMAIN d.ready \cup {r} /\ f.ready[r] = t[n]
          /\ \A q \in DOMAIN d.ready : q # r => f.ready[q] = d.ready[q]
      BY <2>1, ZenonT(60) DEF Put
    <2>3. DOMAIN f.ready = DOMAIN c.ready \cup {t[i].request : i \in {k \in 1..n : ~t[k].eager}}
      <3>1. {k \in 1..n : ~t[k].eager} = {k \in 1..(n - 1) : ~t[k].eager} \cup {n}
        BY <1>1, <1>3, ZenonT(60)
      <3> QED
        BY <2>2, <3>1 DEF PublishedTo
    <2>4. DOMAIN f.staged = DOMAIN c.staged \cup {t[i].request : i \in {k \in 1..n : t[k].eager}}
      <3>1. {k \in 1..n : t[k].eager} = {k \in 1..(n - 1) : t[k].eager}
        BY <1>1, <1>3
      <3> QED
        BY <2>1, <3>1 DEF PublishedTo
    <2> HIDE DEF f
    <2>5. \A q \in DOMAIN f.ready :
             \/ q \in DOMAIN c.ready /\ f.ready[q] = c.ready[q]
             \/ \E i \in 1..n : ~t[i].eager /\ t[i].request = q /\ f.ready[q] = t[i]
      BY <1>1, <1>3, <2>2 DEF PublishedTo
    <2>6. \A q \in DOMAIN f.staged :
             \/ q \in DOMAIN c.staged /\ f.staged[q] = c.staged[q]
             \/ \E i \in 1..n : t[i].eager /\ t[i].request = q /\ f.staged[q] = t[i]
      BY <1>1, <2>1 DEF PublishedTo
    <2> QED
      BY <2>1, <2>3, <2>4, <2>5, <2>6, ZenonT(60) DEF PublishedTo, f
  <1> QED
    BY <1>2, <1>3

\* All the tickets of an envelope.
LEMMA PublishAllIs ==
  ASSUME NEW c, DOMAIN c = {"reqs", "nextHome", "nextId", "ready", "staged"},
         NEW t, NEW payloads, Len(payloads) \in Nat,
         \A i \in 1..Len(payloads) : payloads[i].ticket = t[i]
  PROVE  PublishedTo(c, t, Len(payloads), PublishAll(c, payloads))
  <1> DEFINE N == Len(payloads)
  <1>1. PICK g : /\ g[0] = c /\ g[N] = PublishAll(c, payloads)
                 /\ \A n \in 1..N : g[n] = Publish(g[n - 1], payloads[n].ticket)
    BY PublishRuns
  <1> DEFINE P == {n \in 0..N : PublishedTo(c, t, n, g[n])}
  <1>2. 0 \in P
    <2>1. PublishedTo(c, t, 0, c)
      BY DEF PublishedTo
    <2> QED
      BY <1>1, <2>1
  <1>3. ASSUME NEW n \in 1..N, n - 1 \in P PROVE n \in P
    <2>1. PublishedTo(c, t, n - 1, g[n - 1]) /\ n \in Nat \ {0}
      BY <1>3
    <2>2. g[n] = Publish(g[n - 1], t[n])
      BY <1>1
    <2>3. PublishedTo(c, t, n, g[n])
      BY <2>1, <2>2, PublishOne
    <2> QED
      BY <2>3
  <1>4. N \in P
    <2> HIDE DEF P
    <2> QED
      BY <1>2, <1>3, LoopKeeps, ZenonT(60)
  <1> QED
    BY <1>1, <1>4

\* The proposals of this cycle enter the mailboxes and the store.
LEMMA PublishedOK ==
  ASSUME NEW e, Planned(e), NEW payloads, Len(payloads) = Len(e.tickets),
         \A i \in 1..Len(payloads) : payloads[i].ticket = e.tickets[i],
         AllPublishable(e, payloads)
  PROVE  Verifying(Published(e, payloads))
  <1> DEFINE c == e.ctl
             d == PublishAll(c, payloads)
             t == e.tickets
             N == Len(t)
             bound == c.nextId - N
             f == Published(e, payloads)
             new == {payloads[n].ticket.id : n \in 1..Len(payloads)}
  <1>1. /\ DOMAIN e = EngineFields /\ CtlOK(c, bound) /\ StoreOK(c, e.payloads) /\ DOMAIN c.staged = {}
        /\ Members(e.rows) \subseteq DOMAIN c.ready /\ DOMAIN c.ready \subseteq Members(e.active)
        /\ Members(e.active) \subseteq Request
    BY ElementOfSeq DEF Planned, EngineOK, RowsOK, QueuesOK, Members
  <1>2. N \in Nat /\ bound \in Nat /\ c.nextId \in Nat
    BY <1>1, ZenonT(60) DEF Planned, TicketsOK, CtlOK
  <1>3. /\ DOMAIN f = EngineFields /\ f.ctl = d /\ f.active = e.active /\ f.waiting = e.waiting
        /\ f.states = e.states /\ f.rows = e.rows
        /\ f.payloads = [i \in DOMAIN e.payloads \cup new |->
                           IF i \in DOMAIN e.payloads THEN e.payloads[i]
                           ELSE CHOOSE p \in Members(payloads) : p.ticket.id = i]
    BY <1>1 DEF Published, EngineFields
  <1>4. PublishedTo(c, t, N, d)
    <2>1. DOMAIN c = {"reqs", "nextHome", "nextId", "ready", "staged"}
      BY <1>1, ZenonT(60) DEF CtlOK
    <2> QED
      BY <1>2, <2>1, PublishAllIs, ZenonT(60)
  <1>5. \A i \in 1..N : /\ t[i].id = bound + i - 1 /\ t[i].request \in Members(e.active)
                        /\ t[i].eager => /\ t[i].request \in Members(e.rows)
                                         /\ t[i].epoch = c.reqs[t[i].request].epoch + 1
                        /\ ~t[i].eager => /\ t[i].request \notin DOMAIN c.ready
                                          /\ t[i].epoch = c.reqs[t[i].request].epoch
    <2> SUFFICES ASSUME NEW i \in 1..N
                 PROVE  /\ t[i].id = bound + i - 1 /\ t[i].request \in Members(e.active)
                        /\ t[i].eager => /\ t[i].request \in Members(e.rows)
                                         /\ t[i].epoch = c.reqs[t[i].request].epoch + 1
                        /\ ~t[i].eager => /\ t[i].request \notin DOMAIN c.ready
                                          /\ t[i].epoch = c.reqs[t[i].request].epoch
      BY ZenonT(60)
    <2>1. Publishable(c, t[i])
      BY ZenonT(60) DEF AllPublishable
    <2>2. /\ t[i].id = bound + i - 1 /\ t[i].request \in Members(e.active)
          /\ t[i].eager => /\ t[i].request \in Members(e.rows)
                           /\ t[i].epoch = c.reqs[t[i].request].epoch + 1
      BY ZenonT(60) DEF Planned, TicketsOK
    <2> QED
      BY <2>1, <2>2, ZenonT(60) DEF Publishable
  <1>6. \A i, j \in 1..N : t[i].request = t[j].request => i = j
    BY ZenonT(60) DEF Planned, TicketsOK
  <1>7. new = {t[i].id : i \in 1..N}
    OBVIOUS
  <1>17. \A i \in 1..N : payloads[i] \in Members(payloads) /\ payloads[i].ticket = t[i]
    BY ZenonT(60) DEF Members
  <1>18. \A p \in Members(payloads) : \E i \in 1..N : p = payloads[i]
    BY ZenonT(60) DEF Members
  <1>19. StatesOK(e.states, c.reqs) /\ QueuesOK(e.active, e.waiting) /\ RowsOK(e)
    BY ZenonT(60) DEF Planned, EngineOK
  <1> HIDE DEF c, d, t, N, bound, f, new
  <1>8. \A i, j \in 1..N : t[i].id = t[j].id => i = j
    <2>1. \A i, j \in 1..N : bound + i - 1 = bound + j - 1 => i = j
      BY <1>2
    <2> QED
      BY <1>5, <2>1
  <1>9. \A i \in 1..N : t[i].id \in Nat /\ t[i].id < c.nextId /\ ~(t[i].id < bound)
    <2>1. \A i \in 1..N : bound + i - 1 \in Nat /\ bound + i - 1 < c.nextId /\ ~(bound + i - 1 < bound)
      BY <1>2 DEF bound
    <2> QED
      BY <1>5, <2>1, ZenonT(60)
  <1>10. /\ d.reqs = c.reqs /\ d.nextId = c.nextId
         /\ \A r \in DOMAIN d.ready :
               \/ r \in DOMAIN c.ready /\ d.ready[r] = c.ready[r]
               \/ \E i \in 1..N : ~t[i].eager /\ t[i].request = r /\ d.ready[r] = t[i]
         /\ \A r \in DOMAIN d.staged : \E i \in 1..N : t[i].eager /\ t[i].request = r /\ d.staged[r] = t[i]
    BY <1>1, <1>4, ZenonT(60) DEF PublishedTo
  <1>24. ASSUME NEW r \in DOMAIN d.ready
         PROVE  \/ r \in DOMAIN c.ready /\ d.ready[r] = c.ready[r]
                \/ \E i \in 1..N : ~t[i].eager /\ t[i].request = r /\ d.ready[r] = t[i]
    BY <1>10, ZenonT(60)
  <1>25. ASSUME NEW r \in DOMAIN d.staged
         PROVE  \E i \in 1..N : t[i].eager /\ t[i].request = r /\ d.staged[r] = t[i]
    BY <1>10, ZenonT(60)
  <1>11. \A r \in DOMAIN c.ready : r \in DOMAIN d.ready /\ d.ready[r] = c.ready[r]
    <2>1. DOMAIN c.ready \subseteq DOMAIN d.ready
      BY <1>4 DEF PublishedTo
    <2> TAKE r \in DOMAIN c.ready
    <2>2. r \in DOMAIN d.ready
      BY <2>1, ZenonT(60)
    <2>3. ~\E i \in 1..N : ~t[i].eager /\ t[i].request = r
      BY <1>5, ZenonT(60)
    <2> QED
      BY <1>24, <2>2, <2>3, ZenonT(60)
  <1>12. \A i \in 1..N : ~t[i].eager => t[i].request \in DOMAIN d.ready /\ d.ready[t[i].request] = t[i]
    <2>1. \A i \in 1..N : ~t[i].eager => t[i].request \in DOMAIN d.ready
      BY <1>4, ZenonT(60) DEF PublishedTo
    <2> SUFFICES ASSUME NEW i \in 1..N, ~t[i].eager
                 PROVE  t[i].request \in DOMAIN d.ready /\ d.ready[t[i].request] = t[i]
      BY ZenonT(60)
    <2>2. t[i].request \in DOMAIN d.ready /\ t[i].request \notin DOMAIN c.ready
      BY <1>5, <2>1, ZenonT(60)
    <2>3. PICK j \in 1..N : t[j].request = t[i].request /\ d.ready[t[i].request] = t[j]
      BY <1>24, <2>2, ZenonT(60)
    <2> QED
      BY <1>6, <2>2, <2>3, ZenonT(60)
  <1>13. \A i \in 1..N : t[i].eager => t[i].request \in DOMAIN d.staged /\ d.staged[t[i].request] = t[i]
    <2>1. \A i \in 1..N : t[i].eager => t[i].request \in DOMAIN d.staged
      BY <1>4, ZenonT(60) DEF PublishedTo
    <2> QED
      BY <1>6, <1>10, <2>1
  <1>14. \A r \in DOMAIN c.ready : /\ c.ready[r].request = r /\ c.ready[r].epoch = c.reqs[r].epoch
                                   /\ c.ready[r].id \in Nat /\ c.ready[r].id < bound
    BY <1>1, ZenonT(60) DEF CtlOK
  <1>15. CtlOK(d, c.nextId)
    <2>1. /\ DOMAIN d = {"reqs", "nextHome", "nextId", "ready", "staged"}
          /\ d.reqs \in [Request -> [home : Home, epoch : Nat]] /\ d.nextId \in Nat
      BY <1>1, <1>2, <1>4, ZenonT(60) DEF CtlOK, PublishedTo
    <2>2. DOMAIN d.ready \subseteq Request /\ DOMAIN d.staged \subseteq Request
      <3>1. \A i \in 1..N : t[i].request \in Request
        BY <1>1, <1>5, ZenonT(60)
      <3>2. DOMAIN c.ready \subseteq Request
        BY <1>1, ZenonT(60)
      <3>3. ASSUME NEW r \in DOMAIN d.ready PROVE r \in Request
        BY <1>24, <3>1, <3>2, ZenonT(60)
      <3>4. ASSUME NEW r \in DOMAIN d.staged PROVE r \in Request
        BY <1>25, <3>1, ZenonT(60)
      <3> QED
        BY <3>3, <3>4, ZenonT(60)
    <2>3. \A r \in DOMAIN d.ready : /\ d.ready[r].request = r /\ d.ready[r].epoch = d.reqs[r].epoch
                                    /\ d.ready[r].id \in Nat /\ d.ready[r].id < c.nextId
      <3>1. \A r \in DOMAIN c.ready : c.ready[r].id < c.nextId
        <4>1. bound <= c.nextId
          BY <1>2 DEF bound
        <4> QED
          BY <1>2, <1>14, <4>1
      <3> TAKE r \in DOMAIN d.ready
      <3>2. CASE r \in DOMAIN c.ready /\ d.ready[r] = c.ready[r]
        BY <1>10, <1>14, <3>1, <3>2
      <3>3. CASE \E i \in 1..N : ~t[i].eager /\ t[i].request = r /\ d.ready[r] = t[i]
        <4>1. PICK i \in 1..N : ~t[i].eager /\ t[i].request = r /\ d.ready[r] = t[i]
          BY <3>3, ZenonT(60)
        <4>2. t[i].epoch = c.reqs[t[i].request].epoch /\ t[i].id \in Nat /\ t[i].id < c.nextId
          BY <1>5, <1>9, <4>1, ZenonT(60)
        <4> QED
          BY <1>10, <4>1, <4>2, ZenonT(60)
      <3> QED
        BY <1>24, <3>2, <3>3, ZenonT(60)
    <2>4. \A r \in DOMAIN d.staged : /\ d.staged[r].request = r /\ d.staged[r].epoch = d.reqs[r].epoch + 1
                                     /\ d.staged[r].id \in Nat /\ d.staged[r].id < c.nextId
      <3> TAKE r \in DOMAIN d.staged
      <3>1. PICK i \in 1..N : t[i].eager /\ t[i].request = r /\ d.staged[r] = t[i]
        BY <1>25, ZenonT(60)
      <3>2. t[i].epoch = c.reqs[t[i].request].epoch + 1 /\ t[i].id \in Nat /\ t[i].id < c.nextId
        BY <1>5, <1>9, <3>1, ZenonT(60)
      <3> QED
        BY <1>10, <3>1, <3>2, ZenonT(60)
    <2>5. \A r, q \in DOMAIN d.ready : d.ready[r].id = d.ready[q].id => r = q
      <3>1. \A r, q \in DOMAIN c.ready : c.ready[r].id = c.ready[q].id => r = q
        BY <1>1 DEF CtlOK
      <3> QED
        <4> SUFFICES ASSUME NEW r \in DOMAIN d.ready, NEW q \in DOMAIN d.ready, d.ready[r].id = d.ready[q].id
                     PROVE  r = q
          BY ZenonT(60)
        <4>1. \A i \in 1..N, p \in DOMAIN c.ready : t[i].id # c.ready[p].id
          BY <1>9, <1>14, ZenonT(60)
        <4>2. CASE r \in DOMAIN c.ready /\ d.ready[r] = c.ready[r]
          BY <1>24, <3>1, <4>1, <4>2
        <4>3. CASE \E i \in 1..N : ~t[i].eager /\ t[i].request = r /\ d.ready[r] = t[i]
          <5>1. PICK i \in 1..N : t[i].request = r /\ d.ready[r] = t[i]
            BY <4>3, ZenonT(60)
          <5>2. ~(q \in DOMAIN c.ready /\ d.ready[q] = c.ready[q])
            BY <4>1, <5>1, ZenonT(60)
          <5>3. PICK j \in 1..N : t[j].request = q /\ d.ready[q] = t[j]
            BY <1>24, <5>2, ZenonT(60)
          <5> QED
            BY <1>8, <5>1, <5>3, ZenonT(60)
        <4> QED
          BY <1>24, <4>2, <4>3, ZenonT(60)
    <2>6. \A r, q \in DOMAIN d.staged : d.staged[r].id = d.staged[q].id => r = q
      <3> SUFFICES ASSUME NEW r \in DOMAIN d.staged, NEW q \in DOMAIN d.staged, d.staged[r].id = d.staged[q].id
                   PROVE  r = q
        BY ZenonT(60)
      <3>1. PICK i \in 1..N : t[i].request = r /\ d.staged[r] = t[i]
        BY <1>25, ZenonT(60)
      <3>2. PICK j \in 1..N : t[j].request = q /\ d.staged[q] = t[j]
        BY <1>25, ZenonT(60)
      <3> QED
        BY <1>8, <3>1, <3>2, ZenonT(60)
    <2>7. \A r \in DOMAIN d.ready, q \in DOMAIN d.staged : d.ready[r].id # d.staged[q].id
      <3> SUFFICES ASSUME NEW r \in DOMAIN d.ready, NEW q \in DOMAIN d.staged
                   PROVE  d.ready[r].id # d.staged[q].id
        BY ZenonT(60)
      <3>1. PICK j \in 1..N : t[j].eager /\ d.staged[q] = t[j]
        BY <1>25, ZenonT(60)
      <3>2. CASE r \in DOMAIN c.ready /\ d.ready[r] = c.ready[r]
        BY <1>9, <1>14, <3>1, <3>2
      <3>3. CASE \E i \in 1..N : ~t[i].eager /\ t[i].request = r /\ d.ready[r] = t[i]
        BY <1>8, <3>1, <3>3, ZenonT(60)
      <3> QED
        BY <1>24, <3>2, <3>3, ZenonT(60)
    <2> QED
      BY <1>2, <2>1, <2>2, <2>3, <2>4, <2>5, <2>6, <2>7, ZenonT(60) DEF CtlOK
  <1>16. StoreOK(d, f.payloads)
    <2>1. /\ DOMAIN e.payloads = {c.ready[r].id : r \in DOMAIN c.ready}
          /\ \A r \in DOMAIN c.ready : e.payloads[c.ready[r].id].ticket = c.ready[r]
      BY <1>1, ZenonT(60) DEF StoreOK, ReadyIds, StagedIds
    <2>2. /\ DOMAIN f.payloads = DOMAIN e.payloads \cup new
          /\ \A i \in DOMAIN e.payloads : f.payloads[i] = e.payloads[i]
      BY <1>3
    <2>3. \A i \in 1..N : f.payloads[t[i].id].ticket = t[i]
      <3> TAKE i \in 1..N
      <3>1. t[i].id \in new /\ t[i].id \notin DOMAIN e.payloads
        <4>1. \A r \in DOMAIN c.ready : c.ready[r].id # t[i].id
          BY <1>9, <1>14, ZenonT(60)
        <4> QED
          BY <1>7, <2>1, <4>1, ZenonT(60)
      <3>2. f.payloads[t[i].id] = CHOOSE p \in Members(payloads) : p.ticket.id = t[i].id
        BY <1>3, <3>1
      <3>3. \E p \in Members(payloads) : p.ticket.id = t[i].id
        BY <1>17
      <3>4. PICK p : p = f.payloads[t[i].id]
        OBVIOUS
      <3>5. p \in Members(payloads) /\ p.ticket.id = t[i].id
        BY <3>2, <3>3, <3>4, ZenonT(60)
      <3>6. PICK j \in 1..N : p = payloads[j]
        BY <1>18, <3>5, ZenonT(60)
      <3>7. j = i
        BY <1>8, <1>17, <3>5, <3>6, ZenonT(60)
      <3> QED
        BY <1>17, <3>4, <3>6, <3>7, ZenonT(60)
    <2>4. DOMAIN f.payloads = ReadyIds(d) \cup StagedIds(d)
      <3>1. DOMAIN f.payloads \subseteq ReadyIds(d) \cup StagedIds(d)
        <4> SUFFICES ASSUME NEW i \in DOMAIN f.payloads PROVE i \in ReadyIds(d) \cup StagedIds(d)
          BY ZenonT(60)
        <4>1. CASE i \in DOMAIN e.payloads
          BY <1>11, <2>1, <4>1 DEF ReadyIds
        <4>2. CASE i \in new
          <5>1. PICK j \in 1..N : i = t[j].id
            BY <1>7, <4>2, ZenonT(60)
          <5>2. CASE t[j].eager
            BY <1>13, <5>1, <5>2, ZenonT(60) DEF StagedIds
          <5>3. CASE ~t[j].eager
            BY <1>12, <5>1, <5>3, ZenonT(60) DEF ReadyIds
          <5> QED
            BY <5>2, <5>3, ZenonT(60)
        <4> QED
          BY <2>2, <4>1, <4>2, ZenonT(60)
      <3>4. \A i \in 1..N : t[i].id \in DOMAIN f.payloads
        BY <1>7, <2>2, ZenonT(60)
      <3>5. \A r \in DOMAIN c.ready : c.ready[r].id \in DOMAIN f.payloads
        BY <2>1, <2>2, ZenonT(60)
      <3>2. ReadyIds(d) \subseteq DOMAIN f.payloads
        <4>1. ASSUME NEW r \in DOMAIN d.ready PROVE d.ready[r].id \in DOMAIN f.payloads
          BY <1>24, <3>4, <3>5, ZenonT(60)
        <4> QED
          BY <4>1, ZenonT(60) DEF ReadyIds
      <3>3. StagedIds(d) \subseteq DOMAIN f.payloads
        <4>1. ASSUME NEW r \in DOMAIN d.staged PROVE d.staged[r].id \in DOMAIN f.payloads
          BY <1>25, <3>4, ZenonT(60)
        <4> QED
          BY <4>1, ZenonT(60) DEF StagedIds
      <3> QED
        BY <3>1, <3>2, <3>3, ZenonT(60)
    <2>5. \A r \in DOMAIN d.ready : f.payloads[d.ready[r].id].ticket = d.ready[r]
      <3> TAKE r \in DOMAIN d.ready
      <3>1. \A q \in DOMAIN c.ready : f.payloads[c.ready[q].id].ticket = c.ready[q]
        BY <2>1, <2>2, ZenonT(60)
      <3> QED
        BY <1>24, <2>3, <3>1
    <2>6. \A r \in DOMAIN d.staged : f.payloads[d.staged[r].id].ticket = d.staged[r]
      <3> TAKE r \in DOMAIN d.staged
      <3> QED
        BY <1>25, <2>3
    <2> QED
      BY <2>4, <2>5, <2>6, ZenonT(60) DEF StoreOK
  <1>20. DOMAIN d.ready \subseteq Members(e.active) /\ DOMAIN d.staged \subseteq Members(e.rows)
    <2>1. ASSUME NEW r \in DOMAIN d.ready PROVE r \in Members(e.active)
      BY <1>1, <1>5, <1>24
    <2>2. ASSUME NEW r \in DOMAIN d.staged PROVE r \in Members(e.rows)
      BY <1>5, <1>25, ZenonT(60)
    <2> QED
      BY <2>1, <2>2, ZenonT(60)
  <1>21. Members(e.rows) \subseteq DOMAIN d.ready
    BY <1>1, <1>11, ZenonT(60)
  <1>22. EngineOK(f, f.ctl.nextId)
    BY <1>3, <1>10, <1>15, <1>16, <1>19, <1>20, ZenonT(60) DEF EngineOK
  <1>23. RowsOK(f) /\ DOMAIN f.ctl.staged \subseteq Members(f.rows)
    BY <1>3, <1>19, <1>20, <1>21, ZenonT(60) DEF RowsOK
  <1> QED
    BY <1>22, <1>23, ZenonT(60) DEF Verifying, f

------------------------------------------------------------------------------
(* Verification.                                                           *)

(* The proposals that the verdict on r uses up.                            *)
SpentIds(c, r, full) ==
    {c.ready[r].id} \cup
    (IF r \in DOMAIN c.staged /\ ~Promotes(c, r, full) THEN {c.staged[r].id} ELSE {})

(* The controller d and the store are what the verdict on r leaves of c.   *)
VerdictLeaves(c, bound, r, d, store) ==
    /\ CtlOK(d, bound) /\ StoreOK(d, store) /\ d.nextId = c.nextId
    /\ DOMAIN d.staged = DOMAIN c.staged \ {r}
    /\ DOMAIN c.ready \ {r} \subseteq DOMAIN d.ready /\ DOMAIN d.ready \subseteq DOMAIN c.ready
    /\ \A q \in Request :
          d.reqs[q].epoch = IF q = r THEN c.reqs[q].epoch + 1 ELSE c.reqs[q].epoch

\* The controller and the store after the verdict on r.
LEMMA VerdictFinished ==
  ASSUME NEW c, NEW bound, CtlOK(c, bound), NEW payloads, StoreOK(c, payloads),
         NEW r \in DOMAIN c.ready, NEW full \in BOOLEAN
  PROVE  VerdictLeaves(c, bound, r, FinishVerification(c, r, full),
                       Drop(payloads, SpentIds(c, r, full)))
  <1> DEFINE d == FinishVerification(c, r, full)
             spent == SpentIds(c, r, full)
             store == Drop(payloads, spent)
  <1>1. /\ c.reqs \in [Request -> [home : Home, epoch : Nat]] /\ r \in Request
        /\ c.nextId \in Nat /\ bound \in Nat
        /\ DOMAIN c.ready \subseteq Request /\ DOMAIN c.staged \subseteq Request
    BY DEF CtlOK
  <1>2. /\ DOMAIN d = {"reqs", "nextHome", "nextId", "ready", "staged"}
        /\ d.reqs = [c.reqs EXCEPT ![r].epoch = @ + 1] /\ d.nextId = c.nextId
        /\ d.staged = Drop(c.staged, {r})
        /\ Promotes(c, r, full) => d.ready = Put(c.ready, r, c.staged[r])
        /\ ~Promotes(c, r, full) => d.ready = Drop(c.ready, {r})
    BY DEF FinishVerification
  <1>3. Promotes(c, r, full) => r \in DOMAIN c.staged
    BY DEF Promotes
  <1>4. /\ DOMAIN store = DOMAIN payloads \ spent
        /\ \A i \in DOMAIN store : store[i] = payloads[i]
    BY DEF Drop
  <1>5. spent = {c.ready[r].id} \cup
                (IF r \in DOMAIN c.staged /\ ~Promotes(c, r, full) THEN {c.staged[r].id} ELSE {})
    BY ZenonT(60) DEF SpentIds
  <1> HIDE DEF d, spent, store
  <1>6. /\ d.reqs \in [Request -> [home : Home, epoch : Nat]]
        /\ \A q \in Request : d.reqs[q].epoch = IF q = r THEN c.reqs[q].epoch + 1 ELSE c.reqs[q].epoch
    BY <1>1, <1>2
  <1>7. /\ DOMAIN d.staged = DOMAIN c.staged \ {r}
        /\ \A q \in DOMAIN d.staged : d.staged[q] = c.staged[q]
    BY <1>2 DEF Drop
  <1>8. /\ DOMAIN d.ready = IF Promotes(c, r, full) THEN DOMAIN c.ready ELSE DOMAIN c.ready \ {r}
        /\ \A q \in DOMAIN d.ready : q # r => d.ready[q] = c.ready[q]
        /\ r \in DOMAIN d.ready => r \in DOMAIN c.staged /\ d.ready[r] = c.staged[r]
    BY <1>2, <1>3, ZenonT(60) DEF Drop, Put
  <1>9. /\ \A q \in DOMAIN c.ready : /\ c.ready[q].request = q /\ c.ready[q].epoch = c.reqs[q].epoch
                                     /\ c.ready[q].id \in Nat /\ c.ready[q].id < bound
        /\ \A q \in DOMAIN c.staged : /\ c.staged[q].request = q /\ c.staged[q].epoch = c.reqs[q].epoch + 1
                                      /\ c.staged[q].id \in Nat /\ c.staged[q].id < bound
    BY ZenonT(60) DEF CtlOK
  <1>10. /\ \A p, q \in DOMAIN c.ready : c.ready[p].id = c.ready[q].id => p = q
         /\ \A p, q \in DOMAIN c.staged : c.staged[p].id = c.staged[q].id => p = q
         /\ \A p \in DOMAIN c.ready, q \in DOMAIN c.staged : c.ready[p].id # c.staged[q].id
    BY DEF CtlOK
  <1>11. CtlOK(d, bound)
    <2>1. \A q \in DOMAIN d.ready : /\ d.ready[q].request = q /\ d.ready[q].epoch = d.reqs[q].epoch
                                    /\ d.ready[q].id \in Nat /\ d.ready[q].id < bound
      BY <1>1, <1>6, <1>8, <1>9, ZenonT(60)
    <2>2. \A q \in DOMAIN d.staged : /\ d.staged[q].request = q /\ d.staged[q].epoch = d.reqs[q].epoch + 1
                                     /\ d.staged[q].id \in Nat /\ d.staged[q].id < bound
      BY <1>1, <1>6, <1>7, <1>9, ZenonT(60)
    <2>3. \A p, q \in DOMAIN d.ready : d.ready[p].id = d.ready[q].id => p = q
      <3> SUFFICES ASSUME NEW p \in DOMAIN d.ready, NEW q \in DOMAIN d.ready, d.ready[p].id = d.ready[q].id
                   PROVE  p = q
        BY ZenonT(60)
      <3>1. /\ p # r => p \in DOMAIN c.ready /\ d.ready[p] = c.ready[p]
            /\ q # r => q \in DOMAIN c.ready /\ d.ready[q] = c.ready[q]
        BY <1>8, ZenonT(60)
      <3>2. /\ p = r => r \in DOMAIN c.staged /\ d.ready[p] = c.staged[r]
            /\ q = r => r \in DOMAIN c.staged /\ d.ready[q] = c.staged[r]
        BY <1>8, ZenonT(60)
      <3> QED
        BY <1>10, <3>1, <3>2, ZenonT(60)
    <2>4. \A p, q \in DOMAIN d.staged : d.staged[p].id = d.staged[q].id => p = q
      BY <1>7, <1>10, ZenonT(60)
    <2>5. \A p \in DOMAIN d.ready, q \in DOMAIN d.staged : d.ready[p].id # d.staged[q].id
      <3> TAKE p \in DOMAIN d.ready, q \in DOMAIN d.staged
      <3>1. q \in DOMAIN c.staged /\ q # r /\ d.staged[q] = c.staged[q]
        BY <1>7, ZenonT(60)
      <3>2. CASE p = r
        BY <1>8, <1>10, <3>1, <3>2, ZenonT(60)
      <3>3. CASE p # r
        <4>1. p \in DOMAIN c.ready /\ d.ready[p] = c.ready[p]
          BY <1>8, <3>3, ZenonT(60)
        <4> QED
          BY <1>10, <3>1, <4>1, ZenonT(60)
      <3> QED
        BY <3>2, <3>3, ZenonT(60)
    <2>6. DOMAIN d.ready \subseteq Request /\ DOMAIN d.staged \subseteq Request
      BY <1>1, <1>7, <1>8
    <2> QED
      BY <1>1, <1>2, <1>6, <2>1, <2>2, <2>3, <2>4, <2>5, <2>6, ZenonT(60) DEF CtlOK
  <1>12. StoreOK(d, store)
    <2>1. /\ DOMAIN payloads = {c.ready[q].id : q \in DOMAIN c.ready} \cup {c.staged[q].id : q \in DOMAIN c.staged}
          /\ \A q \in DOMAIN c.ready : payloads[c.ready[q].id].ticket = c.ready[q]
          /\ \A q \in DOMAIN c.staged : payloads[c.staged[q].id].ticket = c.staged[q]
      BY ZenonT(60) DEF StoreOK, ReadyIds, StagedIds
    <2>2. ASSUME NEW q \in DOMAIN d.ready
          PROVE  d.ready[q].id \in DOMAIN payloads /\ d.ready[q].id \notin spent
      <3>1. CASE q = r
        <4>1. r \in DOMAIN c.staged /\ d.ready[q] = c.staged[r] /\ spent = {c.ready[r].id}
          BY <1>5, <1>8, <3>1, ZenonT(60)
        <4> QED
          BY <1>10, <2>1, <4>1, ZenonT(60)
      <3>2. CASE q # r
        <4>1. q \in DOMAIN c.ready /\ d.ready[q] = c.ready[q]
          BY <1>8, <3>2, ZenonT(60)
        <4>2. d.ready[q].id \in DOMAIN payloads
          BY <2>1, <4>1, ZenonT(60)
        <4>3. c.ready[q].id # c.ready[r].id
          BY <1>10, <3>2, <4>1, ZenonT(60)
        <4>4. r \in DOMAIN c.staged => c.ready[q].id # c.staged[r].id
          BY <1>10, <4>1, ZenonT(60)
        <4> QED
          BY <1>5, <4>1, <4>2, <4>3, <4>4, ZenonT(60)
      <3> QED
        BY <3>1, <3>2, ZenonT(60)
    <2>3. ASSUME NEW q \in DOMAIN d.staged
          PROVE  d.staged[q].id \in DOMAIN payloads /\ d.staged[q].id \notin spent
      <3>1. q \in DOMAIN c.staged /\ q # r /\ d.staged[q] = c.staged[q]
        BY <1>7, ZenonT(60)
      <3> QED
        BY <1>5, <1>10, <2>1, <3>1, ZenonT(60)
    <2>4. \A i \in DOMAIN payloads \ spent :
             (\E q \in DOMAIN d.ready : d.ready[q].id = i) \/ (\E q \in DOMAIN d.staged : d.staged[q].id = i)
      <3> SUFFICES ASSUME NEW i \in DOMAIN payloads, i \notin spent
                   PROVE  \/ \E q \in DOMAIN d.ready : d.ready[q].id = i
                          \/ \E q \in DOMAIN d.staged : d.staged[q].id = i
        BY ZenonT(60)
      <3>1. CASE \E q \in DOMAIN c.ready : c.ready[q].id = i
        <4>1. PICK q \in DOMAIN c.ready : c.ready[q].id = i
          BY <3>1, ZenonT(60)
        <4>2. q # r
          BY <1>5, <4>1, ZenonT(60)
        <4>3. q \in DOMAIN d.ready /\ d.ready[q] = c.ready[q]
          BY <1>8, <4>2, ZenonT(60)
        <4> QED
          BY <4>1, <4>3, ZenonT(60)
      <3>2. CASE \E q \in DOMAIN c.staged : c.staged[q].id = i
        <4>1. PICK q \in DOMAIN c.staged : c.staged[q].id = i
          BY <3>2, ZenonT(60)
        <4>2. CASE q # r
          <5>1. q \in DOMAIN d.staged /\ d.staged[q] = c.staged[q]
            BY <1>7, <4>2, ZenonT(60)
          <5> QED
            BY <4>1, <5>1, ZenonT(60)
        <4>3. CASE q = r
          <5>1. Promotes(c, r, full)
            BY <1>5, <4>1, <4>3, ZenonT(60)
          <5>2. r \in DOMAIN d.ready /\ d.ready[r] = c.staged[r]
            BY <1>8, <5>1, ZenonT(60)
          <5> QED
            BY <4>1, <4>3, <5>2, ZenonT(60)
        <4> QED
          BY <4>2, <4>3, ZenonT(60)
      <3> QED
        BY <2>1, <3>1, <3>2, ZenonT(60)
    <2>5. DOMAIN store = ReadyIds(d) \cup StagedIds(d)
      BY <1>4, <2>2, <2>3, <2>4, ZenonT(60) DEF ReadyIds, StagedIds
    <2>6. \A q \in DOMAIN d.ready : store[d.ready[q].id].ticket = d.ready[q]
      <3> SUFFICES ASSUME NEW q \in DOMAIN d.ready PROVE store[d.ready[q].id].ticket = d.ready[q]
        BY ZenonT(60)
      <3>1. store[d.ready[q].id] = payloads[d.ready[q].id]
        BY <1>4, <2>2, ZenonT(60)
      <3>2. CASE q = r
        BY <1>8, <2>1, <3>1, <3>2, ZenonT(60)
      <3>3. CASE q # r
        <4>1. q \in DOMAIN c.ready /\ d.ready[q] = c.ready[q]
          BY <1>8, <3>3, ZenonT(60)
        <4> QED
          BY <2>1, <3>1, <4>1, ZenonT(60)
      <3> QED
        BY <3>2, <3>3
    <2>7. \A q \in DOMAIN d.staged : store[d.staged[q].id].ticket = d.staged[q]
      BY <1>4, <1>7, <2>1, <2>3, ZenonT(60)
    <2> QED
      BY <2>5, <2>6, <2>7, ZenonT(60) DEF StoreOK
  <1> QED
    <2>1. DOMAIN c.ready \ {r} \subseteq DOMAIN d.ready /\ DOMAIN d.ready \subseteq DOMAIN c.ready
      BY <1>8, ZenonT(60)
    <2>2. VerdictLeaves(c, bound, r, d, store)
      BY <1>2, <1>6, <1>7, <1>11, <1>12, <2>1, ZenonT(60) DEF VerdictLeaves
    <2> QED
      BY <2>2, ZenonT(60) DEF d, spent, store

\* One row.
LEMMA RowAppliedOK ==
  ASSUME NEW e, EngineOK(e, e.ctl.nextId), NEW r \in DOMAIN e.ctl.ready, NEW s, NEW result
  PROVE  LET f == RowApplied(s, e, r, result)
         IN  /\ EngineOK(f, f.ctl.nextId)
             /\ DOMAIN f.ctl.staged = DOMAIN e.ctl.staged \ {r}
             /\ DOMAIN e.ctl.ready \ {r} \subseteq DOMAIN f.ctl.ready
  <1> DEFINE c == e.ctl
             p == ParentOf(e, r)
             full == result.accepted = p.size
             after == IF s = "draft"
                      THEN ApplyDraftVerification(EagerTrimmed(e, r, full), p.size,
                                                  result.accepted, result.correction, p.next)
                      ELSE ApplyTargetVerification(e.states[r], p.size,
                                                   result.accepted, result.correction, p.next)
             d == FinishVerification(c, r, full)
             f == RowApplied(s, e, r, result)
  <1>1. /\ DOMAIN e = EngineFields /\ CtlOK(c, c.nextId) /\ StoreOK(c, e.payloads)
        /\ DOMAIN e.states = Request /\ r \in Request
        /\ \A q \in Request : DOMAIN e.states[q] = StateFields /\ e.states[q].epoch = c.reqs[q].epoch
        /\ DOMAIN c.ready \subseteq Members(e.active) /\ QueuesOK(e.active, e.waiting)
    BY ZenonT(60) DEF EngineOK, CtlOK, StatesOK
  <1>2. /\ DOMAIN f = EngineFields /\ f.ctl = d /\ f.payloads = Drop(e.payloads, Spent(e, r, full))
        /\ f.states = [e.states EXCEPT ![r] = after]
        /\ f.active = e.active /\ f.waiting = e.waiting
    BY <1>1, ZenonT(60) DEF RowApplied, EngineFields
  <1>3. Spent(e, r, full) = SpentIds(c, r, full)
    <2>1. ParentOf(e, r).ticket.id = c.ready[r].id
      BY <1>1, ZenonT(60) DEF StoreOK, ParentOf
    <2> QED
      BY <2>1, ZenonT(60) DEF Spent, SpentIds
  <1>4. DOMAIN after = StateFields /\ after.epoch = e.states[r].epoch + 1
    <2>1. DOMAIN EagerTrimmed(e, r, full) = StateFields /\ EagerTrimmed(e, r, full).epoch = e.states[r].epoch
      BY <1>1 DEF EagerTrimmed, StateFields
    <2> QED
      BY <2>1, ZenonT(60) DEF ApplyDraftVerification, ApplyTargetVerification, Account, StateFields
  <1>5. full \in BOOLEAN
    BY ZenonT(60)
  <1> HIDE DEF f, d, after, full, c, p
  <1>6. /\ CtlOK(d, c.nextId) /\ StoreOK(d, f.payloads) /\ d.nextId = c.nextId
        /\ DOMAIN d.staged = DOMAIN c.staged \ {r}
        /\ DOMAIN c.ready \ {r} \subseteq DOMAIN d.ready /\ DOMAIN d.ready \subseteq DOMAIN c.ready
        /\ \A q \in Request :
              d.reqs[q].epoch = IF q = r THEN c.reqs[q].epoch + 1 ELSE c.reqs[q].epoch
    <2>1. CtlOK(c, c.nextId) /\ StoreOK(c, e.payloads) /\ r \in DOMAIN c.ready
      BY <1>1, ZenonT(60) DEF c
    <2>2. f.payloads = Drop(e.payloads, SpentIds(c, r, full))
      BY <1>2, <1>3, ZenonT(60)
    <2>3. VerdictLeaves(c, c.nextId, r, FinishVerification(c, r, full),
                        Drop(e.payloads, SpentIds(c, r, full)))
      BY <1>5, <2>1, VerdictFinished, ZenonT(60)
    <2>4. VerdictLeaves(c, c.nextId, r, d, f.payloads)
      BY <2>2, <2>3, ZenonT(60) DEF d
    <2> QED
      BY <2>4, ZenonT(60) DEF VerdictLeaves
  <1>7. StatesOK(f.states, d.reqs)
    BY <1>1, <1>2, <1>4, <1>6, ZenonT(60) DEF StatesOK
  <1>8. EngineOK(f, f.ctl.nextId)
    BY <1>1, <1>2, <1>6, <1>7, ZenonT(60) DEF EngineOK
  <1> QED
    BY <1>2, <1>6, <1>8, ZenonT(60) DEF f, c

(* The first n of the rows have been applied.                              *)
AppliedTo(rows, n, e) ==
    /\ EngineOK(e, e.ctl.nextId)
    /\ \A i \in 1..Len(rows) : i > n => rows[i] \in DOMAIN e.ctl.ready
    /\ \A r \in DOMAIN e.ctl.staged : \E i \in 1..Len(rows) : i > n /\ rows[i] = r

\* All rows.
LEMMA RowsAppliedOK ==
  ASSUME NEW e, Verifying(e), NEW s, NEW results
  PROVE  Idle(RowsApplied(s, e, results))
  <1> DEFINE rows == e.rows
             N == Len(rows)
  <1>1. rows \in Seq(Request) /\ N \in Nat /\ Distinct(rows)
    BY DEF Verifying, RowsOK
  <1>2. PICK g : Applies(g, s, e, results)
    BY <1>1, ApplyRuns, ZenonT(60)
  <1> DEFINE P == {n \in 0..N : AppliedTo(rows, n, g[n])}
  <1>3. 0 \in P
    <2>1. /\ EngineOK(e, e.ctl.nextId)
          /\ \A i \in 1..Len(rows) : rows[i] \in DOMAIN e.ctl.ready
          /\ \A r \in DOMAIN e.ctl.staged : \E i \in 1..Len(rows) : rows[i] = r
      BY DEF Verifying, RowsOK, Members
    <2>2. AppliedTo(rows, 0, e)
      <3> HIDE DEF rows
      <3> QED
        BY <2>1 DEF AppliedTo
    <2>3. 0 \in 0..N
      BY <1>1
    <2>4. g[0] = e
      BY <1>2 DEF Applies
    <2> QED
      BY <2>2, <2>3, <2>4, ZenonT(60)
  <1>4. ASSUME NEW n \in 1..N, n - 1 \in P PROVE n \in P
    <2> DEFINE a == g[n - 1]
               b == g[n]
               r == rows[n]
    <2>1. AppliedTo(rows, n - 1, a)
      BY <1>4
    <2>2. b = RowApplied(s, a, r, results[r])
      BY <1>2 DEF Applies
    <2> HIDE DEF rows, a, b
    <2>3. r \in DOMAIN a.ctl.ready
      BY <1>1, <2>1 DEF AppliedTo
    <2> HIDE DEF r
    <2>4. /\ EngineOK(b, b.ctl.nextId)
          /\ DOMAIN b.ctl.staged = DOMAIN a.ctl.staged \ {r}
          /\ DOMAIN a.ctl.ready \ {r} \subseteq DOMAIN b.ctl.ready
      BY <2>1, <2>2, <2>3, RowAppliedOK DEF AppliedTo
    <2>5. \A i \in 1..Len(rows) : i > n => rows[i] \in DOMAIN b.ctl.ready
      <3> SUFFICES ASSUME NEW i \in 1..Len(rows), i > n PROVE rows[i] \in DOMAIN b.ctl.ready
        OBVIOUS
      <3>1. i > n - 1 /\ i # n
        BY <1>1
      <3>2. rows[i] \in DOMAIN a.ctl.ready
        BY <2>1, <3>1 DEF AppliedTo
      <3>3. rows[i] # r
        BY <1>1, <3>1 DEF Distinct, r
      <3> QED
        BY <2>4, <3>2, <3>3
    <2>6. \A q \in DOMAIN b.ctl.staged : \E i \in 1..Len(rows) : i > n /\ rows[i] = q
      <3> TAKE q \in DOMAIN b.ctl.staged
      <3>1. q \in DOMAIN a.ctl.staged /\ q # r
        BY <2>4
      <3>2. PICK i \in 1..Len(rows) : i > n - 1 /\ rows[i] = q
        BY <2>1, <3>1 DEF AppliedTo
      <3>3. i # n
        BY <3>1, <3>2 DEF r
      <3>4. i > n
        BY <1>1, <3>2, <3>3
      <3> QED
        BY <3>2, <3>4
    <2>7. AppliedTo(rows, n, b)
      BY <2>4, <2>5, <2>6 DEF AppliedTo
    <2> QED
      BY <2>7 DEF b
  <1>5. N \in P
    <2> HIDE DEF P
    <2> QED
      BY <1>1, <1>3, <1>4, LoopKeeps
  <1>6. AppliedTo(rows, N, g[N])
    BY <1>5
  <1>7. \A i \in 1..N : ~(i > N)
    BY <1>1
  <1> DEFINE z == g[N]
  <1>8. EngineOK(z, z.ctl.nextId) /\ DOMAIN z.ctl.staged = {}
    <2> HIDE DEF z, rows
    <2>1. AppliedTo(rows, N, z)
      BY <1>6 DEF z
    <2> QED
      BY <1>7, <2>1 DEF AppliedTo
  <1> QED
    BY <1>2, <1>8, ZenonT(60) DEF Idle, Applies

------------------------------------------------------------------------------
(* Nobody is lost.                                                         *)

\* Admission only moves requests from one queue to the other.
LEMMA AdmitsServes ==
  ASSUME NEW e, Served(e), NEW f, Admits(e, f)
  PROVE  Served(f)
  BY ZenonT(60) DEF Served, Admits

\* The members of a list of requests are requests.
LEMMA MembersIn == ASSUME NEW S, NEW s \in Seq(S) PROVE Members(s) \subseteq S
  BY ElementOfSeq, ZenonT(60) DEF Members

\* The finished requests have their results.
LEMMA RetiresServes ==
  ASSUME NEW e, Idle(e), Served(e), NEW f, Retires(e, f)
  PROVE  Served(f)
  <1>1. /\ DOMAIN f.completed = DOMAIN e.completed \cup e.finished
        /\ \A r \in DOMAIN f.completed : f.completed[r] = e.states[r]
    BY ZenonT(60) DEF Retires
  <1>2. /\ f.states = e.states /\ f.finished = {} /\ f.waiting = e.waiting
        /\ Members(f.active) = Members(e.active) \ e.finished
    BY ZenonT(60) DEF Retires
  <1>3. /\ e.finished \subseteq Members(e.active) /\ Members(e.waiting) \cap Members(e.active) = {}
        /\ Members(e.active) \subseteq Request
    <2>1. e.finished \subseteq Members(e.active)
      BY ZenonT(60) DEF Served
    <2>2. e.active \in Seq(Request) /\ Members(e.waiting) \cap Members(e.active) = {}
      BY ZenonT(60) DEF Idle, EngineOK, QueuesOK
    <2> QED
      BY <2>1, <2>2, MembersIn, ZenonT(60)
  <1> QED
    BY <1>1, <1>2, <1>3, ZenonT(60) DEF Served

\* The windows a side drafts change no count of committed tokens, and belong
\* to requests of the batch.
LEMMA DraftingServes ==
  ASSUME NEW e, Served(e), e.finished = {}, NEW f,
         f.active = e.active, f.waiting = e.waiting, f.completed = e.completed,
         f.finished = e.finished,
         \A r \in Request : f.states[r].committed = e.states[r].committed,
         \A r \in Request \ Members(e.active) : f.states[r] = e.states[r]
  PROVE  Served(f)
  BY ZenonT(60) DEF Served

\* Publishing changes no queue and no state.
LEMMA PublishedServes ==
  ASSUME NEW e, Planned(e), Served(e), e.finished = {}, NEW payloads
  PROVE  Served(Published(e, payloads)) /\ Published(e, payloads).finished = {}
  <1> DEFINE f == Published(e, payloads)
  <1>1. /\ f.active = e.active /\ f.waiting = e.waiting /\ f.completed = e.completed
        /\ f.states = e.states /\ f.finished = e.finished
    BY ZenonT(60) DEF Published, Planned, EngineOK, EngineFields
  <1> HIDE DEF f
  <1>2. Served(f) /\ f.finished = {}
    BY <1>1, DraftingServes, ZenonT(60)
  <1> QED
    BY <1>2 DEF f

(* From e to f a verdict on r was applied.                                 *)
Judges(e, r, f) ==
    /\ DOMAIN f = EngineFields /\ DOMAIN f.states = Request
    /\ f.active = e.active /\ f.waiting = e.waiting /\ f.completed = e.completed
    /\ \A q \in Request : q # r => f.states[q] = e.states[q]
    /\ f.states[r].committed \in Nat
    /\ f.finished = IF IsFinished(f.states[r], r) THEN e.finished \cup {r} ELSE e.finished

\* What one verdict changes.
LEMMA RowJudges ==
  ASSUME NEW e, DOMAIN e = EngineFields, DOMAIN e.states = Request, NEW s, NEW r \in Request,
         NEW result, result.accepted \in Nat, e.states[r].committed \in Nat
  PROVE  Judges(e, r, RowApplied(s, e, r, result))
  <1> DEFINE p == ParentOf(e, r)
             full == result.accepted = p.size
             st == EagerTrimmed(e, r, full)
             after == IF s = "draft"
                      THEN ApplyDraftVerification(st, p.size, result.accepted, result.correction, p.next)
                      ELSE ApplyTargetVerification(e.states[r], p.size,
                                                   result.accepted, result.correction, p.next)
             f == RowApplied(s, e, r, result)
  <1>1. /\ DOMAIN f = EngineFields /\ f.states = [e.states EXCEPT ![r] = after]
        /\ f.active = e.active /\ f.waiting = e.waiting /\ f.completed = e.completed
        /\ f.finished = IF IsFinished(after, r) THEN e.finished \cup {r} ELSE e.finished
    BY ZenonT(60) DEF RowApplied, EngineFields
  <1>2. after.committed \in Nat
    <2>1. st.committed = e.states[r].committed
      BY DEF EagerTrimmed
    <2> HIDE DEF p, full, st
    <2>2. after.committed = e.states[r].committed + result.accepted + (IF result.accepted = p.size THEN 0 ELSE 1)
      BY <2>1, ZenonT(60) DEF ApplyDraftVerification, ApplyTargetVerification, Account
    <2> HIDE DEF after
    <2> QED
      BY <2>2
  <1> HIDE DEF after, f
  <1>3. /\ DOMAIN f.states = Request /\ f.states[r] = after
        /\ \A q \in Request : q # r => f.states[q] = e.states[q]
    BY <1>1
  <1> QED
    BY <1>1, <1>2, <1>3, ZenonT(60) DEF f, Judges

(* The first n of the rows have been applied, and the finished requests    *)
(* are among them.                                                         *)
ServedTo(e, n, d) ==
    /\ DOMAIN d = EngineFields /\ DOMAIN d.states = Request /\ d.active = e.active
    /\ Served(d)
    /\ \A r \in d.finished : \E i \in 1..n : e.rows[i] = r

\* One row.
LEMMA RowServes ==
  ASSUME NEW e, e.rows \in Seq(Request), Distinct(e.rows), Members(e.rows) \subseteq Members(e.active),
         Members(e.active) \subseteq Request,
         NEW n \in 1..Len(e.rows), NEW d, ServedTo(e, n - 1, d),
         NEW s, NEW result, result.accepted \in Nat
  PROVE  ServedTo(e, n, RowApplied(s, d, e.rows[n], result))
  <1> DEFINE r == e.rows[n]
             f == RowApplied(s, d, r, result)
  <1>1. r \in Request /\ r \in Members(e.active)
    <2>1. r \in Members(e.rows)
      BY ZenonT(60) DEF Members
    <2> QED
      BY <2>1, ZenonT(60)
  <1>2. \A i \in 1..(n - 1) : i \in 1..Len(e.rows) /\ i # n /\ i \in 1..n
    OBVIOUS
  <1>3. r \notin d.finished
    BY <1>2 DEF ServedTo, Distinct
  <1>4. n \in 1..n
    OBVIOUS
  <1> HIDE DEF r
  <1>5. /\ DOMAIN d = EngineFields /\ DOMAIN d.states = Request /\ d.active = e.active
        /\ Served(d)
    BY ZenonT(60) DEF ServedTo
  <1>6. /\ DOMAIN f = EngineFields /\ DOMAIN f.states = Request
        /\ f.active = d.active /\ f.waiting = d.waiting /\ f.completed = d.completed
        /\ \A q \in Request : q # r => f.states[q] = d.states[q]
        /\ f.states[r].committed \in Nat
        /\ f.finished = IF IsFinished(f.states[r], r) THEN d.finished \cup {r} ELSE d.finished
    <2>1. d.states[r].committed \in Nat
      BY <1>1, <1>5, ZenonT(60) DEF Served
    <2>2. Judges(d, r, f)
      BY <1>1, <1>5, <2>1, RowJudges, ZenonT(60)
    <2> HIDE DEF f
    <2> QED
      BY <2>2, ZenonT(60) DEF Judges
  <1> HIDE DEF f
  <1>7. Served(f)
    <2>1. r \notin DOMAIN d.completed
      BY <1>1, <1>5, ZenonT(60) DEF Served
    <2>2. \A q \in Request : f.states[q].committed \in Nat
      BY <1>5, <1>6, ZenonT(60) DEF Served
    <2>3. \A q \in DOMAIN f.completed : f.completed[q] = f.states[q] /\ IsFinished(f.states[q], q)
      BY <1>5, <1>6, <2>1, ZenonT(60) DEF Served
    <2>4. \A q \in f.finished : q \in Members(f.active) /\ IsFinished(f.states[q], q)
      BY <1>1, <1>3, <1>5, <1>6, ZenonT(60) DEF Served
    <2> QED
      BY <1>5, <1>6, <2>2, <2>3, <2>4, ZenonT(60) DEF Served
  <1>8. \A q \in f.finished : \E i \in 1..n : e.rows[i] = q
    BY <1>2, <1>4, <1>6, ZenonT(60) DEF ServedTo, r
  <1> QED
    BY <1>5, <1>6, <1>7, <1>8, ZenonT(60) DEF ServedTo, f, r

\* All rows.
LEMMA RowsServe ==
  ASSUME NEW e, Verifying(e), Served(e), e.finished = {}, NEW s, NEW results, LegalResults(e, results)
  PROVE  Served(RowsApplied(s, e, results))
  <1> DEFINE N == Len(e.rows)
  <1>1. /\ e.rows \in Seq(Request) /\ N \in Nat /\ Distinct(e.rows)
        /\ Members(e.rows) \subseteq Members(e.active) /\ Members(e.active) \subseteq Request
        /\ DOMAIN e = EngineFields /\ DOMAIN e.states = Request
    <2>1. /\ e.rows \in Seq(Request) /\ Distinct(e.rows) /\ Members(e.rows) \subseteq Members(e.active)
          /\ e.active \in Seq(Request) /\ DOMAIN e = EngineFields /\ DOMAIN e.states = Request
      BY ZenonT(60) DEF Verifying, RowsOK, EngineOK, QueuesOK, StatesOK
    <2> QED
      BY <2>1, MembersIn
  <1>2. \A n \in 1..N : results[e.rows[n]].accepted \in Nat
    <2> TAKE n \in 1..N
    <2> DEFINE q == e.rows[n]
    <2>1. q \in Members(e.rows)
      BY ZenonT(60) DEF Members
    <2> HIDE DEF q
    <2>2. ValidVerification(Gamma, ParentOf(e, q).size, results[q].accepted, results[q].correction,
                            ParentOf(e, q).next)
      BY <2>1, ZenonT(60) DEF LegalResults
    <2>3. results[q].accepted \in Nat
      BY <2>2 DEF ValidVerification
    <2> QED
      BY <2>3 DEF q
  <1>3. PICK g : Applies(g, s, e, results)
    BY <1>1, ApplyRuns, ZenonT(60)
  <1> DEFINE P == {n \in 0..N : ServedTo(e, n, g[n])}
  <1>4. 0 \in P
    <2>1. ServedTo(e, 0, e)
      BY <1>1, ZenonT(60) DEF ServedTo
    <2> QED
      BY <1>1, <1>3, <2>1 DEF Applies
  <1>5. ASSUME NEW n \in 1..N, n - 1 \in P PROVE n \in P
    <2>1. ServedTo(e, n - 1, g[n - 1])
      BY <1>5
    <2>2. g[n] = RowApplied(s, g[n - 1], e.rows[n], results[e.rows[n]])
      BY <1>3 DEF Applies
    <2>3. ServedTo(e, n, g[n])
      BY <1>1, <1>2, <2>1, <2>2, RowServes, ZenonT(60)
    <2> QED
      BY <2>3
  <1>6. N \in P
    <2> HIDE DEF P
    <2> QED
      BY <1>1, <1>4, <1>5, LoopKeeps, ZenonT(60)
  <1> QED
    BY <1>3, <1>6, ZenonT(60) DEF Applies, ServedTo

\* What a finished request shows is complete.
LEMMA TruncatedStops ==
  ASSUME NEW r \in Request, NEW st, st.committed \in Nat, IsFinished(st, r)
  PROVE  StoppedAt(TruncateCompletion(CommittedCompletion(st, PromptLen(r)), MaxTokens[r]), r)
  <1> DEFINE k == PromptLen(r)
             m == st.committed
             max == MaxTokens[r]
             c == CommittedCompletion(st, k)
             S == {st.tokens[i] : i \in (k + 1)..m}
             v == TruncateCompletion(c, max)
  <1>1. k \in Nat /\ max \in Nat /\ m \in Nat
    BY BatchAssumption DEF PromptLen
  <1>2. c \in Seq(S)
    <2>1. c = SubSeq(st.tokens, k + 1, m)
      BY DEF CommittedCompletion
    <2>2. \A i \in (k + 1)..m : st.tokens[i] \in S
      OBVIOUS
    <2> HIDE DEF S, k, m, c
    <2> QED
      BY <1>1, <2>1, <2>2, SubSeqProperties
  <1>3. Len(c) \in Nat
    BY <1>2
  <1>4. Len(c) >= max \/ \E i \in 1..Len(c) : c[i] \in Eos
    BY DEF IsFinished, Finished
  <1> DEFINE size == IF Len(c) < max THEN Len(c) ELSE max
             ends == {i \in 1..size : c[i] \in Eos}
             cut == IF ends = {} THEN size ELSE CHOOSE i \in ends : \A j \in ends : i <= j
  <1>5. v = SubSeq(c, 1, cut)
    BY DEF TruncateCompletion
  <1> HIDE DEF k, m, max, c, S, v
  <1>6. size \in Nat /\ size <= Len(c) /\ (size = Len(c) \/ size = max)
    BY <1>1, <1>3
  <1> HIDE DEF size
  <1>7. \/ cut = size /\ ends = {}
        \/ cut \in 1..size /\ c[cut] \in Eos
    <2>1. CASE ends # {}
      <3>1. ends \in SUBSET Nat
        BY <1>6
      <3>2. PICK i \in ends : \A j \in ends : i <= j
        BY <2>1, <3>1, LeastExists, ZenonT(60)
      <3>3. cut \in ends
        <4> HIDE DEF ends
        <4> QED
          BY <2>1, <3>2
      <3> QED
        BY <3>3, ZenonT(60)
    <2> QED
      BY <2>1, ZenonT(60)
  <1> HIDE DEF cut
  <1>8. cut \in Nat /\ cut <= Len(c)
    BY <1>3, <1>6, <1>7
  <1>9. Len(v) = cut /\ \A i \in 1..cut : v[i] = c[i]
    <2>1. 1 \in Int /\ cut \in Int /\ \A i \in 1..cut : c[i] \in S
      BY <1>2, <1>3, <1>8
    <2>2. /\ Len(v) = (IF 1 <= cut THEN cut - 1 + 1 ELSE 0)
          /\ \A i \in 1..(cut - 1 + 1) : v[i] = c[1 + i - 1]
      BY <1>5, <2>1, SubSeqProperties
    <2> QED
      BY <1>8, <2>2
  <1>10. CASE cut = size /\ ends = {}
    <2>1. CASE size = max
      BY <1>1, <1>9, <1>10, <2>1 DEF StoppedAt, max, v, c, k
    <2>2. CASE size = Len(c) /\ size # max
      <3>1. \A i \in 1..Len(c) : c[i] \notin Eos
        BY <1>10, <2>2, ZenonT(60)
      <3>2. Len(c) >= max
        BY <1>4, <3>1, ZenonT(60)
      <3> QED
        BY <1>9, <1>10, <2>2, <3>2 DEF StoppedAt, max, v, c, k
    <2> QED
      BY <1>6, <2>1, <2>2, ZenonT(60)
  <1>11. CASE cut \in 1..size /\ c[cut] \in Eos
    <2>1. cut \in 1..Len(v) /\ v[cut] \in Eos
      BY <1>8, <1>9, <1>11
    <2> QED
      BY <2>1, ZenonT(60) DEF StoppedAt, v, c, k, max
  <1> QED
    BY <1>7, <1>10, <1>11

------------------------------------------------------------------------------
(* The steps.                                                              *)

\* The steps of one side leave the other side where it is.
LEMMA SideStep ==
  ASSUME EngineInv, NEW s \in Side, NEW at, NEW e, SideOK(at, e),
         pc' = [pc EXCEPT ![s] = at], eng' = [eng EXCEPT ![s] = e]
  PROVE  EngineInv'
  <1>1. /\ DOMAIN pc' = Side /\ DOMAIN eng' = Side /\ pc'[s] = at /\ eng'[s] = e
        /\ \A q \in Side : q # s => pc'[q] = pc[q] /\ eng'[q] = eng[q]
    BY DEF EngineInv
  <1>2. ASSUME NEW q \in Side PROVE SideOK(pc'[q], eng'[q])
    <2>1. CASE q = s
      BY <1>1, <2>1, ZenonT(60)
    <2>2. CASE q # s
      BY <1>1, <2>2, ZenonT(60) DEF EngineInv
    <2> QED
      BY <2>1, <2>2
  <1> QED
    BY <1>1, <1>2, ZenonT(60) DEF EngineInv

\* A worker that raises does nothing more.
LEMMA RaiseStep ==
  ASSUME EngineInv, NEW s \in Side, NEW why \in {"raised", "misrouted", "overflow"}, Raise(s, why),
         pc[s] # "admit"
  PROVE  EngineInv'
  <1>1. /\ DOMAIN pc' = Side /\ eng' = eng /\ pc'[s] = why
        /\ \A q \in Side : q # s => pc'[q] = pc[q]
    BY DEF Raise, EngineInv
  <1>2. SideOK(pc[s], eng[s])
    BY DEF EngineInv
  <1>3. SideOK(why, eng[s])
    BY <1>2, ZenonT(60) DEF SideOK
  <1> QED
    BY <1>1, <1>3, ZenonT(60) DEF EngineInv

\* Retirement and admission.
LEMMA AdmitStep ==
  ASSUME EngineInv, NEW s \in Side, NEW now, Admit(s, now)
  PROVE  EngineInv'
  <1> DEFINE d == Retired(eng[s])
             e == AdmitReady(d, now)
             at == IF e.active # <<>> THEN "plan" ELSE IF e.waiting # <<>> THEN "idle" ELSE "done"
  <1>1. Idle(eng[s]) /\ Served(eng[s])
    BY DEF Admit, EngineInv, SideOK
  <1>2. Idle(d) /\ Retires(eng[s], d)
    BY <1>1, RetiredOK
  <1>3. Served(d) /\ d.finished = {}
    BY <1>1, <1>2, RetiresServes, ZenonT(60) DEF Retires
  <1>4. eng' = [eng EXCEPT ![s] = e] /\ pc' = [pc EXCEPT ![s] = at]
    BY DEF Admit
  <1> HIDE DEF d
  <1>5. Idle(e) /\ Admits(d, e)
    BY <1>2, AdmitReadyOK
  <1>6. Served(e) /\ e.finished = {}
    BY <1>3, <1>5, AdmitsServes, ZenonT(60) DEF Admits
  <1>7. at \in {"plan", "idle", "done"} /\ (at = "done" => e.active = <<>> /\ e.waiting = <<>>)
    OBVIOUS
  <1> HIDE DEF e, at
  <1>8. SideOK(at, e)
    BY <1>5, <1>6, <1>7, ZenonT(60) DEF SideOK
  <1> QED
    BY <1>4, <1>8, SideStep, ZenonT(60)

\* A new cycle: the tickets in the mailboxes belong to active requests, so
\* there is nothing to discard.
LEMMA PlanStep ==
  ASSUME EngineInv, NEW s \in Side, Plan(s)
  PROVE  EngineInv'
  <1> DEFINE active == Members(eng[s].active)
             e == [eng[s] EXCEPT !.ctl = DiscardInactivePayloads(@, active)]
             plan == ExecutionPlan(e.ctl, active)
  <1>1. Idle(eng[s]) /\ Served(eng[s]) /\ eng[s].finished = {} /\ pc[s] # "admit"
    BY ZenonT(60) DEF Plan, EngineInv, SideOK
  <1>2. /\ Idle(e) /\ e.active = eng[s].active /\ e.waiting = eng[s].waiting
        /\ e.completed = eng[s].completed /\ e.states = eng[s].states /\ e.finished = eng[s].finished
    <2> DEFINE g == eng[s]
               d == DiscardInactivePayloads(g.ctl, active)
    <2>1. /\ DOMAIN g = EngineFields /\ CtlOK(g.ctl, g.ctl.nextId) /\ DOMAIN g.ctl.staged = {}
          /\ DOMAIN g.ctl.ready \subseteq active
      BY <1>1 DEF Idle, EngineOK
    <2>2. /\ e.ctl = d /\ DOMAIN e = EngineFields /\ e.payloads = g.payloads /\ e.active = g.active
          /\ e.waiting = g.waiting /\ e.states = g.states
          /\ e.completed = g.completed /\ e.finished = g.finished
      BY <2>1, ZenonT(60) DEF EngineFields
    <2>3. /\ DOMAIN d = {"reqs", "nextHome", "nextId", "ready", "staged"}
          /\ d.reqs = g.ctl.reqs /\ d.nextId = g.ctl.nextId
          /\ d.ready = Drop(g.ctl.ready, DOMAIN g.ctl.ready \ active)
          /\ d.staged = Drop(g.ctl.staged, DOMAIN g.ctl.staged \ active)
      BY ZenonT(60) DEF DiscardInactivePayloads, WithMailboxes
    <2>4. /\ DOMAIN d.ready = DOMAIN g.ctl.ready /\ DOMAIN d.staged = {}
          /\ \A r \in DOMAIN d.ready : d.ready[r] = g.ctl.ready[r]
      BY <2>1, <2>3, ZenonT(60) DEF Drop
    <2> HIDE DEF g, d, e, active
    <2>5. CtlOK(d, d.nextId)
      BY <2>1, <2>3, <2>4, ZenonT(60) DEF CtlOK
    <2>6. StoreOK(d, g.payloads)
      <3>1. StoreOK(g.ctl, g.payloads)
        BY <1>1, ZenonT(60) DEF Idle, EngineOK, g
      <3> QED
        BY <2>1, <2>4, <3>1 DEF StoreOK, ReadyIds, StagedIds
    <2>7. /\ QueuesOK(g.active, g.waiting) /\ StatesOK(g.states, d.reqs)
          /\ DOMAIN d.ready \subseteq Members(g.active)
      BY <1>1, <2>1, <2>3, <2>4, ZenonT(60) DEF Idle, EngineOK, g, active
    <2> QED
      BY <2>2, <2>4, <2>5, <2>6, <2>7, ZenonT(60) DEF Idle, EngineOK, g
  <1>3. CASE Raise(s, "raised")
    BY <1>1, <1>3, RaiseStep
  <1>4. CASE ~Raise(s, "raised")
    <2>1. PICK urgent, budgets :
             LET work == Work(e, plan, budgets)
                 tickets == [i \in 1..Len(work) |->
                     [Ticket(e.ctl, work[i].r, work[i].gamma, work[i].eager) EXCEPT !.id = @ + i - 1]]
             IN  /\ urgent \subseteq plan.eager
                 /\ DOMAIN budgets = plan.normal \cup urgent
                 /\ eng' = [eng EXCEPT ![s] =
                       [e EXCEPT !.rows = Keep(e.active, plan.target), !.tickets = tickets,
                                 !.ctl.nextId = @ + Len(work)]]
                 /\ pc' = [pc EXCEPT ![s] = "forward"]
      <3> HIDE DEF e, plan
      <3> QED
        BY <1>4, ZenonT(60) DEF Plan, ShapeOutcomes, active, e, plan
    <2> DEFINE work == Work(e, plan, budgets)
               tickets == [i \in 1..Len(work) |->
                   [Ticket(e.ctl, work[i].r, work[i].gamma, work[i].eager) EXCEPT !.id = @ + i - 1]]
               f == [e EXCEPT !.rows = Keep(e.active, plan.target), !.tickets = tickets,
                              !.ctl.nextId = @ + Len(work)]
    <2>2. /\ plan.target \subseteq active \cap DOMAIN e.ctl.ready /\ plan.eager \subseteq plan.target
      <3> HIDE DEF e
      <3> QED
        BY PlanIs
    <2>3. e.active \in Seq(Request) /\ Distinct(e.active) /\ Members(e.active) = active
      BY <1>2, ZenonT(60) DEF Idle, EngineOK, QueuesOK
    <2>4. eng' = [eng EXCEPT ![s] = f] /\ pc' = [pc EXCEPT ![s] = "forward"]
      BY <2>1, ZenonT(60)
    <2>5. DOMAIN budgets \subseteq plan.normal \cup plan.target
      BY <2>1, <2>2, ZenonT(60)
    <2> HIDE DEF e, plan, active
    <2>6. WorkOK(e, plan, work)
      BY <2>3, <2>5, WorkIs, ZenonT(60)
    <2> HIDE DEF work
    <2>7. Planned(f)
      BY <1>2, <2>2, <2>3, <2>6, PlanOK, ZenonT(60)
    <2>8. /\ f.active = e.active /\ f.waiting = e.waiting /\ f.completed = e.completed
          /\ f.states = e.states /\ f.finished = e.finished
      BY <1>2, ZenonT(60) DEF Idle, EngineOK, EngineFields
    <2> HIDE DEF f
    <2>9. Served(f) /\ f.finished = {}
      BY <1>1, <1>2, <2>8, DraftingServes, ZenonT(60)
    <2>10. SideOK("forward", f)
      BY <2>7, <2>9, ZenonT(60) DEF SideOK
    <2> QED
      BY <2>4, <2>10, SideStep, ZenonT(60)
  <1> QED
    BY <1>3, <1>4

\* With no row to verify nothing is staged.
LEMMA NothingToVerify ==
  ASSUME NEW e, Verifying(e), e.rows = <<>>
  PROVE  Idle(e)
  BY DEF Verifying, Members, Idle

\* The draft's windows go to the end of token_ids, which the mailboxes do
\* not depend on.
LEMMA ExtendedOK ==
  ASSUME NEW e, Planned(e), NEW states, StatesOK(states, e.ctl.reqs)
  PROVE  LET x == [e EXCEPT !.states = states]
         IN  Planned(x) /\ x.ctl = e.ctl /\ x.tickets = e.tickets /\ x.rows = e.rows
  <1> DEFINE x == [e EXCEPT !.states = states]
  <1>1. DOMAIN e = EngineFields
    BY DEF Planned, EngineOK
  <1>2. /\ DOMAIN x = EngineFields /\ x.ctl = e.ctl /\ x.tickets = e.tickets /\ x.rows = e.rows
        /\ x.active = e.active /\ x.waiting = e.waiting /\ x.payloads = e.payloads
        /\ x.states = states
    BY <1>1, ZenonT(60) DEF EngineFields
  <1> HIDE DEF x
  <1>3. EngineOK(x, x.ctl.nextId - Len(x.tickets))
    BY <1>2, ZenonT(60) DEF Planned, EngineOK
  <1>4. DOMAIN x.ctl.staged = {} /\ RowsOK(x) /\ TicketsOK(x)
    BY <1>2, ZenonT(60) DEF Planned, RowsOK, TicketsOK
  <1> QED
    BY <1>2, <1>3, <1>4, ZenonT(60) DEF Planned, x

\* The draft publishes.
LEMMA DraftForwardStep ==
  ASSUME EngineInv, DraftForward
  PROVE  EngineInv'
  <1> DEFINE e == eng["draft"]
             rows == 1..Len(e.tickets)
             state(i) == e.states[e.tickets[i].request]
             row(r) == CHOOSE i \in rows : e.tickets[i].request = r
             drafted == {e.tickets[i].request : i \in rows}
             prefix(i) == IF e.tickets[i].eager THEN Tail(ParentOf(e, e.tickets[i].request).next)
                          ELSE TakeLast(state(i).tokens, TicketSize(e, e.tickets[i]) - 1)
             at == IF e.rows # <<>> THEN "verdict" ELSE "barrier"
  <1>1. Planned(e) /\ Served(e) /\ e.finished = {} /\ "draft" \in Side /\ pc["draft"] # "admit"
    BY ZenonT(60) DEF DraftForward, EngineInv, SideOK, Side
  <1>2. CASE Raise("draft", "overflow") \/ Raise("draft", "raised")
    BY <1>1, <1>2, RaiseStep
  <1>3. CASE ~(Raise("draft", "overflow") \/ Raise("draft", "raised"))
    <2>1. PICK windows :
             LET payloads == [i \in rows |->
                    [ ticket |-> e.tickets[i], verify |-> prefix(i) \o <<windows[i][1]>>,
                      next |-> windows[i], size |-> TicketSize(e, e.tickets[i]) ]]
                 extended == [e EXCEPT !.states = [r \in Request |->
                    IF r \in drafted THEN [e.states[r] EXCEPT !.tokens = @ \o windows[row(r)]]
                    ELSE e.states[r]]]
             IN  /\ AllPublishable(e, payloads)
                 /\ eng' = [eng EXCEPT !["draft"] = Published(extended, payloads)]
                 /\ pc' = [pc EXCEPT !["draft"] = at]
      BY <1>3, ZenonT(60) DEF DraftForward
    <2> DEFINE payloads == [i \in rows |->
                  [ ticket |-> e.tickets[i], verify |-> prefix(i) \o <<windows[i][1]>>,
                    next |-> windows[i], size |-> TicketSize(e, e.tickets[i]) ]]
               states == [r \in Request |->
                  IF r \in drafted THEN [e.states[r] EXCEPT !.tokens = @ \o windows[row(r)]]
                  ELSE e.states[r]]
               x == [e EXCEPT !.states = states]
               f == Published(x, payloads)
    <2>2. Planned(x) /\ x.ctl = e.ctl /\ x.tickets = e.tickets /\ x.rows = e.rows
      <3>1. StatesOK(e.states, e.ctl.reqs)
        BY <1>1 DEF Planned, EngineOK
      <3> HIDE DEF row, drafted, e
      <3>2. StatesOK(states, e.ctl.reqs)
        <4>1. \A r \in Request : DOMAIN states[r] = DOMAIN e.states[r]
          OBVIOUS
        <4>2. \A r \in Request : states[r].epoch = e.states[r].epoch
          BY <3>1 DEF StatesOK, StateFields
        <4> HIDE DEF states
        <4>3. DOMAIN states = Request
          BY DEF states
        <4> QED
          BY <3>1, <4>1, <4>2, <4>3, ZenonT(60) DEF StatesOK
      <3> HIDE DEF states
      <3> QED
        BY <1>1, <3>2, ExtendedOK, ZenonT(60)
    <2>3. /\ AllPublishable(e, payloads) /\ pc' = [pc EXCEPT !["draft"] = at]
          /\ eng' = [eng EXCEPT !["draft"] = f]
      BY <2>1, ZenonT(60)
    <2>4. Len(payloads) = Len(e.tickets) /\ \A i \in rows : payloads[i].ticket = e.tickets[i]
      <3>1. Len(e.tickets) \in Nat
        BY <1>1, ZenonT(60) DEF Planned, TicketsOK
      <3> HIDE DEF prefix
      <3> QED
        BY <3>1
    <2>10. /\ x.active = e.active /\ x.waiting = e.waiting /\ x.completed = e.completed
           /\ x.finished = e.finished /\ x.states = states
      BY <1>1, ZenonT(60) DEF Planned, EngineOK, EngineFields
    <2>11. /\ \A r \in Request : states[r].committed = e.states[r].committed
           /\ \A r \in Request \ Members(e.active) : states[r] = e.states[r]
      <3>1. drafted \subseteq Members(e.active)
        BY <1>1, ZenonT(60) DEF Planned, TicketsOK
      <3>2. StatesOK(e.states, e.ctl.reqs)
        BY <1>1, ZenonT(60) DEF Planned, EngineOK
      <3> HIDE DEF row, drafted, e
      <3>3. \A r \in Request : states[r].committed = e.states[r].committed
        BY <3>2 DEF StatesOK, StateFields
      <3>4. \A r \in Request \ Members(e.active) : states[r] = e.states[r]
        BY <3>1, ZenonT(60)
      <3> QED
        BY <3>3, <3>4, ZenonT(60)
    <2> HIDE DEF payloads, x, e, states
    <2>12. Served(x)
      BY <1>1, <2>10, <2>11, DraftingServes, ZenonT(60)
    <2>5. AllPublishable(x, payloads)
      BY <2>2, <2>3, ZenonT(60) DEF AllPublishable
    <2>6. Verifying(f)
      BY <2>2, <2>4, <2>5, PublishedOK, ZenonT(60)
    <2>7. f.rows = e.rows
      BY <2>2 DEF Planned, EngineOK, EngineFields, Published
    <2>8. at = "barrier" => Idle(f)
      BY <2>6, <2>7, NothingToVerify
    <2>9. at \in {"verdict", "barrier"}
      OBVIOUS
    <2>13. Served(f) /\ f.finished = {}
      BY <1>1, <2>2, <2>10, <2>12, PublishedServes, ZenonT(60)
    <2> HIDE DEF f, at
    <2>14. SideOK(at, f)
      BY <2>6, <2>8, <2>9, <2>13, ZenonT(60) DEF SideOK
    <2> QED
      BY <1>1, <2>3, <2>14, SideStep, ZenonT(60)
  <1> QED
    BY <1>2, <1>3

\* The target's forward.
LEMMA TargetForwardStep ==
  ASSUME EngineInv, TargetForward
  PROVE  EngineInv'
  <1> DEFINE e == eng["target"]
             at == IF e.tickets # <<>> THEN "receive" ELSE "verify"
  <1>1. Planned(e) /\ Served(e) /\ e.finished = {} /\ "target" \in Side /\ pc["target"] # "admit"
    BY ZenonT(60) DEF TargetForward, EngineInv, SideOK, Side
  <1>2. CASE Raise("target", "overflow")
    BY <1>1, <1>2, RaiseStep, ZenonT(60)
  <1>3. CASE ~Raise("target", "overflow")
    <2>1. eng' = eng /\ pc' = [pc EXCEPT !["target"] = at]
      BY <1>3, ZenonT(60) DEF TargetForward
    <2>2. at = "verify" => Verifying(e)
      <3> SUFFICES ASSUME e.tickets = <<>> PROVE Verifying(e)
        BY ZenonT(60)
      <3>1. CtlOK(e.ctl, e.ctl.nextId - Len(e.tickets))
        BY <1>1, ZenonT(60) DEF Planned, EngineOK
      <3>2. e.ctl.nextId - Len(e.tickets) = e.ctl.nextId
        <4>1. e.ctl.nextId \in Nat
          BY <3>1, ZenonT(60) DEF CtlOK
        <4>2. Len(e.tickets) = 0
          OBVIOUS
        <4> HIDE DEF e
        <4> QED
          BY <4>1, <4>2
      <3> QED
        BY <1>1, <3>2, ZenonT(60) DEF Planned, Verifying
    <2>3. at \in {"receive", "verify"}
      OBVIOUS
    <2> HIDE DEF at, e
    <2>4. /\ DOMAIN pc' = Side /\ DOMAIN eng' = Side /\ pc'["target"] = at /\ eng'["target"] = e
          /\ \A q \in Side : q # "target" => pc'[q] = pc[q] /\ eng'[q] = eng[q]
      BY <1>1, <2>1 DEF EngineInv, e
    <2>5. SideOK(at, e)
      BY <1>1, <2>2, <2>3, ZenonT(60) DEF SideOK
    <2> QED
      BY <2>4, <2>5, ZenonT(60) DEF EngineInv
  <1> QED
    BY <1>2, <1>3, ZenonT(60)

\* The target publishes what the envelope describes.
LEMMA TargetReceiveStep ==
  ASSUME EngineInv, TargetReceive
  PROVE  EngineInv'
  <1> DEFINE e == eng["target"]
             envelope == Head(toTarget)
             f == Published(e, envelope)
             at == IF e.rows # <<>> THEN "verify" ELSE "barrier"
  <1>1. Planned(e) /\ Served(e) /\ e.finished = {} /\ "target" \in Side /\ pc["target"] # "admit"
    BY ZenonT(60) DEF TargetReceive, EngineInv, SideOK, Side
  <1>2. CASE Raise("target", "misrouted") \/ Raise("target", "raised")
    BY <1>1, <1>2, RaiseStep
  <1>3. CASE ~(Raise("target", "misrouted") \/ Raise("target", "raised"))
    <2>1. /\ Len(envelope) = Len(e.tickets)
          /\ \A i \in 1..Len(envelope) : envelope[i].ticket = e.tickets[i]
          /\ AllPublishable(e, envelope)
          /\ eng' = [eng EXCEPT !["target"] = f] /\ pc' = [pc EXCEPT !["target"] = at]
      BY <1>3, ZenonT(60) DEF TargetReceive
    <2> HIDE DEF envelope, e
    <2>2. Verifying(f)
      BY <1>1, <2>1, PublishedOK, ZenonT(60)
    <2>3. f.rows = e.rows
      BY <1>1 DEF Planned, EngineOK, EngineFields, Published
    <2>4. at = "barrier" => Idle(f)
      BY <2>2, <2>3, NothingToVerify
    <2>5. at \in {"verify", "barrier"}
      OBVIOUS
    <2>6. Served(f) /\ f.finished = {}
      BY <1>1, PublishedServes
    <2> HIDE DEF f, at
    <2>7. SideOK(at, f)
      BY <2>2, <2>4, <2>5, <2>6, ZenonT(60) DEF SideOK
    <2> QED
      BY <1>1, <2>1, <2>7, SideStep, ZenonT(60)
  <1> QED
    BY <1>2, <1>3

\* A side applies its verdicts.
LEMMA RowsStep ==
  ASSUME EngineInv, NEW s \in Side, pc[s] \in {"verify", "verdict"}, NEW results,
         LegalResults(eng[s], results),
         eng' = [eng EXCEPT ![s] = RowsApplied(s, eng[s], results)], pc' = [pc EXCEPT ![s] = "admit"]
  PROVE  EngineInv'
  <1> DEFINE e == eng[s]
             f == RowsApplied(s, e, results)
  <1>1. Verifying(e) /\ Served(e) /\ e.finished = {}
    BY ZenonT(60) DEF EngineInv, SideOK
  <1>2. Idle(f)
    BY <1>1, RowsAppliedOK, ZenonT(60)
  <1>3. Served(f)
    BY <1>1, RowsServe
  <1> HIDE DEF f
  <1>4. SideOK("admit", f)
    BY <1>2, <1>3, ZenonT(60) DEF SideOK
  <1> QED
    BY <1>4, SideStep, ZenonT(60) DEF f

\* The target forms its verdicts.
LEMMA TargetVerifyStep ==
  ASSUME EngineInv, TargetVerify
  PROVE  EngineInv'
  <1>1. pc["target"] = "verify" /\ "target" \in Side
    BY ZenonT(60) DEF TargetVerify, Side
  <1>2. CASE Raise("target", "raised")
    BY <1>1, <1>2, RaiseStep
  <1>3. CASE ~Raise("target", "raised")
    <2>1. PICK results : /\ eng' = [eng EXCEPT !["target"] = RowsApplied("target", eng["target"], results)]
                         /\ pc' = [pc EXCEPT !["target"] = "admit"]
                         /\ LegalResults(eng["target"], results)
      BY <1>3, ZenonT(60) DEF TargetVerify
    <2> QED
      BY <1>1, <2>1, RowsStep, ZenonT(60)
  <1> QED
    BY <1>2, <1>3

\* The draft receives the verdicts.
LEMMA DraftApplyStep ==
  ASSUME EngineInv, DraftApply
  PROVE  EngineInv'
  <1>1. pc["draft"] = "verdict" /\ "draft" \in Side
    BY ZenonT(60) DEF DraftApply, Side
  <1>2. CASE Raise("draft", "raised")
    BY <1>1, <1>2, RaiseStep
  <1>3. CASE ~Raise("draft", "raised")
    <2> DEFINE results == Head(toDraft).results
    <2>1. /\ eng' = [eng EXCEPT !["draft"] = RowsApplied("draft", eng["draft"], results)]
          /\ pc' = [pc EXCEPT !["draft"] = "admit"]
          /\ LegalResults(eng["draft"], results)
      BY <1>3, ZenonT(60) DEF DraftApply
    <2> HIDE DEF results
    <2> QED
      BY <1>1, <2>1, RowsStep, ZenonT(60)
  <1> QED
    BY <1>2, <1>3

\* The barrier opens.
LEMMA BarrierStep ==
  ASSUME EngineInv, Barrier
  PROVE  EngineInv'
  <1>1. /\ \A s \in Side : pc[s] = "barrier" /\ pc'[s] = "admit" /\ eng'[s] = eng[s]
        /\ DOMAIN pc' = Side /\ DOMAIN eng' = Side
    BY DEF Barrier, EngineInv
  <1>2. \A e : SideOK("barrier", e) => SideOK("admit", e)
    BY ZenonT(60) DEF SideOK
  <1> QED
    BY <1>1, <1>2, ZenonT(60) DEF EngineInv

\* Nothing is in the mailboxes at the start.
LEMMA InitEngine ==
  ASSUME Init
  PROVE  EngineInv
  <1>1. PICK first : eng = [s \in Side |->
              [ states |-> [r \in Request |-> PrefilledState(Prompt[r], first[r])],
                ctl |-> NewController([r \in Request |-> [home |-> r % 2, epoch |-> 0]]),
                active |-> <<>>, waiting |-> AllRequests, completed |-> EmptyDict,
                payloads |-> EmptyDict, rows |-> <<>>, tickets |-> <<>>, finished |-> {} ]]
    BY ZenonT(60) DEF Init
  <1>2. pc = [s \in Side |-> "admit"]
    BY DEF Init
  <1> DEFINE reqs == [r \in Request |-> [home |-> r % 2, epoch |-> 0]]
             c == NewController(reqs)
             states == [r \in Request |-> PrefilledState(Prompt[r], first[r])]
             e == [ states |-> states, ctl |-> c,
                    active |-> <<>>, waiting |-> AllRequests, completed |-> EmptyDict,
                    payloads |-> EmptyDict, rows |-> <<>>, tickets |-> <<>>, finished |-> {} ]
  <1>3. reqs \in [Request -> [home : Home, epoch : Nat]]
    <2>1. \A r \in Request : r % 2 \in Home
      BY BatchAssumption DEF Request, Home
    <2> QED
      BY <2>1
  <1>4. /\ DOMAIN c = {"reqs", "nextHome", "nextId", "ready", "staged"} /\ c.reqs = reqs /\ c.nextId = 0
        /\ DOMAIN c.ready = {} /\ DOMAIN c.staged = {}
    BY ZenonT(60) DEF NewController, EmptyDict
  <1>5. StatesOK(states, reqs)
    BY ZenonT(60) DEF StatesOK, StateFields, PrefilledState
  <1> HIDE DEF reqs, c, states
  <1>6. DOMAIN e = EngineFields /\ DOMAIN e.payloads = {}
    BY DEF EngineFields, EmptyDict
  <1>7. CtlOK(c, c.nextId) /\ StoreOK(c, e.payloads)
    <2>1. CtlOK(c, c.nextId)
      BY <1>3, <1>4 DEF CtlOK
    <2>2. StoreOK(c, e.payloads)
      BY <1>4, <1>6, ZenonT(60) DEF StoreOK, ReadyIds, StagedIds
    <2> QED
      BY <2>1, <2>2, ZenonT(60)
  <1>8. QueuesOK(<<>>, AllRequests)
    <2>1. AllRequests \in Seq(Request) /\ <<>> \in Seq(Request) /\ Len(<<>>) = 0
      BY RequestsInOrder
    <2>2. Members(<<>>) = {} /\ Distinct(<<>>)
      BY <2>1 DEF Members, Distinct
    <2> QED
      BY <2>1, <2>2 DEF QueuesOK
  <1>9. Idle(e)
    BY <1>4, <1>5, <1>6, <1>7, <1>8, ZenonT(60) DEF Idle, EngineOK
  <1>10. \A s \in Side : eng[s] = e
    BY <1>1, ZenonT(60) DEF e, c, reqs, states
  <1>11. Served(e)
    <2>1. \A r \in Request : states[r].committed \in Nat
      <3>1. \A r \in Request : Len(Prompt[r]) + 1 \in Nat
        BY BatchAssumption
      <3> QED
        BY <3>1 DEF states, PrefilledState
    <2>2. Request \subseteq Members(AllRequests) /\ DOMAIN EmptyDict = {}
      BY RequestsInOrder DEF EmptyDict
    <2> QED
      BY <2>1, <2>2, ZenonT(60) DEF Served
  <1>12. SideOK("admit", e)
    BY <1>9, <1>11, ZenonT(60) DEF SideOK
  <1> HIDE DEF e
  <1> QED
    BY <1>1, <1>2, <1>10, <1>12, ZenonT(60) DEF EngineInv

\* The invariant is inductive.
LEMMA NextEngine ==
  ASSUME EngineInv, [Next]_vars
  PROVE  EngineInv'
  <1>1. CASE DraftAdmit
    BY <1>1, AdmitStep DEF DraftAdmit, Side
  <1>2. CASE TargetAdmit
    BY <1>2, AdmitStep DEF TargetAdmit, Side
  <1>3. CASE \E s \in Side : Plan(s)
    BY <1>3, PlanStep
  <1>4. CASE DraftForward
    BY <1>4, DraftForwardStep
  <1>5. CASE DraftApply
    BY <1>5, DraftApplyStep, ZenonT(60)
  <1>6. CASE TargetForward
    BY <1>6, TargetForwardStep
  <1>7. CASE TargetReceive
    BY <1>7, TargetReceiveStep
  <1>8. CASE TargetVerify
    BY <1>8, TargetVerifyStep
  <1>9. CASE Barrier
    BY <1>9, BarrierStep
  <1>10. CASE \/ \E r \in Request : Arrive(r)
              \/ UNCHANGED vars
    <2>1. pc' = pc /\ eng' = eng
      BY <1>10 DEF Arrive, vars
    <2> QED
      BY <2>1 DEF EngineInv
  <1> QED
    BY <1>1, <1>2, <1>3, <1>4, <1>5, <1>6, <1>7, <1>8, <1>9, <1>10, ZenonT(60)
       DEF Next, DraftStep, TargetStep, Finish, Side

(* Every reachable state satisfies the inductive invariant.                *)
THEOREM EngineInvariant == Spec => []EngineInv
  <1>1. Init => EngineInv
    BY InitEngine
  <1>2. EngineInv /\ [Next]_vars => EngineInv'
    BY NextEngine, ZenonT(60)
  <1> QED
    BY <1>1, <1>2, PTL DEF Spec

(* Between service steps every ready ticket has its payload, no payload is *)
(* left behind by a rejected, promoted or retired proposal, no eager       *)
(* continuation outlives the verdict on its parent, and the controller     *)
(* counts verdicts as the request state does, on both sides and whatever   *)
(* the policy chooses (native_engine.py 1391-1474, 1534-1553, 1600-1720).  *)
THEOREM MailboxesStayClean == Spec => []MailboxesClean
  <1>1. EngineInv => MailboxesClean
    <2> SUFFICES ASSUME EngineInv, NEW s \in Side, pc[s] = "plan"
                 PROVE  LET e == eng[s]
                        IN  /\ DOMAIN e.payloads = {e.ctl.ready[r].id : r \in DOMAIN e.ctl.ready}
                            /\ DOMAIN e.ctl.staged = {}
                            /\ DOMAIN e.ctl.ready \subseteq Members(e.active)
                            /\ \A r \in Request : e.ctl.reqs[r].epoch = e.states[r].epoch
      BY DEF MailboxesClean
    <2>1. Idle(eng[s])
      BY DEF EngineInv, SideOK
    <2> QED
      BY <2>1, ZenonT(60) DEF Idle, EngineOK, StoreOK, StatesOK, ReadyIds, StagedIds
  <1> QED
    BY <1>1, EngineInvariant, PTL

(* When the target's loop ends every request has a complete result:        *)
(* max_tokens tokens, or an end-of-sequence token.  Nobody is lost between *)
(* the waiting queue, the batch and the results, late arrivals included    *)
(* (native_engine.py 1336-1390, 1712-1725, 1744-1756).                     *)
THEOREM EngineResultsComplete == Spec => []ResultsComplete
  <1>1. EngineInv => ResultsComplete
    <2> SUFFICES ASSUME EngineInv, pc["target"] = "done", NEW r \in Request
                 PROVE  Reference!Stopped(Result(r), r)
      BY DEF ResultsComplete
    <2> DEFINE e == eng["target"]
    <2>1. SideOK("done", e)
      BY DEF EngineInv, Side
    <2>2. Served(e) /\ e.active = <<>> /\ e.waiting = <<>>
      BY <2>1, ZenonT(60) DEF SideOK
    <2> HIDE DEF e
    <2>3. r \in DOMAIN e.completed /\ IsFinished(e.states[r], r) /\ e.states[r].committed \in Nat
      <3>1. Members(e.active) = {} /\ Members(e.waiting) = {}
        BY <2>2 DEF Members
      <3> QED
        BY <2>2, <3>1, ZenonT(60) DEF Served
    <2>4. Result(r) = TruncateCompletion(CommittedCompletion(e.states[r], PromptLen(r)), MaxTokens[r])
      <3>1. e.completed[r] = e.states[r]
        BY <2>2, <2>3, ZenonT(60) DEF Served
      <3> QED
        BY <2>3, <3>1, ZenonT(60) DEF Result, e
    <2>5. StoppedAt(Result(r), r)
      BY <2>3, <2>4, TruncatedStops, ZenonT(60)
    <2> QED
      BY <2>5 DEF StoppedAt, Reference!Stopped
  <1> QED
    BY <1>1, EngineInvariant, PTL

=============================================================================
