------------------------------ MODULE PolicyProofs ------------------------------
(***************************************************************************)
(* The policy workers at one evaluation job, for any number of workers,    *)
(* any limits and any interleaving: the stored graph stays acceptable,     *)
(* what is announced is what is stored, work that was done is paid for,    *)
(* and the evidence is closed once it is sealed.                           *)
(***************************************************************************)
EXTENDS PolicyJobProofs

\* What a worker in state r may rely on when the stored graph is g and the
\* work wd was done.  A fence that it holds is its own.
OwnFence(w, r) == r.fence # None => r.fence.worker = w

\* A worker reads on the credit that is open for it, or that was charged in
\* full when the job was ended behind its back.
Covered(g, r) ==
    \/ g.allowance # None /\ g.allowance.fence = r.fence /\ r.credit = g.allowance.credit
    \/ Terminal(g) /\ g.snapshot = None /\ g.usage["metadata"] = Limits["metadata"]

ReadingIsCovered(g, r, wd) ==
    r.pc = "reading" =>
        /\ r.read <= r.credit
        /\ wd["metadata"] + (r.credit - r.read) <= Limits["metadata"]
        /\ Covered(g, r)

\* What it would settle its credit for covers what was read.
CountIsTrue(g, r, wd) ==
    /\ r.pc = "admitting" => r.read = 0
    /\ r.pc \in {"reading", "settling"} /\ g.allowance # None /\ g.allowance.fence = r.fence
       => wd["metadata"] <= g.usage["metadata"] + r.read

\* No rules were evaluated under its lease before it has failed.
RulesUnspent(g, r, wd) ==
    g.lease # None /\ g.lease.fence = r.fence /\ r.pc # "failing"
    => wd["rules"] <= Latest(g).usageAtStart["rules"]

Relies(g, r, wd) == ReadingIsCovered(g, r, wd) /\ CountIsTrue(g, r, wd) /\ RulesUnspent(g, r, wd)

\* Everything is charged, apart from what an open credit still covers.
Charges(g, wd) ==
    /\ wd["metadata"] <= g.usage["metadata"] + Credit(g)
    /\ wd["artifact"] <= g.usage["artifact"]
    /\ wd["rules"] <= g.usage["rules"]

OneReader == \A v, w \in Workers : At(v, "reading") /\ At(w, "reading") => v = w

Workings ==
    /\ \A w \in Workers : OwnFence(w, worker[w]) /\ Relies(graph, worker[w], worked)
    /\ OneReader
    /\ Charges(graph, worked)

Inv == PolicyTypeOK /\ Good(graph) /\ epoch <= faults /\ AnnouncedAsItIs /\ Workings

-----------------------------------------------------------------------------
(* What the graph's changes leave of it.                                   *)

\* When the lease is taken away, whatever was read is charged.
LEMMA EndsRelies ==
    ASSUME NEW g, Sound(g), ~Terminal(g), NEW h, NEW e, Ends(g, h, e),
           NEW r \in WorkerStates, NEW wd \in Usage, Relies(g, r, wd)
    PROVE  Relies(h, r, wd)
<1>1. h.lease = None /\ h.allowance = None /\ h.snapshot = g.snapshot /\ (g.allowance # None => Terminal(h))
  BY DEF Ends
<1>2. h.usage["metadata"] = g.usage["metadata"] + Credit(g)
  BY ChargedSound DEF Ends
<1>3. RulesUnspent(h, r, wd) /\ CountIsTrue(h, r, wd)
  BY <1>1 DEF Relies, RulesUnspent, CountIsTrue
<1>4. ASSUME r.pc = "reading" PROVE Covered(h, r)
  <2>1. g.allowance # None
    BY <1>4 DEF Relies, ReadingIsCovered, Covered
  <2>2. g.snapshot = None /\ h.usage["metadata"] = Limits["metadata"]
    BY <1>2, <2>1 DEF Sound, Accepted, UsageAgrees, StatusAgrees, Credit
  <2> QED BY <1>1, <2>1, <2>2 DEF Covered
<1> QED BY <1>3, <1>4 DEF Relies, ReadingIsCovered

\* The same for the charges.
LEMMA EndsCharges ==
    ASSUME NEW g, Sound(g), NEW h, NEW e, Ends(g, h, e), NEW wd \in Usage, Charges(g, wd)
    PROVE  Charges(h, wd)
<1>1. /\ h.usage["metadata"] = g.usage["metadata"] + Credit(g) /\ h.allowance = None
      /\ \A k \in Kinds \ {"metadata"} : h.usage[k] = g.usage[k]
  BY ChargedSound DEF Ends
<1>2. h.usage["artifact"] = g.usage["artifact"] /\ h.usage["rules"] = g.usage["rules"]
  BY <1>1 DEF Kinds
<1>3. h.usage["metadata"] \in Nat /\ wd["metadata"] \in Nat /\ Credit(h) = 0
  BY <1>1 DEF Ends, Sound, Graphs, Usage, Kinds, Credit
<1> QED BY <1>1, <1>2, <1>3 DEF Charges

\* A step of the lease's holder that leaves the credit alone.
LEMMA GoesRelies ==
    ASSUME NEW g, Sound(g), ~Terminal(g), g.lease # None, NEW h, Goes(g, h),
           h.allowance = g.allowance,
           NEW r \in WorkerStates, NEW wd \in Usage, Relies(g, r, wd)
    PROVE  Relies(h, r, wd)
<1>1. /\ h.lease # None /\ h.lease.fence = g.lease.fence /\ h.attempts = g.attempts
      /\ h.snapshot = g.snapshot /\ h.usage["metadata"] = g.usage["metadata"]
  BY DEF Goes
<1>2. RulesUnspent(h, r, wd)
  BY <1>1 DEF Relies, RulesUnspent, Latest
<1>3. CountIsTrue(h, r, wd)
  BY <1>1 DEF Relies, CountIsTrue
<1>4. Covered(g, r) => Covered(h, r)
  BY <1>1 DEF Covered
<1> QED BY <1>2, <1>3, <1>4 DEF Relies, ReadingIsCovered

\* The same for the charges.
LEMMA GoesCharges ==
    ASSUME NEW g, Sound(g), NEW h, Goes(g, h), h.allowance = g.allowance,
           NEW wd \in Usage, Charges(g, wd)
    PROVE  Charges(h, wd)
<1>1. g.usage \in Usage /\ h.usage \in Usage /\ "artifact" \in Kinds /\ "rules" \in Kinds
  BY DEF Goes, Sound, Graphs, Kinds
<1>2. Credit(h) = Credit(g)
  BY DEF Credit
<1>3. /\ h.usage["metadata"] = g.usage["metadata"]
      /\ g.usage["artifact"] <= h.usage["artifact"] /\ g.usage["rules"] <= h.usage["rules"]
  BY <1>1 DEF Goes
<1>4. wd["artifact"] <= h.usage["artifact"] /\ wd["rules"] <= h.usage["rules"]
  BY <1>1, <1>3 DEF Charges, Usage
<1> QED BY <1>2, <1>3, <1>4 DEF Charges

\* A worker that goes on without a new claim or credit, or stops.
Quiet(r, r2) ==
    \/ r2 = r
    \/ r2 = Idle
    \/ /\ r2.fence = r.fence /\ r2.credit = r.credit /\ r2.read = r.read
       /\ r2.pc \notin {"reading", "admitting"}
       /\ r2.pc = "settling" => r.pc = "reading"
       /\ r.pc # "failing"

\* It relies on no more than before.
LEMMA QuietRelies ==
    ASSUME NEW g \in Graphs, NEW wd, NEW r, NEW r2, Quiet(r, r2), Relies(g, r, wd)
    PROVE  Relies(g, r2, wd)
<1>1. CASE r2 = r
  BY <1>1
<1>2. CASE r2 = Idle
  <2>1. r2.pc = "idle" /\ r2.fence = None
    BY <1>2 DEF Idle
  <2>2. g.lease # None => g.lease.fence # None
    BY NoneAssumption DEF Graphs, Leases
  <2> QED BY <2>1, <2>2 DEF Relies, ReadingIsCovered, CountIsTrue, RulesUnspent
<1>3. CASE /\ r2.fence = r.fence /\ r2.credit = r.credit /\ r2.read = r.read
           /\ r2.pc \notin {"reading", "admitting"}
           /\ r2.pc = "settling" => r.pc = "reading"
           /\ r.pc # "failing"
  BY <1>3 DEF Relies, ReadingIsCovered, CountIsTrue, RulesUnspent
<1> QED BY <1>1, <1>2, <1>3 DEF Quiet

\* Nobody reads while a job that is not over has no open credit.
LEMMA NobodyReads ==
    ASSUME NEW g, ~Terminal(g), g.allowance = None, NEW r, NEW wd, Relies(g, r, wd)
    PROVE  r.pc # "reading"
BY DEF Relies, ReadingIsCovered, Covered

-----------------------------------------------------------------------------
(* Steps of the system.                                                    *)

\* A job that is not over has announced nothing, so the one step that ends
\* it announces what a reader derives from its last graph.
LEMMA IntentsOfEnd ==
    ASSUME NEW g, Sound(g), ~Terminal(g), NEW h
    PROVE  Intents(Created, g) = <<>> /\ <<>> \o Intents(g, h) = Intents(Created, h)
<1> DEFINE x == [event |-> "cancellation-requested"]
           y == [event |-> "terminal", status |-> h.status, version |-> h.version,
                 result |-> h.result]
           s == IF h.cancelled THEN <<x>> ELSE <<>>
           t == IF Terminal(h) THEN <<y>> ELSE <<>>
<1>1. ~g.cancelled
  BY DEF Sound, Accepted, StatusAgrees, Terminal, Terminals
<1>2. ~Created.cancelled /\ ~Terminal(Created)
  BY DEF Created, Terminal, Terminals
<1>3. Intents(g, h) = s \o t /\ Intents(Created, h) = s \o t
  BY <1>1, <1>2 DEF Intents
<1> HIDE DEF x, y
<1>4. <<x>> \in Seq({x, y}) /\ <<y>> \in Seq({x, y}) /\ <<>> \in Seq({x, y})
  OBVIOUS
<1>5. s \in Seq({x, y}) /\ t \in Seq({x, y})
  BY <1>4
<1> HIDE DEF s, t
<1>6. s \o t \in Seq({x, y})
  BY <1>5, ConcatProperties
<1>7. <<>> \o (s \o t) = s \o t
  BY <1>6, ConcatEmptySeq
<1>8. Intents(Created, g) = <<>> \o <<>>
  BY <1>1, <1>2 DEF Intents
<1>9. <<>> \o <<>> = <<>>
  BY ConcatEmptySeq, EmptySeq
<1> QED BY <1>3, <1>7, <1>8, <1>9

\* The clocks of a step.
Clocks ==
    /\ epoch' \in 0..MaxFaults /\ now' \in 0..MaxTime /\ faults' \in 0..MaxFaults
    /\ epoch' <= faults' /\ epoch <= epoch'

\* A step that stores a good graph keeps everything but perhaps the workings.
LEMMA StoreKeeps ==
    ASSUME Inv, Clocks, ~Terminal(graph), NEW h, Store(h), Good(h), h.epoch <= epoch',
           worker' \in [Workers -> WorkerStates], worked' \in Usage, Workings'
    PROVE  Inv'
<1>1. graph' = h /\ outbox' = outbox \o Intents(graph, h)
  BY DEF Store
<1>2. outbox' = Intents(Created, h)
  BY <1>1, IntentsOfEnd DEF Inv, AnnouncedAsItIs, Good
<1>3. AnnouncedAsItIs'
  BY <1>1, <1>2 DEF AnnouncedAsItIs
<1>4. Good(graph)'
  BY <1>1 DEF Good, Sound, Terminal, Accepted
<1>5. PolicyTypeOK'
  BY <1>1 DEF Good, Sound, Clocks, PolicyTypeOK
<1> QED BY <1>3, <1>4, <1>5 DEF Inv, Clocks

AllQuiet ==
    /\ worker' \in [Workers -> WorkerStates]
    /\ \A v \in Workers : Quiet(worker[v], worker'[v])

\* If the workers go on as before and the graph keeps what they rely on, the
\* workings are kept.
LEMMA QuietWorkings ==
    ASSUME Inv, AllQuiet, worked' = worked, graph' \in Graphs,
           \A w \in Workers : Relies(graph', worker[w], worked), Charges(graph', worked)
    PROVE  Workings'
<1>1. ASSUME NEW w \in Workers PROVE Relies(graph', worker'[w], worked')
  BY <1>1, QuietRelies DEF AllQuiet
<1>2. ASSUME NEW w \in Workers PROVE OwnFence(w, worker'[w])
  BY <1>2 DEF AllQuiet, Quiet, Inv, Workings, OwnFence, Idle
<1>3. ASSUME NEW w \in Workers, At(w, "reading")' PROVE At(w, "reading")
  BY <1>3 DEF AllQuiet, Quiet, At, Idle
<1>4. OneReader'
  BY <1>3 DEF Inv, Workings, OneReader
<1>5. Charges(graph', worked')
  OBVIOUS
<1> QED BY <1>1, <1>2, <1>4, <1>5 DEF Workings

\* What a step may do to the evidence of a job that is sealed.
EvidenceKept ==
    graph.snapshot # None => /\ graph'.snapshot = graph.snapshot
                             /\ worked'["metadata"] = worked["metadata"]

\* Quiet steps that leave the job alone,
LEMMA QuietSame ==
    ASSUME Inv, Clocks, AllQuiet, UNCHANGED <<jobVars, worked>>
    PROVE  Inv' /\ EvidenceKept
<1>1. graph' = graph /\ outbox' = outbox /\ worked' = worked
  BY DEF jobVars
<1>2. graph \in Graphs /\ (\A w \in Workers : Relies(graph, worker[w], worked)) /\ Charges(graph, worked)
  BY DEF Inv, Good, Sound, Workings
<1>3. graph' \in Graphs /\ (\A w \in Workers : Relies(graph', worker[w], worked)) /\ Charges(graph', worked)
  BY <1>1, <1>2
<1>4. Workings'
  BY <1>1, <1>3, QuietWorkings
<1>5. AnnouncedAsItIs' /\ Good(graph)'
  BY <1>1 DEF Inv, AnnouncedAsItIs, Good, Sound, Terminal, Accepted
<1>6. graph'.epoch <= epoch'
  <2>1. \A x, y, z \in Nat : x <= y /\ y <= z => x <= z
    OBVIOUS
  <2>2. graph.epoch \in Nat /\ epoch \in Nat /\ epoch' \in Nat
    BY <1>2 DEF Graphs, Inv, PolicyTypeOK, Clocks
  <2> QED BY <1>1, <2>1, <2>2 DEF Inv, PolicyTypeOK, Clocks
<1>7. PolicyTypeOK'
  BY <1>1, <1>6 DEF Inv, PolicyTypeOK, Clocks, AllQuiet
<1> QED BY <1>1, <1>4, <1>5, <1>7 DEF Inv, Clocks, EvidenceKept

\* that end or release the job,
LEMMA QuietEnds ==
    ASSUME Inv, Clocks, AllQuiet, worked' = worked, ~Terminal(graph),
           NEW h, Store(h), Good(h), NEW e, Ends(graph, h, e), e <= epoch'
    PROVE  Inv' /\ EvidenceKept
<1>1. Sound(graph) /\ graph' = h /\ h \in Graphs /\ h.epoch = e /\ worked \in Usage
  BY DEF Inv, Good, Sound, Store, Ends, PolicyTypeOK
<1>2. ASSUME NEW w \in Workers PROVE Relies(h, worker[w], worked)
  <2>1. worker[w] \in WorkerStates /\ Relies(graph, worker[w], worked)
    BY <1>2 DEF Inv, PolicyTypeOK, Workings
  <2> QED BY <1>1, <2>1, EndsRelies
<1>3. Charges(h, worked)
  BY <1>1, EndsCharges DEF Inv, Workings
<1>4. Workings'
  BY <1>1, <1>2, <1>3, QuietWorkings
<1>5. worker' \in [Workers -> WorkerStates] /\ worked' \in Usage /\ h.epoch <= epoch'
  BY <1>1 DEF AllQuiet
<1>6. EvidenceKept
  BY <1>1 DEF EvidenceKept, Ends
<1> QED BY <1>4, <1>5, <1>6, StoreKeeps

\* and that go on with it.
LEMMA QuietGoes ==
    ASSUME Inv, Clocks, AllQuiet, worked' = worked, ~Terminal(graph), graph.lease # None,
           NEW h, Store(h), Good(h), Goes(graph, h), h.allowance = graph.allowance,
           epoch' = epoch
    PROVE  Inv' /\ EvidenceKept
<1>1. Sound(graph) /\ graph' = h /\ h \in Graphs /\ h.epoch = graph.epoch /\ worked \in Usage
  BY DEF Inv, Good, Sound, Store, Goes, PolicyTypeOK
<1>2. ASSUME NEW w \in Workers PROVE Relies(h, worker[w], worked)
  <2>1. worker[w] \in WorkerStates /\ Relies(graph, worker[w], worked)
    BY <1>2 DEF Inv, PolicyTypeOK, Workings
  <2> QED BY <1>1, <2>1, GoesRelies
<1>3. Charges(h, worked)
  BY <1>1, GoesCharges DEF Inv, Workings
<1>4. Workings'
  BY <1>1, <1>2, <1>3, QuietWorkings
<1>5. worker' \in [Workers -> WorkerStates] /\ worked' \in Usage /\ h.epoch <= epoch'
  BY <1>1 DEF AllQuiet, Inv, PolicyTypeOK
<1>6. EvidenceKept
  BY <1>1 DEF EvidenceKept, Goes
<1> QED BY <1>4, <1>5, <1>6, StoreKeeps

\* What mutate makes of a transition that ends the job or goes on with it.
LEMMA QuietCommitted ==
    ASSUME Inv, Clocks, AllQuiet, worked' = worked, ~Terminal(graph), epoch' = epoch,
           NEW next, Store(Committed(graph, next)),
           \/ Ends(graph, next, graph.epoch)
           \/ graph.lease # None /\ Goes(graph, next) /\ next.allowance = graph.allowance
    PROVE  Inv' /\ EvidenceKept
<1> DEFINE h == Committed(graph, next)
<1>1. Good(graph) /\ Sound(next) /\ next.version = graph.version + 1 /\ graph.epoch <= epoch'
  BY DEF Inv, Ends, Goes, PolicyTypeOK
<1>2. Good(h) /\ (h = next \/ (Ends(graph, h, graph.epoch) /\ Terminal(h))) /\ Store(h)
  BY <1>1, CommittedGood
<1> HIDE DEF h
<1>3. CASE Ends(graph, h, graph.epoch)
  BY <1>1, <1>2, <1>3, QuietEnds
<1>4. CASE h = next /\ graph.lease # None /\ Goes(graph, next) /\ next.allowance = graph.allowance
  BY <1>2, <1>4, QuietGoes
<1> QED BY <1>2, <1>3, <1>4

-----------------------------------------------------------------------------
(* The workers' moves.                                                     *)

\* Stopping is quiet.
LEMMA StopQuiet ==
    ASSUME PolicyTypeOK, NEW w \in Workers, Stop(w)
    PROVE  AllQuiet
<1>1. Idle \in WorkerStates
  BY DEF Idle, WorkerStates, Places
<1>2. worker' \in [Workers -> WorkerStates] /\ worker'[w] = Idle
      /\ \A v \in Workers \ {w} : worker'[v] = worker[v]
  BY <1>1 DEF Stop, PolicyTypeOK
<1> QED BY <1>2 DEF AllQuiet, Quiet

\* So is going on, but to admission or to the reads.
LEMMA GotoQuiet ==
    ASSUME PolicyTypeOK, NEW w \in Workers, NEW pc \in Places \ {"reading", "admitting"}, Goto(w, pc),
           pc = "settling" => At(w, "reading"), ~At(w, "failing")
    PROVE  AllQuiet
<1>1. worker[w] \in WorkerStates
  BY DEF PolicyTypeOK
<1> DEFINE r == [worker[w] EXCEPT !.pc = pc]
<1>2. /\ r \in WorkerStates /\ r.pc = pc /\ r.fence = worker[w].fence
      /\ r.credit = worker[w].credit /\ r.read = worker[w].read
  BY <1>1 DEF WorkerStates
<1>3. worker' = [worker EXCEPT ![w] = r]
  BY DEF Goto
<1> HIDE DEF r
<1>4. /\ worker' \in [Workers -> WorkerStates] /\ worker'[w] = r
      /\ \A v \in Workers \ {w} : worker'[v] = worker[v]
  BY <1>2, <1>3 DEF PolicyTypeOK
<1>5. Quiet(worker[w], r)
  BY <1>2 DEF Quiet, At
<1> QED BY <1>4, <1>5 DEF AllQuiet, Quiet

\* So is staying at the reads.
LEMMA GotoSame ==
    ASSUME PolicyTypeOK, NEW w \in Workers, NEW pc, At(w, pc), Goto(w, pc)
    PROVE  worker' = worker
BY DEF PolicyTypeOK, WorkerStates, At, Goto

\* And standing still.
LEMMA StillQuiet ==
    ASSUME PolicyTypeOK, worker' = worker
    PROVE  AllQuiet
BY DEF PolicyTypeOK, AllQuiet, Quiet

\* The clocks stand still, or a fault is counted.
LEMMA ClocksKept ==
    ASSUME Inv, epoch' = epoch, now' = now,
           (faults < MaxFaults /\ faults' = faults + 1) \/ faults' = faults
    PROVE  Clocks
<1>1. /\ epoch \in 0..MaxFaults /\ now \in 0..MaxTime /\ faults \in 0..MaxFaults
      /\ epoch <= faults /\ MaxFaults \in Nat
  BY PolicyBoundsAssumption DEF Inv, PolicyTypeOK
<1>2. faults' \in 0..MaxFaults /\ epoch <= faults' /\ epoch <= epoch
  BY <1>1
<1> QED BY <1>1, <1>2 DEF Clocks

\* A job with a live fence, or one that is held, is not over.
LEMMA HeldIsActive ==
    ASSUME NEW g, NEW t, NEW e, NEW f, LiveFence(g, t, e, f) \/ HoldsLease(g, e, f)
    PROVE  g.status \in Active /\ ~Terminal(g) /\ g.lease # None /\ g.lease.fence = f
BY DEF LiveFence, HoldsLease, Terminal, Terminals, Active

-----------------------------------------------------------------------------
(* The actions.                                                            *)

\* Reclaiming, wherever a worker does it.
LEMMA ReclaimKeeps ==
    ASSUME Inv, Clocks, AllQuiet, UNCHANGED <<worked, epoch>>, MayReclaim(graph, now, epoch),
           Store(Committed(graph, Reclaimed(graph, now)))
    PROVE  Inv' /\ EvidenceKept
<1>1. now \in Nat /\ Sound(graph) /\ ~Terminal(graph)
  BY DEF Inv, PolicyTypeOK, Good, MayReclaim
<1>2. Ends(graph, Reclaimed(graph, now), graph.epoch)
  BY <1>1, ReclaimedEnds
<1> QED BY <1>1, <1>2, QuietCommitted

\* A delivery begins.
LEMMA ObserveKeeps ==
    ASSUME Inv, NEW w \in Workers, ObserveJob(w)
    PROVE  Inv' /\ EvidenceKept
<1>1. PolicyTypeOK /\ Clocks /\ "claiming" \in Places \ {"reading", "admitting"}
  BY ClocksKept DEF Inv, ObserveJob, Places
<1>2. AllQuiet
  BY <1>1, GotoQuiet DEF ObserveJob, At
<1> QED BY <1>1, <1>2, QuietSame, ReclaimKeeps DEF ObserveJob

\* The claim is refused.
LEMMA ClaimRefusedKeeps ==
    ASSUME Inv, NEW w \in Workers, ClaimRefused(w)
    PROVE  Inv' /\ EvidenceKept
<1>1. Clocks
  BY ClocksKept DEF ClaimRefused
<1>2. AllQuiet
  BY StopQuiet DEF ClaimRefused, Inv
<1> QED BY <1>1, <1>2, QuietSame, ReclaimKeeps DEF ClaimRefused

\* The claim.
LEMMA ClaimKeeps ==
    ASSUME Inv, NEW w \in Workers, ClaimJob(w)
    PROVE  Inv' /\ EvidenceKept
<1> DEFINE claimed == Claimed(graph, now, w)
           h == Committed(graph, claimed)
<1>1. /\ PolicyTypeOK /\ Good(graph) /\ Sound(graph) /\ now \in Nat /\ MayClaim(graph, now, epoch)
      /\ ~Terminal(graph) /\ epoch' = epoch /\ now' = now /\ worked' = worked
      /\ worked \in Usage /\ graph.epoch <= epoch
  BY DEF Inv, Good, PolicyTypeOK, ClaimJob, MayClaim, Terminal, Terminals
<1>2. /\ Sound(claimed) /\ claimed.version = graph.version + 1 /\ claimed.epoch = graph.epoch
      /\ claimed.allowance = None /\ graph.allowance = None /\ claimed.snapshot = graph.snapshot
      /\ claimed.lease # None /\ claimed.lease.fence \in Fences /\ claimed.lease.fence.worker = w
      /\ claimed.usage = graph.usage /\ Latest(claimed).usageAtStart = graph.usage
      /\ ~Terminal(claimed)
  BY <1>1, ClaimedSound
<1>3. Store(h) /\ Clocks
  BY ClocksKept DEF ClaimJob
<1> DEFINE fresh == [Idle EXCEPT !.pc = IF h.snapshot = None THEN "admitting" ELSE "paying",
                                 !.fence = h.lease.fence]
<1>4. \/ worker' = [worker EXCEPT ![w] = IF Terminal(h) THEN Idle ELSE fresh]
      \/ worker' = [worker EXCEPT ![w] = Idle]
  BY DEF ClaimJob, Stop
<1> HIDE DEF claimed
<1>5. Good(h) /\ (h = claimed \/ (Ends(graph, h, graph.epoch) /\ Terminal(h)))
  BY <1>1, <1>2, CommittedGood
<1> HIDE DEF h
<1>6. CASE Ends(graph, h, graph.epoch) /\ Terminal(h)
  <2>1. Stop(w)
    BY <1>4, <1>6 DEF Stop
  <2> QED BY <1>1, <1>3, <1>5, <1>6, <2>1, StopQuiet, QuietEnds
<1>7. CASE h = claimed
  <2>1. fresh \in WorkerStates /\ fresh.fence = h.lease.fence /\ fresh.read = 0 /\ fresh.pc \in {"admitting", "paying"}
    BY <1>2, <1>7 DEF Idle, WorkerStates, Places
  <2>2. Idle \in WorkerStates /\ Idle.pc = "idle" /\ Idle.fence = None
    BY DEF Idle, WorkerStates, Places
  <2> HIDE DEF fresh
  <2>3. PICK r : /\ worker' = [worker EXCEPT ![w] = r] /\ r \in WorkerStates
                 /\ r.pc \in {"admitting", "paying", "idle"}
                 /\ r.pc = "admitting" => r.read = 0
                 /\ r.fence \in {None, h.lease.fence}
    BY <1>2, <1>4, <1>7, <2>1, <2>2
  <2>4. /\ worker' \in [Workers -> WorkerStates] /\ worker'[w] = r
        /\ \A v \in Workers \ {w} : worker'[v] = worker[v]
    BY <1>1, <2>3 DEF PolicyTypeOK
  <2>5. ASSUME NEW v \in Workers PROVE worker[v].pc # "reading" /\ Relies(graph, worker[v], worked)
                                       /\ OwnFence(v, worker[v])
    BY <1>1, <1>2, <2>5, NobodyReads DEF Inv, Workings
  <2>6. ASSUME NEW v \in Workers PROVE worker'[v].pc # "reading"
    BY <2>3, <2>4, <2>5, <2>6
  <2>7. ASSUME NEW v \in Workers PROVE OwnFence(v, worker'[v])
    BY <1>2, <1>7, <2>3, <2>4, <2>5, <2>7 DEF OwnFence
  <2>8. worked["rules"] <= Latest(h).usageAtStart["rules"]
    BY <1>2, <1>7 DEF Inv, Workings, Charges
  <2>9. ASSUME NEW v \in Workers PROVE Relies(h, worker'[v], worked)
    <3>1. worker'[v].pc = "admitting" => worker'[v].read = 0
      BY <2>3, <2>4, <2>5, <2>9 DEF Relies, CountIsTrue
    <3> QED BY <1>2, <1>7, <2>6, <2>8, <2>9, <3>1
            DEF Relies, ReadingIsCovered, CountIsTrue, RulesUnspent
  <2>10. Charges(h, worked)
    BY <1>2, <1>7 DEF Inv, Workings, Charges, Credit
  <2>11. Workings'
    <3>1. graph' = h
      BY <1>3 DEF Store
    <3>2. OneReader'
      BY <2>6 DEF OneReader, At
    <3> QED BY <1>1, <2>7, <2>9, <2>10, <3>1, <3>2 DEF Workings
  <2>12. h.epoch <= epoch' /\ worked' \in Usage
    BY <1>1, <1>2, <1>7
  <2>13. EvidenceKept
    BY <1>1, <1>2, <1>3, <1>7 DEF EvidenceKept, Store
  <2> QED BY <1>1, <1>3, <1>5, <2>4, <2>11, <2>12, <2>13, StoreKeeps
<1> QED BY <1>5, <1>6, <1>7

\* A refused call.
LEMMA RefusedKeeps ==
    ASSUME Inv, NEW w \in Workers, NEW pc \in Places \ {"reading", "admitting"},
           Refused(w, pc), pc = "settling" => At(w, "reading"), ~At(w, "failing"),
           UNCHANGED <<epoch, now, worked>>
    PROVE  Inv' /\ EvidenceKept
<1>1. PolicyTypeOK /\ Goto(w, pc) /\ Clocks
  BY ClocksKept DEF Inv, Refused
<1>2. AllQuiet
  BY <1>1, GotoQuiet
<1> QED BY <1>1, <1>2, QuietSame DEF Refused

\* The credit is reserved before the first read.
LEMMA AdmitKeeps ==
    ASSUME Inv, NEW w \in Workers, AdmitAcquisition(w)
    PROVE  Inv' /\ EvidenceKept
<1>1. /\ PolicyTypeOK /\ Good(graph) /\ Sound(graph) /\ At(w, "admitting")
      /\ epoch' = epoch /\ now' = now /\ worked' = worked /\ worked \in Usage
      /\ worker[w] \in WorkerStates /\ graph.epoch <= epoch
      /\ "failing" \in Places \ {"reading", "admitting"}
  BY DEF Inv, Good, PolicyTypeOK, AdmitAcquisition, Places
<1>2. CASE Refused(w, "failing")
  BY <1>1, <1>2, RefusedKeeps DEF At
<1>3. CASE ~Refused(w, "failing")
  <2> DEFINE reserved == AcquisitionReserved(graph, Fence(w))
             h == Committed(graph, reserved)
             admitted == [worker[w] EXCEPT !.pc = "reading", !.credit = h.allowance.credit,
                                           !.until = h.lease.expiresAt]
  <2>1. /\ MayReserveAcquisition(graph, now, epoch, Fence(w)) /\ Store(h)
        /\ \/ worker' = [worker EXCEPT ![w] =
                IF Terminal(h) THEN [worker[w] EXCEPT !.pc = "failing"] ELSE admitted]
           \/ Goto(w, "failing")
    BY <1>3 DEF AdmitAcquisition
  <2>2. /\ graph.status = "acquiring" /\ graph.allowance = None /\ ~Terminal(graph)
        /\ graph.lease # None /\ Fence(w) = graph.lease.fence
        /\ Limits["metadata"] - graph.usage["metadata"] >= 1
    BY <2>1, HeldIsActive DEF MayReserveAcquisition
  <2>3. /\ Goes(graph, reserved) /\ reserved.allowance # None /\ reserved.allowance.fence = Fence(w)
        /\ reserved.allowance.credit \in Nat
        /\ graph.usage["metadata"] + reserved.allowance.credit = Limits["metadata"]
        /\ reserved.lease = graph.lease /\ reserved.usage = graph.usage
    BY <1>1, <2>2, AcquisitionReservedGoes
  <2>4. Clocks
    BY <1>1, <1>3, ClocksKept DEF AdmitAcquisition
  <2> HIDE DEF reserved
  <2>5. Good(h) /\ (h = reserved \/ (Ends(graph, h, graph.epoch) /\ Terminal(h)))
    BY <1>1, <2>2, <2>3, CommittedGood DEF Goes
  <2> HIDE DEF h
  <2>6. CASE Ends(graph, h, graph.epoch) /\ Terminal(h)
    <3>1. Goto(w, "failing")
      BY <2>1, <2>6 DEF Goto
    <3>2. AllQuiet
      BY <1>1, <3>1, GotoQuiet DEF At
    <3> QED BY <1>1, <2>1, <2>2, <2>4, <2>5, <2>6, <3>2, QuietEnds
  <2>7. CASE h = reserved
    <3>1. ASSUME NEW v \in Workers
          PROVE  /\ worker[v].pc # "reading" /\ Relies(graph, worker[v], worked)
                 /\ OwnFence(v, worker[v])
      BY <1>1, <2>2, <3>1, NobodyReads DEF Inv, Workings
    <3>2. /\ h.lease.expiresAt \in Nat /\ h.allowance # None /\ h.allowance.credit \in Nat
          /\ h.allowance.fence = Fence(w) /\ h.lease # None /\ h.lease.fence = graph.lease.fence
          /\ h.attempts = graph.attempts
          /\ graph.usage["metadata"] + h.allowance.credit = Limits["metadata"]
          /\ h.usage["metadata"] = graph.usage["metadata"]
      BY <2>2, <2>3, <2>7 DEF Goes, Sound, Graphs, Leases
    <3>3. /\ admitted \in WorkerStates /\ admitted.pc = "reading" /\ admitted.fence = Fence(w)
          /\ admitted.read = worker[w].read /\ admitted.credit = h.allowance.credit
      BY <1>1, <3>2 DEF WorkerStates, Places, Fence
    <3> DEFINE failed == [worker[w] EXCEPT !.pc = "failing"]
    <3>4. /\ failed \in WorkerStates /\ failed.pc = "failing" /\ failed.fence = Fence(w)
          /\ failed.read = worker[w].read
      BY <1>1 DEF WorkerStates, Places, Fence
    <3>5. worker' = [worker EXCEPT ![w] = admitted] \/ worker' = [worker EXCEPT ![w] = failed]
      BY <2>1 DEF Goto
    <3> HIDE DEF admitted, failed
    <3>6. PICK r : /\ worker' = [worker EXCEPT ![w] = r] /\ r \in WorkerStates /\ r.fence = Fence(w)
                   /\ r.read = 0 /\ r.pc \in {"reading", "failing"}
                   /\ r.pc = "reading" => r.credit = h.allowance.credit
      <4>1. worker[w].read = 0
        BY <1>1, <3>1 DEF Relies, CountIsTrue, At
      <4> QED BY <3>3, <3>4, <3>5, <4>1
    <3>7. /\ worker' \in [Workers -> WorkerStates] /\ worker'[w] = r
          /\ \A v \in Workers \ {w} : worker'[v] = worker[v]
      BY <1>1, <3>6 DEF PolicyTypeOK
    <3>8. ASSUME NEW v \in Workers PROVE OwnFence(v, worker'[v])
      BY <3>1, <3>6, <3>7, <3>8 DEF OwnFence, Fence
    <3>9. OneReader'
      BY <3>1, <3>7 DEF OneReader, At
    <3>10. worked["metadata"] <= graph.usage["metadata"] /\ worked["metadata"] \in Nat
           /\ graph.usage["metadata"] \in Nat
      <4>1. Credit(graph) = 0 /\ graph.usage["metadata"] \in Nat /\ worked["metadata"] \in Nat
        BY <1>1, <2>2 DEF Credit, Sound, Graphs, Usage, Kinds
      <4> QED BY <4>1 DEF Inv, Workings, Charges
    <3>11. RulesUnspent(h, r, worked)
      BY <1>1, <2>2, <3>1, <3>2, <3>6 DEF Relies, RulesUnspent, Latest, At, Fence
    <3>12. Relies(h, r, worked)
      <4>1. r.pc = "reading" =>
              /\ worked["metadata"] + (r.credit - r.read) <= Limits["metadata"]
              /\ r.read <= r.credit
        BY <3>2, <3>6, <3>10
      <4>2. r.pc = "reading" => Covered(h, r)
        BY <3>2, <3>6 DEF Covered
      <4>3. CountIsTrue(h, r, worked)
        BY <3>2, <3>6, <3>10 DEF CountIsTrue
      <4> QED BY <3>11, <4>1, <4>2, <4>3 DEF Relies, ReadingIsCovered
    <3>13. ASSUME NEW v \in Workers \ {w} PROVE Relies(h, worker[v], worked)
      <4>1. worker[v].fence # Fence(w)
        <5>1. worker[v].fence # None => worker[v].fence.worker = v
          BY <3>1, <3>13 DEF OwnFence
        <5>2. Fence(w) \in Fences /\ Fence(w) # None /\ Fence(w).worker = w
          BY <1>1, <2>2, <3>1, NoneAssumption DEF Sound, Graphs, Leases, OwnFence, Fence
        <5> QED BY <3>13, <5>1, <5>2
      <4>2. CountIsTrue(h, worker[v], worked)
        BY <3>1, <3>2, <3>13, <4>1 DEF CountIsTrue, Relies
      <4>3. RulesUnspent(h, worker[v], worked)
        BY <2>2, <3>2, <4>1 DEF RulesUnspent
      <4> QED BY <3>1, <3>13, <4>2, <4>3 DEF Relies, ReadingIsCovered
    <3>14. ASSUME NEW v \in Workers PROVE Relies(h, worker'[v], worked)
      BY <3>7, <3>12, <3>13, <3>14
    <3>15. Charges(h, worked)
      <4>1. Credit(h) = h.allowance.credit /\ h.usage = graph.usage
        BY <2>3, <2>7, <3>2 DEF Credit
      <4> QED BY <3>2, <3>10, <4>1 DEF Inv, Workings, Charges
    <3>16. Workings'
      <4>1. graph' = h
        BY <2>1 DEF Store
      <4> QED BY <1>1, <3>8, <3>9, <3>14, <3>15, <4>1 DEF Workings
    <3>17. h.epoch <= epoch' /\ worked' \in Usage
      BY <1>1, <2>3, <2>7 DEF Goes
    <3>18. EvidenceKept
      BY <1>1, <2>1, <2>3, <2>7 DEF EvidenceKept, Store, Goes
    <3> QED BY <2>1, <2>2, <2>4, <2>5, <3>7, <3>16, <3>17, <3>18, StoreKeeps
  <2> QED BY <2>5, <2>6, <2>7
<1> QED BY <1>2, <1>3

\* A read is within the worker's credit, and there is no other reader.
LEMMA ReadSourceKeeps ==
    ASSUME Inv, NEW w \in Workers, ReadSource(w)
    PROVE  Inv' /\ EvidenceKept
<1>1. /\ PolicyTypeOK /\ Good(graph) /\ graph \in Graphs /\ worker[w] \in WorkerStates /\ worker[w].pc = "reading"
      /\ worker[w].read < worker[w].credit /\ worked \in Usage /\ graph.usage \in Usage
      /\ graph' = graph /\ outbox' = outbox /\ epoch' = epoch /\ now' = now /\ faults' = faults
      /\ worker[w].read \in Nat /\ worker[w].credit \in Nat /\ worked["metadata"] \in Nat
  BY DEF Inv, Good, Sound, PolicyTypeOK, ReadSource, jobVars, At, Graphs, WorkerStates, Usage, Kinds
<1> DEFINE r == [worker[w] EXCEPT !.read = @ + 1]
           wd == [worked EXCEPT !["metadata"] = @ + 1]
<1>2. /\ r \in WorkerStates /\ r.pc = "reading" /\ r.fence = worker[w].fence
      /\ r.credit = worker[w].credit /\ r.read = worker[w].read + 1
  BY <1>1 DEF WorkerStates
<1>3. /\ wd \in Usage /\ wd["metadata"] = worked["metadata"] + 1
      /\ wd["artifact"] = worked["artifact"] /\ wd["rules"] = worked["rules"]
  BY <1>1 DEF Usage, Kinds
<1>4. worker' = [worker EXCEPT ![w] = r] /\ worked' = wd
  BY DEF ReadSource
<1> HIDE DEF r, wd
<1>5. /\ worker' \in [Workers -> WorkerStates] /\ worker'[w] = r
      /\ \A v \in Workers \ {w} : worker'[v] = worker[v]
  BY <1>1, <1>2, <1>4 DEF PolicyTypeOK
<1>6. ASSUME NEW v \in Workers PROVE Relies(graph, worker[v], worked) /\ OwnFence(v, worker[v])
  BY <1>6 DEF Inv, Workings
<1>7. Relies(graph, r, wd)
  <2>1. ReadingIsCovered(graph, r, wd)
    BY <1>1, <1>2, <1>3, <1>6, LimitsAssumption
       DEF Relies, ReadingIsCovered, Covered, Kinds
  <2>2. CountIsTrue(graph, r, wd)
    <3>1. graph.usage["metadata"] \in Nat
      BY <1>1 DEF Usage, Kinds
    <3> QED BY <1>1, <1>2, <1>3, <1>6, <3>1 DEF Relies, CountIsTrue
  <2>3. RulesUnspent(graph, r, wd)
    BY <1>1, <1>2, <1>3, <1>6 DEF Relies, RulesUnspent
  <2> QED BY <2>1, <2>2, <2>3 DEF Relies
<1>8. ASSUME NEW v \in Workers \ {w} PROVE Relies(graph, worker[v], wd)
  <2>1. worker[v].pc # "reading"
    BY <1>1, <1>8 DEF Inv, Workings, OneReader, At
  <2>2. ~(graph.allowance # None /\ graph.allowance.fence = worker[v].fence)
    <3>1. SUFFICES ASSUME graph.allowance # None, graph.allowance.fence = worker[v].fence
                   PROVE  FALSE
      OBVIOUS
    <3>2. ~Terminal(graph)
      BY <3>1 DEF Inv, Good, Sound, Accepted, UsageAgrees, Terminal, Terminals
    <3>3. graph.allowance.fence = worker[w].fence
      BY <1>1, <1>6, <3>2 DEF Relies, ReadingIsCovered, Covered
    <3>4. graph.allowance.fence # None
      BY <1>1, <3>1, NoneAssumption DEF Graphs, Allowances
    <3> QED BY <1>6, <1>8, <3>1, <3>3, <3>4 DEF OwnFence
  <2> QED BY <1>3, <1>6, <1>8, <2>1, <2>2 DEF Relies, ReadingIsCovered, CountIsTrue, RulesUnspent
<1>9. Charges(graph, wd)
  <2>1. graph.usage["metadata"] \in Nat /\ Limits["metadata"] \in Nat
    BY <1>1, LimitsAssumption DEF Usage, Kinds
  <2>2. wd["metadata"] <= graph.usage["metadata"] + Credit(graph)
    <3>1. /\ worked["metadata"] + (worker[w].credit - worker[w].read) <= Limits["metadata"]
          /\ Covered(graph, worker[w])
      BY <1>1, <1>6 DEF Relies, ReadingIsCovered
    <3>2. wd["metadata"] <= Limits["metadata"]
      BY <1>1, <1>3, <2>1, <3>1
    <3>3. graph.usage["metadata"] + Credit(graph) = Limits["metadata"]
      <4>1. CASE graph.allowance # None
        BY <4>1 DEF Inv, Good, Sound, Accepted, UsageAgrees, Credit
      <4>2. CASE graph.allowance = None
        BY <2>1, <3>1, <4>2 DEF Covered, Credit
      <4> QED BY <4>1, <4>2
    <3> QED BY <3>2, <3>3
  <2> QED BY <1>3, <2>2 DEF Inv, Workings, Charges
<1>10. Workings'
  <2>1. ASSUME NEW v \in Workers PROVE Relies(graph', worker'[v], worked') /\ OwnFence(v, worker'[v])
    <3>1. Relies(graph, worker'[v], wd)
      BY <1>5, <1>7, <1>8, <2>1
    <3>2. OwnFence(v, worker'[v])
      BY <1>2, <1>5, <1>6, <2>1 DEF OwnFence
    <3> QED BY <1>1, <1>4, <3>1, <3>2
  <2>2. OneReader'
    BY <1>1, <1>5 DEF Inv, Workings, OneReader, At
  <2>3. Charges(graph', worked')
    BY <1>1, <1>4, <1>9
  <2> QED BY <2>1, <2>2, <2>3 DEF Workings
<1>11. PolicyTypeOK' /\ Good(graph)' /\ AnnouncedAsItIs' /\ (epoch <= faults)'
  BY <1>1, <1>3, <1>4, <1>5 DEF Inv, PolicyTypeOK, Good, Sound, Terminal, Accepted, AnnouncedAsItIs
<1>12. graph.snapshot = None
  <2>1. CASE graph.allowance # None
    BY <2>1 DEF Inv, Good, Sound, Accepted, UsageAgrees, StatusAgrees
  <2>2. CASE graph.allowance = None
    BY <1>1, <1>6, <2>2 DEF Relies, ReadingIsCovered, Covered
  <2> QED BY <2>1, <2>2
<1> QED BY <1>10, <1>11, <1>12 DEF Inv, EvidenceKept

\* Artifact bytes are read after they were paid for.
LEMMA ReadArtifactKeeps ==
    ASSUME Inv, NEW w \in Workers, ReadArtifact(w)
    PROVE  Inv' /\ EvidenceKept
<1>1. /\ PolicyTypeOK /\ Good(graph) /\ Sound(graph) /\ At(w, "reading")
      /\ epoch' = epoch /\ now' = now /\ worked \in Usage
      /\ worker[w] \in WorkerStates /\ graph.epoch <= epoch
      /\ "settling" \in Places \ {"reading", "admitting"}
  BY DEF Inv, Good, PolicyTypeOK, ReadArtifact, Places
<1>2. CASE Refused(w, "settling") /\ worked' = worked
  BY <1>1, <1>2, RefusedKeeps DEF At
<1> DEFINE next == Reserved(graph, "artifact", 1)
           h == Committed(graph, next)
<1>3. CASE /\ MayReserve(graph, now, epoch, Fence(w), "artifact", 1) /\ Store(h)
           /\ Answered(w, h, "reading", "settling")
           /\ worked' = IF worker'[w].pc = "reading"
                        THEN [worked EXCEPT !["artifact"] = @ + 1] ELSE worked
  <2>1. /\ graph.status \in Active /\ ~Terminal(graph) /\ graph.lease # None
        /\ graph.usage["artifact"] + 1 <= Limits["artifact"] /\ "artifact" \in Kinds \ {"metadata"}
    BY <1>3, HeldIsActive DEF MayReserve, Kinds
  <2>2. /\ Goes(graph, next) /\ next.allowance = graph.allowance
        /\ next.usage["artifact"] = graph.usage["artifact"] + 1
    BY <1>1, <2>1, ReservedGoes
  <2>3. Clocks
    BY <1>1, <1>3, ClocksKept DEF Answered
  <2> HIDE DEF next
  <2>4. Good(h) /\ (h = next \/ (Ends(graph, h, graph.epoch) /\ Terminal(h)))
    BY <1>1, <2>1, <2>2, CommittedGood DEF Goes
  <2> HIDE DEF h
  <2>5. CASE Goto(w, "settling")
    <3>1. AllQuiet
      BY <1>1, <2>5, GotoQuiet DEF At
    <3>2. worked' = worked
      <4>1. worker'[w].pc = "settling"
        BY <1>1, <2>5 DEF Goto, PolicyTypeOK, WorkerStates
      <4> QED BY <1>3, <4>1
    <3>3. CASE h = next
      BY <1>1, <1>3, <2>1, <2>2, <2>3, <2>4, <3>1, <3>2, <3>3, QuietGoes
    <3>4. CASE Ends(graph, h, graph.epoch)
      BY <1>1, <1>3, <2>1, <2>3, <2>4, <3>1, <3>2, <3>4, QuietEnds
    <3> QED BY <2>4, <3>3, <3>4
  <2>6. CASE ~Goto(w, "settling")
    <3>1. Goto(w, "reading") /\ ~Terminal(h)
      BY <1>3, <2>6 DEF Answered
    <3>2. h = next /\ worker' = worker
      BY <1>1, <2>4, <3>1, GotoSame
    <3> DEFINE wd == [worked EXCEPT !["artifact"] = @ + 1]
    <3>3. worked' = wd
      BY <1>1, <1>3, <3>2 DEF At
    <3>4. /\ wd \in Usage /\ wd["metadata"] = worked["metadata"] /\ wd["rules"] = worked["rules"]
          /\ wd["artifact"] = worked["artifact"] + 1
      BY <1>1 DEF Usage, Kinds
    <3> HIDE DEF wd
    <3>5. ASSUME NEW v \in Workers PROVE Relies(h, worker[v], wd)
      <4>1. worker[v] \in WorkerStates /\ Relies(graph, worker[v], worked)
        BY <3>5 DEF Inv, PolicyTypeOK, Workings
      <4>2. Relies(h, worker[v], worked)
        BY <1>1, <2>1, <2>2, <3>2, <4>1, GoesRelies
      <4> QED BY <3>4, <4>2 DEF Relies, ReadingIsCovered, CountIsTrue, RulesUnspent
    <3>6. Charges(h, wd)
      <4>1. Charges(h, worked) /\ Charges(graph, worked)
        BY <1>1, <2>2, <3>2, GoesCharges DEF Inv, Workings
      <4>2. worked["artifact"] \in Nat /\ graph.usage["artifact"] \in Nat
        BY <1>1 DEF Sound, Graphs, Usage, Kinds
      <4> QED BY <2>2, <3>2, <3>4, <4>1, <4>2 DEF Charges
    <3>7. Workings'
      <4>1. graph' = h /\ worker' = worker /\ worked' = wd
        BY <1>3, <3>2, <3>3 DEF Store
      <4>2. OneReader'
        BY <4>1 DEF Inv, Workings, OneReader, At
      <4>3. ASSUME NEW v \in Workers PROVE OwnFence(v, worker'[v]) /\ Relies(graph', worker'[v], worked')
        BY <3>5, <4>1, <4>3 DEF Inv, Workings
      <4> QED BY <3>6, <4>1, <4>2, <4>3 DEF Workings
    <3>8. h.epoch <= epoch' /\ worked' \in Usage /\ worker' \in [Workers -> WorkerStates]
      BY <1>1, <2>2, <3>2, <3>3, <3>4 DEF Goes, PolicyTypeOK
    <3>9. EvidenceKept
      BY <1>3, <2>2, <3>2, <3>3, <3>4 DEF EvidenceKept, Store, Goes
    <3> QED BY <1>3, <2>1, <2>3, <2>4, <3>7, <3>8, <3>9, StoreKeeps
  <2> QED BY <2>5, <2>6
<1> QED BY <1>2, <1>3 DEF ReadArtifact

\* The capture fails.
LEMMA CaptureFailsKeeps ==
    ASSUME Inv, NEW w \in Workers, CaptureFails(w)
    PROVE  Inv' /\ EvidenceKept
<1>1. PolicyTypeOK /\ Clocks /\ {"settling", "settling unknown"} \subseteq Places \ {"reading", "admitting"}
  BY ClocksKept DEF Inv, CaptureFails, Places
<1>2. AllQuiet
  BY <1>1, GotoQuiet DEF CaptureFails, At
<1> QED BY <1>1, <1>2, QuietSame DEF CaptureFails

\* The graph h pays for what was read under the credit of g, and keeps the
\* lease.
Pays(g, h, used) ==
    /\ h.allowance = None /\ h.lease = g.lease /\ h.epoch = g.epoch
    /\ Latest(h).usageAtStart = Latest(g).usageAtStart
    /\ h.usage["metadata"] = g.usage["metadata"] + used
    /\ \A k \in Kinds \ {"metadata"} : h.usage[k] = g.usage[k]

\* A worker that pays for its reads and reads no more leaves nothing unpaid.
LEMMA PaidKeeps ==
    ASSUME Inv, Clocks, AllQuiet, worked' = worked, ~Terminal(graph), epoch' = epoch,
           NEW w \in Workers, worker[w].pc \in {"reading", "settling"}, worker'[w].pc # "reading",
           graph.allowance # None, graph.allowance.fence = Fence(w),
           NEW h, Store(h), Good(h), Pays(graph, h, worker[w].read)
    PROVE  Inv' /\ EvidenceKept
<1>1. /\ Sound(graph) /\ graph \in Graphs /\ h \in Graphs /\ graph' = h /\ worked \in Usage
      /\ h.allowance = None /\ h.lease = graph.lease
      /\ Latest(h).usageAtStart = Latest(graph).usageAtStart
      /\ h.usage["metadata"] = graph.usage["metadata"] + worker[w].read
      /\ h.usage["artifact"] = graph.usage["artifact"] /\ h.usage["rules"] = graph.usage["rules"]
  BY DEF Inv, Good, Sound, Store, PolicyTypeOK, Pays, Kinds
<1>2. ASSUME NEW v \in Workers PROVE OwnFence(v, worker[v]) /\ Relies(graph, worker[v], worked)
  BY <1>2 DEF Inv, Workings
<1>3. ASSUME NEW v \in Workers PROVE worker'[v].pc # "reading"
  <2>1. CASE v = w
    BY <2>1
  <2>2. CASE v # w /\ worker[v].pc = "reading"
    <3>1. graph.allowance.fence = worker[v].fence /\ graph.allowance.fence # None
      BY <1>1, <1>2, <2>2, NoneAssumption DEF Relies, ReadingIsCovered, Covered, Graphs, Allowances
    <3> QED BY <1>2, <2>2, <3>1 DEF OwnFence, Fence
  <2>3. CASE worker[v].pc # "reading"
    BY <1>3, <2>3 DEF AllQuiet, Quiet, Idle
  <2> QED BY <2>1, <2>2, <2>3
<1>4. ASSUME NEW v \in Workers PROVE Relies(h, worker'[v], worked)
  <2>1. Relies(graph, worker'[v], worked)
    BY <1>1, <1>2, <1>4, QuietRelies DEF AllQuiet
  <2> QED BY <1>1, <1>3, <1>4, <2>1 DEF Relies, ReadingIsCovered, CountIsTrue, RulesUnspent
<1>5. ASSUME NEW v \in Workers PROVE OwnFence(v, worker'[v])
  BY <1>2, <1>5 DEF AllQuiet, Quiet, OwnFence, Idle
<1>6. Charges(h, worked)
  <2>1. worked["metadata"] <= graph.usage["metadata"] + worker[w].read
    BY <1>2 DEF Relies, CountIsTrue, Fence
  <2>2. Credit(h) = 0 /\ h.usage["metadata"] \in Nat
    BY <1>1 DEF Credit, Graphs, Usage, Kinds
  <2> QED BY <1>1, <2>1, <2>2 DEF Inv, Workings, Charges
<1>7. Workings'
  <2>1. OneReader'
    BY <1>3 DEF OneReader, At
  <2> QED BY <1>1, <1>4, <1>5, <1>6, <2>1 DEF Workings
<1>8. h.epoch <= epoch' /\ worked' \in Usage /\ worker' \in [Workers -> WorkerStates]
  BY <1>1 DEF Inv, PolicyTypeOK, AllQuiet, Pays
<1>9. graph.snapshot = None
  BY DEF Inv, Good, Sound, Accepted, UsageAgrees, StatusAgrees
<1> QED BY <1>7, <1>8, <1>9, StoreKeeps DEF EvidenceKept

\* Settlement and publication are one step.
LEMMA SealKeeps ==
    ASSUME Inv, NEW w \in Workers, SealSnapshot(w)
    PROVE  Inv' /\ EvidenceKept
<1>1. /\ PolicyTypeOK /\ Good(graph) /\ Sound(graph) /\ worker[w].pc = "reading" /\ worker[w].read \in Nat
      /\ epoch' = epoch /\ now' = now /\ worked' = worked
      /\ {"settling", "starting"} \subseteq Places \ {"reading", "admitting"}
  BY DEF Inv, Good, PolicyTypeOK, SealSnapshot, Places, At, WorkerStates
<1>2. CASE Refused(w, "settling")
  BY <1>1, <1>2, RefusedKeeps DEF At
<1>3. CASE ~Refused(w, "settling")
  <2> DEFINE s == Settled(graph, worker[w].read)
             h == Sealed(s)
  <2>1. /\ MaySettle(graph, now, epoch, Fence(w), worker[w].read) /\ MaySeal(s, now, epoch, Fence(w))
        /\ Store(h) /\ (Goto(w, "starting") \/ Goto(w, "settling"))
    BY <1>3 DEF SealSnapshot, MaySealHeld
  <2>2. /\ graph.allowance # None /\ graph.allowance.fence = Fence(w) /\ ~Terminal(graph)
        /\ worker[w].read <= graph.allowance.credit
    BY <1>1, <2>1, HeldIsActive, NoneAssumption DEF MaySettle
  <2>3. /\ Sound(s) /\ s.version = graph.version + 1 /\ s.epoch = graph.epoch /\ s.allowance = None
        /\ s.status = "acquiring" /\ s.lease = graph.lease /\ s.lease # None
        /\ s.attempts = graph.attempts
        /\ s.usage["metadata"] = graph.usage["metadata"] + worker[w].read
        /\ \A k \in Kinds \ {"metadata"} : s.usage[k] = graph.usage[k]
    BY <1>1, <2>2, SettledSound
  <2>4. s.version < MaxHistory - 1
    BY <2>1 DEF MaySeal
  <2> HIDE DEF s
  <2>5. /\ Sound(h) /\ h.version = s.version + 1 /\ h.epoch = s.epoch /\ h.allowance = None
        /\ h.lease = s.lease /\ h.usage = s.usage
        /\ Latest(h).usageAtStart = Latest(s).usageAtStart
    BY <2>3, SealedSound
  <2> HIDE DEF h
  <2>6. Good(h)
    <3>1. s.version \in Nat /\ MaxHistory \in Nat
      BY <2>3, LimitsAssumption DEF Sound, Graphs
    <3>2. h.version < MaxHistory /\ h.version <= MaxHistory
      BY <2>4, <2>5, <3>1
    <3> QED BY <2>5, <3>2 DEF Good
  <2>7. Pays(graph, h, worker[w].read)
    BY <2>3, <2>5 DEF Pays, Latest
  <2>8. AllQuiet
    BY <1>1, <2>1, GotoQuiet DEF At
  <2>9. worker'[w].pc # "reading"
    BY <1>1, <2>1 DEF Goto, PolicyTypeOK, WorkerStates
  <2>10. Clocks
    BY <1>1, <1>3, ClocksKept DEF SealSnapshot
  <2> QED BY <1>1, <2>1, <2>2, <2>6, <2>7, <2>8, <2>9, <2>10, PaidKeeps
<1> QED BY <1>2, <1>3

\* The error path of the capture settles the credit.
LEMMA SettleAcquisitionKeeps ==
    ASSUME Inv, NEW w \in Workers, SettleAcquisition(w)
    PROVE  Inv' /\ EvidenceKept
<1>1. /\ PolicyTypeOK /\ Good(graph) /\ Sound(graph) /\ worker[w].read \in Nat
      /\ "failing" \in Places \ {"reading", "admitting"}
  BY DEF Inv, Good, PolicyTypeOK, Places, WorkerStates
<1>2. ASSUME NEW used \in {worker[w].read, None},
             At(w, IF used = None THEN "settling unknown" ELSE "settling"),
             UNCHANGED <<epoch, now, worked>>,
             MaySettle(graph, now, epoch, Fence(w), used),
             Store(Committed(graph, Settled(graph, used))), Goto(w, "failing"), UNCHANGED faults
      PROVE  Inv' /\ EvidenceKept
  <2>1. /\ graph.allowance # None /\ graph.allowance.fence = Fence(w) /\ ~Terminal(graph)
        /\ graph.lease # None
    BY <1>2, HeldIsActive DEF MaySettle
  <2>2. AllQuiet /\ Clocks /\ worker'[w].pc = "failing"
    BY <1>1, <1>2, GotoQuiet, ClocksKept DEF At, Goto, PolicyTypeOK, WorkerStates
  <2>3. CASE used = None
    <3>1. Ends(graph, Settled(graph, used), graph.epoch)
      BY <1>1, <2>1, <2>3, SettledUnknownEnds
    <3> QED BY <1>2, <2>1, <2>2, <3>1, QuietCommitted
  <2>4. CASE used = worker[w].read /\ used # None
    <3> DEFINE s == Settled(graph, used)
               h == Committed(graph, s)
    <3>1. used <= graph.allowance.credit /\ worker[w].pc = "settling" /\ Store(h)
      BY <1>2, <2>4 DEF MaySettle, At
    <3>2. /\ Sound(s) /\ s.version = graph.version + 1 /\ s.epoch = graph.epoch /\ s.allowance = None
          /\ s.lease = graph.lease /\ s.attempts = graph.attempts
          /\ s.usage["metadata"] = graph.usage["metadata"] + used
          /\ \A k \in Kinds \ {"metadata"} : s.usage[k] = graph.usage[k]
      BY <1>1, <2>1, <2>4, <3>1, SettledSound
    <3> HIDE DEF s
    <3>3. Good(h) /\ (h = s \/ (Ends(graph, h, graph.epoch) /\ Terminal(h)))
      BY <1>1, <2>1, <3>2, CommittedGood
    <3> HIDE DEF h
    <3>4. CASE Ends(graph, h, graph.epoch)
      <4>1. graph.epoch <= epoch'
        BY <1>1, <1>2 DEF PolicyTypeOK
      <4> QED BY <1>2, <2>1, <2>2, <3>1, <3>3, <3>4, <4>1, QuietEnds
    <3>5. CASE h = s
      <4>1. Pays(graph, h, worker[w].read)
        BY <2>4, <3>2, <3>5 DEF Pays, Latest
      <4> QED BY <1>2, <2>1, <2>2, <3>1, <3>3, <4>1, PaidKeeps
    <3> QED BY <3>3, <3>4, <3>5
  <2> QED BY <2>3, <2>4
<1>3. ASSUME NEW used \in {worker[w].read, None},
             At(w, IF used = None THEN "settling unknown" ELSE "settling"),
             UNCHANGED <<epoch, now, worked>>, Refused(w, "failing")
      PROVE  Inv' /\ EvidenceKept
  BY <1>1, <1>3, RefusedKeeps DEF At
<1> QED BY <1>2, <1>3 DEF SettleAcquisition

\* A call of the computing worker that goes on or ends the job.
LEMMA AnsweredKeeps ==
    ASSUME Inv, NEW w \in Workers, NEW next, UNCHANGED <<epoch, now, worked>>,
           graph.lease # None, ~Terminal(graph), Goes(graph, next), next.allowance = graph.allowance,
           Store(Committed(graph, next)), NEW on \in {"paying", "publishing"},
           Answered(w, Committed(graph, next), on, "failing"), ~At(w, "failing")
    PROVE  Inv' /\ EvidenceKept
<1>1. PolicyTypeOK /\ Clocks
  BY ClocksKept DEF Inv, Answered
<1>2. {"failing", "paying", "publishing"} \subseteq Places \ {"reading", "admitting"}
  BY DEF Places
<1>3. PICK pc \in {"failing", "paying", "publishing"} : Goto(w, pc)
  BY DEF Answered
<1>4. AllQuiet
  BY <1>1, <1>2, <1>3, GotoQuiet
<1> QED BY <1>1, <1>4, QuietCommitted

\* The computation starts.
LEMMA StartKeeps ==
    ASSUME Inv, NEW w \in Workers, StartComputation(w)
    PROVE  Inv' /\ EvidenceKept
<1>1. /\ Sound(graph) /\ "failing" \in Places \ {"reading", "admitting"} /\ ~At(w, "failing")
      /\ UNCHANGED <<epoch, now, worked>>
  BY DEF Inv, Good, Places, StartComputation, At
<1>2. CASE /\ MayStart(graph, now, epoch, Fence(w)) /\ Store(Committed(graph, Started(graph)))
           /\ Answered(w, Committed(graph, Started(graph)), "paying", "failing")
  <2>1. graph.status = "sealed" /\ graph.lease # None /\ ~Terminal(graph)
    BY <1>2, HeldIsActive DEF MayStart
  <2>2. Goes(graph, Started(graph)) /\ Started(graph).allowance = graph.allowance
    BY <1>1, <2>1, StartedGoes
  <2> QED BY <1>1, <1>2, <2>1, <2>2, AnsweredKeeps
<1>3. CASE Refused(w, "failing")
  BY <1>1, <1>3, RefusedKeeps
<1> QED BY <1>2, <1>3 DEF StartComputation

\* The rules are paid for.
LEMMA PayRulesKeeps ==
    ASSUME Inv, NEW w \in Workers, PayRules(w)
    PROVE  Inv' /\ EvidenceKept
<1> DEFINE next == Reserved(graph, "rules", RuleCount)
<1>1. /\ Sound(graph) /\ "failing" \in Places \ {"reading", "admitting"} /\ ~At(w, "failing")
      /\ UNCHANGED <<epoch, now, worked>>
  BY DEF Inv, Good, Places, PayRules, At
<1>2. CASE /\ MayReserve(graph, now, epoch, Fence(w), "rules", RuleCount)
           /\ Store(Committed(graph, next))
           /\ Answered(w, Committed(graph, next), "publishing", "failing")
  <2>1. /\ graph.status \in Active /\ graph.lease # None /\ ~Terminal(graph)
        /\ graph.usage["rules"] + RuleCount <= Limits["rules"]
        /\ RuleCount \in Nat /\ "rules" \in Kinds \ {"metadata"}
    BY <1>2, HeldIsActive, LimitsAssumption DEF MayReserve, Kinds
  <2>2. Goes(graph, next) /\ next.allowance = graph.allowance
    BY <1>1, <2>1, ReservedGoes
  <2> HIDE DEF next
  <2> QED BY <1>1, <1>2, <2>1, <2>2, AnsweredKeeps
<1>3. CASE Refused(w, "failing")
  BY <1>1, <1>3, RefusedKeeps
<1> QED BY <1>2, <1>3 DEF PayRules

\* The rules are evaluated once under a lease, which has paid for them.
LEMMA PublishKeeps ==
    ASSUME Inv, NEW w \in Workers, PublishResult(w)
    PROVE  Inv' /\ EvidenceKept
<1>1. /\ PolicyTypeOK /\ Good(graph) /\ Sound(graph) /\ graph \in Graphs /\ worked \in Usage
      /\ worker[w].pc = "publishing" /\ epoch' = epoch /\ now' = now /\ graph.epoch <= epoch
      /\ "failing" \in Places \ {"reading", "admitting"}
  BY DEF Inv, Good, Sound, Places, PublishResult, PolicyTypeOK, At
<1>2. CASE Refused(w, "failing") /\ worked' = worked
  BY <1>1, <1>2, RefusedKeeps DEF At
<1> DEFINE h == Completed(graph)
           wd == [worked EXCEPT !["rules"] = @ + RuleCount]
<1>3. CASE /\ MayComplete(graph, now, epoch, Fence(w)) /\ worked' = wd
           /\ \/ Store(h) /\ Stop(w) /\ UNCHANGED faults
              \/ /\ faults < MaxFaults /\ faults' = faults + 1
                 /\ Store(h) \/ UNCHANGED jobVars
                 /\ Goto(w, "failing")
  <2>1. /\ graph.status = "running" /\ ~Terminal(graph) /\ graph.lease # None
        /\ graph.lease.fence = Fence(w) /\ graph.version < MaxHistory - 1
        /\ graph.usage["rules"] - Latest(graph).usageAtStart["rules"] >= RuleCount
    BY <1>3, HeldIsActive DEF MayComplete
  <2>2. /\ wd \in Usage /\ wd["metadata"] = worked["metadata"] /\ wd["artifact"] = worked["artifact"]
        /\ wd["rules"] = worked["rules"] + RuleCount
    BY <1>1, LimitsAssumption DEF Usage, Kinds
  <2> HIDE DEF wd
  <2>3. ASSUME NEW v \in Workers PROVE Relies(graph, worker[v], worked) /\ OwnFence(v, worker[v])
    BY <2>3 DEF Inv, Workings
  <2>4. AllQuiet /\ worker'[w].pc # "reading" /\ (worker'[w] = Idle \/ worker'[w].pc = "failing")
    <3>1. CASE Stop(w)
      BY <1>1, <3>1, StopQuiet DEF Stop, PolicyTypeOK, Idle
    <3>2. CASE Goto(w, "failing")
      BY <1>1, <3>2, GotoQuiet DEF Goto, PolicyTypeOK, WorkerStates, At
    <3> QED BY <1>3, <3>1, <3>2
  <2>5. \A v \in Workers \ {w} : worker'[v] = worker[v]
    BY <1>1, <1>3 DEF Stop, Goto, PolicyTypeOK
  <2>6. ASSUME NEW v \in Workers PROVE Relies(graph, worker'[v], worked)
    BY <1>1, <2>3, <2>4, <2>6, QuietRelies DEF AllQuiet
  <2>7. graph.lease.fence # None
    BY <1>1, <2>1, NoneAssumption DEF Graphs, Leases
  <2>8. ASSUME NEW v \in Workers PROVE RulesUnspent(graph, worker'[v], wd)
    <3>1. CASE v = w
      BY <2>4, <2>7, <3>1 DEF RulesUnspent, Idle
    <3>2. CASE v # w
      BY <2>1, <2>3, <2>5, <2>7, <3>2 DEF RulesUnspent, OwnFence, Fence
    <3> QED BY <3>1, <3>2
  <2>9. ASSUME NEW v \in Workers PROVE Relies(graph, worker'[v], wd)
    BY <2>2, <2>6, <2>8, <2>9 DEF Relies, ReadingIsCovered, CountIsTrue
  <2>10. Charges(graph, wd)
    <3>1. worked["rules"] <= Latest(graph).usageAtStart["rules"]
      BY <1>1, <2>1, <2>3 DEF Relies, RulesUnspent, Fence
    <3>2. Latest(graph).usageAtStart["rules"] \in Nat
      <4>1. graph.attempts \in Seq(Attempts) /\ Len(graph.attempts) \in 1..Len(graph.attempts)
        BY <1>1, <2>1 DEF Graphs, Sound, Accepted, LeaseAgrees
      <4>2. Latest(graph) \in Attempts
        BY <4>1, ElementOfSeq DEF Latest
      <4> QED BY <4>2 DEF Attempts, Usage, Kinds
    <3>3. worked["rules"] \in Nat /\ graph.usage["rules"] \in Nat /\ RuleCount \in Nat
      BY <1>1, LimitsAssumption DEF Graphs, Usage, Kinds
    <3>4. wd["rules"] <= graph.usage["rules"]
      BY <2>1, <2>2, <3>1, <3>2, <3>3
    <3> QED BY <2>2, <3>4 DEF Inv, Workings, Charges
  <2>11. ASSUME NEW g, graph' = g, \A v \in Workers : Relies(g, worker'[v], wd), Charges(g, wd)
         PROVE  Workings'
    <3>1. ASSUME NEW v \in Workers PROVE OwnFence(v, worker'[v])
      BY <2>3, <2>4, <2>5, <3>1 DEF AllQuiet, Quiet, OwnFence, Idle
    <3>2. ASSUME NEW v \in Workers, At(v, "reading")' PROVE At(v, "reading")
      BY <2>4, <2>5, <3>2 DEF At
    <3>3. OneReader'
      BY <3>2 DEF Inv, Workings, OneReader
    <3>4. Charges(graph', worked') /\ \A v \in Workers : Relies(graph', worker'[v], worked')
      BY <1>3, <2>11
    <3> QED BY <3>1, <3>3, <3>4 DEF Workings
  <2>12. Clocks
    BY <1>1, <1>3, ClocksKept
  <2>13. CASE Store(h)
    <3>1. Ends(graph, h, graph.epoch) /\ Terminal(h)
      BY <1>1, <2>1, CompletedEnds
    <3> HIDE DEF h
    <3>2. Good(h)
      <4>1. graph.version \in Nat /\ MaxHistory \in Nat
        BY <1>1, LimitsAssumption DEF Graphs
      <4>2. h.version <= MaxHistory
        BY <2>1, <3>1, <4>1 DEF Ends
      <4> QED BY <3>1, <4>2 DEF Good, Ends
    <3>3. ASSUME NEW v \in Workers PROVE Relies(h, worker'[v], wd)
      <4>1. worker'[v] \in WorkerStates
        BY <2>4, <3>3 DEF AllQuiet
      <4> QED BY <1>1, <2>1, <2>2, <2>9, <3>1, <4>1, EndsRelies
    <3>4. Charges(h, wd)
      BY <1>1, <2>2, <2>10, <3>1, EndsCharges
    <3>5. Workings'
      BY <2>11, <2>13, <3>3, <3>4 DEF Store
    <3>6. h.epoch <= epoch' /\ worked' \in Usage /\ worker' \in [Workers -> WorkerStates]
      BY <1>1, <1>3, <2>2, <2>4, <3>1 DEF Ends, AllQuiet
    <3>7. EvidenceKept
      BY <1>3, <2>2, <2>13, <3>1 DEF EvidenceKept, Store, Ends
    <3> QED BY <2>1, <2>12, <2>13, <3>2, <3>5, <3>6, <3>7, StoreKeeps
  <2>14. CASE UNCHANGED jobVars
    <3>1. graph' = graph /\ outbox' = outbox
      BY <2>14 DEF jobVars
    <3>2. Workings'
      BY <2>9, <2>10, <2>11, <3>1
    <3>3. PolicyTypeOK'
      BY <1>1, <1>3, <2>2, <2>4, <2>12, <3>1 DEF PolicyTypeOK, Clocks, AllQuiet
    <3>4. AnnouncedAsItIs' /\ Good(graph)'
      BY <1>1, <3>1 DEF Inv, AnnouncedAsItIs, Good, Sound, Terminal, Accepted
    <3>5. EvidenceKept
      BY <1>3, <2>2, <3>1 DEF EvidenceKept
    <3> QED BY <2>12, <3>2, <3>3, <3>4, <3>5 DEF Inv, Clocks
  <2> QED BY <1>3, <2>13, <2>14
<1> QED BY <1>2, <1>3 DEF PublishResult

\* The error path of the attempt gives the lease up.
LEMMA SettleAttemptKeeps ==
    ASSUME Inv, NEW w \in Workers, SettleAttempt(w)
    PROVE  Inv' /\ EvidenceKept
<1>1. /\ PolicyTypeOK /\ Sound(graph) /\ now \in Nat /\ Clocks
      /\ UNCHANGED <<epoch, now, worked, faults>>
  BY ClocksKept DEF Inv, Good, PolicyTypeOK, SettleAttempt
<1>2. AllQuiet
  BY <1>1, StopQuiet DEF SettleAttempt
<1>3. CASE /\ MayInterrupt(graph, now, epoch, Fence(w), "worker_interrupted")
           /\ Store(Committed(graph, Interrupted(graph, now, "worker_interrupted")))
  <2>1. graph.status \in Active /\ ~Terminal(graph)
    BY <1>3, HeldIsActive DEF MayInterrupt
  <2>2. Ends(graph, Interrupted(graph, now, "worker_interrupted"), graph.epoch)
    BY <1>1, <2>1, InterruptedEnds
  <2> QED BY <1>1, <1>2, <1>3, <2>1, <2>2, QuietCommitted
<1>4. CASE MayReclaim(graph, now, epoch) /\ Store(Committed(graph, Reclaimed(graph, now)))
  BY <1>1, <1>2, <1>4, ReclaimKeeps
<1>5. CASE UNCHANGED jobVars
  BY <1>1, <1>2, <1>5, QuietSame
<1>6. \/ /\ MayInterrupt(graph, now, epoch, Fence(w), "worker_interrupted")
         /\ Store(Committed(graph, Interrupted(graph, now, "worker_interrupted")))
      \/ MayReclaim(graph, now, epoch) /\ Store(Committed(graph, Reclaimed(graph, now)))
      \/ UNCHANGED jobVars
  BY DEF SettleAttempt
<1> QED BY <1>3, <1>4, <1>5, <1>6

\* A worker stops for good.
LEMMA CrashKeeps ==
    ASSUME Inv, NEW w \in Workers, Crash(w)
    PROVE  Inv' /\ EvidenceKept
<1>1. Clocks
  BY ClocksKept DEF Crash
<1>2. AllQuiet
  BY StopQuiet DEF Crash, Inv
<1> QED BY <1>1, <1>2, QuietSame DEF Crash

\* A heartbeat.
LEMMA HeartbeatKeeps ==
    ASSUME Inv, NEW w \in Workers, Heartbeat(w)
    PROVE  Inv' /\ EvidenceKept
<1>1. PolicyTypeOK /\ Sound(graph) /\ now \in Nat /\ Clocks
  BY ClocksKept DEF Inv, Good, PolicyTypeOK, Heartbeat
<1>2. AllQuiet
  BY <1>1, StillQuiet DEF Heartbeat
<1>3. graph.status \in Active /\ ~Terminal(graph) /\ graph.lease # None
  BY HeldIsActive DEF Heartbeat, MayHeartbeat
<1>4. Goes(graph, Heartbeaten(graph, now)) /\ Heartbeaten(graph, now).allowance = graph.allowance
  BY <1>1, <1>3, HeartbeatenGoes
<1> QED BY <1>1, <1>2, <1>3, <1>4, QuietCommitted DEF Heartbeat

\* A cancellation.
LEMMA CancelKeeps ==
    ASSUME Inv, Cancel
    PROVE  Inv' /\ EvidenceKept
<1>1. PolicyTypeOK /\ Sound(graph) /\ Clocks /\ ~Terminal(graph)
  BY ClocksKept DEF Inv, Good, Cancel, MayCancel
<1>2. AllQuiet
  BY <1>1, StillQuiet DEF Cancel
<1>3. Ends(graph, Cancelled(graph), graph.epoch)
  BY <1>1, CancelledEnds
<1> QED BY <1>1, <1>2, <1>3, QuietCommitted DEF Cancel

\* A recovery of the store.
LEMMA RecoverKeeps ==
    ASSUME Inv, Recover
    PROVE  Inv' /\ EvidenceKept
<1> DEFINE h == Recovered(graph, now, epoch + 1)
<1>1. /\ PolicyTypeOK /\ Good(graph) /\ now \in Nat /\ epoch \in 0..MaxFaults /\ faults \in 0..MaxFaults
      /\ now \in 0..MaxTime /\ epoch <= faults /\ faults < MaxFaults /\ MaxFaults \in Nat
      /\ faults' = faults + 1 /\ epoch' = epoch + 1 /\ now' = now /\ worker' = worker
      /\ worked' = worked /\ Store(h) /\ MayRecover(graph, epoch + 1)
  BY PolicyBoundsAssumption DEF Inv, PolicyTypeOK, Recover
<1>2. /\ epoch + 1 \in Nat /\ epoch + 1 \in 0..MaxFaults /\ faults + 1 \in 0..MaxFaults
      /\ epoch + 1 <= faults + 1 /\ epoch <= epoch + 1 /\ epoch + 1 <= epoch + 1
  BY <1>1
<1>3. Clocks /\ epoch + 1 <= epoch'
  BY <1>1, <1>2 DEF Clocks
<1>4. Ends(graph, h, epoch + 1) /\ Good(h) /\ ~Terminal(graph)
  BY <1>1, <1>2, RecoveredEnds DEF MayRecover
<1>5. AllQuiet
  BY <1>1, StillQuiet
<1> HIDE DEF h
<1> QED BY <1>1, <1>3, <1>4, <1>5, QuietEnds

\* The clock.
LEMMA TickKeeps ==
    ASSUME Inv, Tick
    PROVE  Inv' /\ EvidenceKept
<1>1. /\ PolicyTypeOK /\ now \in 0..MaxTime /\ now < MaxTime /\ MaxTime \in Nat
      /\ now' = now + 1 /\ epoch' = epoch /\ faults' = faults /\ worker' = worker
      /\ epoch \in 0..MaxFaults /\ faults \in 0..MaxFaults /\ epoch <= faults
  BY PolicyBoundsAssumption DEF Inv, PolicyTypeOK, Tick
<1>2. now + 1 \in 0..MaxTime /\ epoch <= epoch
  BY <1>1
<1>3. Clocks
  BY <1>1, <1>2 DEF Clocks
<1> QED BY <1>1, <1>3, StillQuiet, QuietSame DEF Tick

-----------------------------------------------------------------------------
(* The specification.                                                      *)

\* The invariant holds when the job is created.
LEMMA InitInv == Init => Inv
<1> SUFFICES ASSUME Init PROVE Inv
  OBVIOUS
<1>1. /\ graph = Created /\ epoch = 0 /\ outbox = <<>> /\ now = 0 /\ worked = NoUsage /\ faults = 0
      /\ worker = [w \in Workers |-> Idle]
  BY DEF Init
<1>2. Good(graph)
  BY <1>1, CreatedGood
<1>3. ~Terminal(graph) /\ graph.epoch = 0 /\ graph.usage = NoUsage /\ graph.allowance = None
      /\ graph.lease = None
  BY <1>1 DEF Created, Terminal, Terminals
<1>4. Idle \in WorkerStates /\ Idle.pc = "idle" /\ Idle.fence = None
  BY DEF Idle, WorkerStates, Places
<1>5. NoUsage \in Usage /\ \A k \in Kinds : NoUsage[k] = 0
  BY DEF NoUsage, Usage
<1>6. PolicyTypeOK
  BY <1>1, <1>2, <1>3, <1>4, <1>5, PolicyBoundsAssumption DEF PolicyTypeOK, Good, Sound
<1>7. AnnouncedAsItIs
  BY <1>1, <1>2, <1>3, IntentsOfEnd DEF AnnouncedAsItIs, Good
<1>8. Workings
  <2>1. ASSUME NEW w \in Workers PROVE OwnFence(w, worker[w]) /\ Relies(graph, worker[w], worked)
    BY <1>1, <1>3, <1>4, <2>1 DEF OwnFence, Relies, ReadingIsCovered, CountIsTrue, RulesUnspent
  <2>2. OneReader
    BY <1>1, <1>4 DEF OneReader, At
  <2>3. Charges(graph, worked)
    BY <1>1, <1>3, <1>5 DEF Charges, Credit, Kinds
  <2> QED BY <2>1, <2>2, <2>3 DEF Workings
<1> QED BY <1>1, <1>2, <1>6, <1>7, <1>8 DEF Inv

\* Every step keeps it, and the evidence of a sealed job.
LEMMA NextInv ==
    ASSUME Inv, [Next]_vars
    PROVE  Inv' /\ (EvidenceKept \/ UNCHANGED vars)
<1>1. ASSUME NEW w \in Workers, WorkerStep(w) PROVE Inv' /\ EvidenceKept
  BY <1>1, ObserveKeeps, ClaimKeeps, ClaimRefusedKeeps, AdmitKeeps, ReadSourceKeeps,
     ReadArtifactKeeps, CaptureFailsKeeps, SealKeeps, SettleAcquisitionKeeps, StartKeeps,
     PayRulesKeeps, PublishKeeps, SettleAttemptKeeps DEF WorkerStep
<1>2. CASE Next
  BY <1>1, <1>2, CrashKeeps, HeartbeatKeeps, CancelKeeps, RecoverKeeps, TickKeeps DEF Next
<1>3. CASE UNCHANGED vars
  BY <1>3 DEF vars, Inv, PolicyTypeOK, Good, Sound, Terminal, Accepted, AnnouncedAsItIs, Workings,
              OneReader, At
<1> QED BY <1>2, <1>3

\* The inductive invariant of the workers and the job.
THEOREM PolicyInvariant == Spec => []Inv
<1>1. Inv /\ [Next]_vars => Inv'
  BY NextInv
<1> QED BY InitInv, <1>1, PTL DEF Spec

\* Every variable of the scheduler and of its workers keeps its type, with
\* the history and the attempts of a job within their limits.
THEOREM PolicyTypes == Spec => []PolicyTypeOK
<1>1. Inv => PolicyTypeOK
  BY DEF Inv
<1> QED BY PolicyInvariant, <1>1, PTL

\* The transitions never store a graph that PolicyEvaluationJobSnapshotSchema
\* refuses, whatever the limits, however the workers interleave: a job can
\* always be read, reclaimed and cancelled.
THEOREM StoredGraphsAreAccepted == Spec => []GraphIsAccepted
<1>1. Inv => GraphIsAccepted
  BY DEF Inv, Good, Sound, GraphIsAccepted
<1> QED BY PolicyInvariant, <1>1, PTL

\* The intents in the outbox are the ones inspectStored derives from the
\* stored graph: a job is announced as over once, as it still is.
THEOREM OutboxTellsTheGraph == Spec => []AnnouncedAsItIs
<1>1. Inv => AnnouncedAsItIs
  BY DEF Inv
<1> QED BY PolicyInvariant, <1>1, PTL

\* What superseded, cut off and confused workers did is charged to the job,
\* within its frozen limits.
THEOREM WorkIsPaidFor == Spec => []WorkIsCharged
<1>1. Inv => WorkIsCharged
  <2> SUFFICES ASSUME Inv PROVE WorkIsCharged
    OBVIOUS
  <2>1. graph \in Graphs /\ UsageAgrees(graph) /\ Charges(graph, worked)
    BY DEF Inv, Good, Sound, Accepted, Workings
  <2>2. /\ graph.usage["metadata"] \in Nat /\ graph.usage["artifact"] \in Nat
        /\ graph.usage["rules"] \in Nat /\ "metadata" \in Kinds
    BY <2>1 DEF Graphs, Usage, Kinds
  <2>3. graph.usage["metadata"] + Credit(graph) <= Limits["metadata"]
    <3>1. CASE graph.allowance = None
      BY <2>1, <2>2, <3>1 DEF UsageAgrees, Credit
    <3>2. CASE graph.allowance # None
      BY <2>1, <2>2, <3>2, LimitsAssumption DEF UsageAgrees, Credit, Kinds
    <3> QED BY <3>1, <3>2
  <2>4. graph.usage["artifact"] <= Limits["artifact"] /\ graph.usage["rules"] <= Limits["rules"]
    BY <2>1 DEF UsageAgrees, Kinds
  <2>5. ASSUME NEW k \in Kinds
        PROVE  LET charged == graph.usage[k] + (IF k = "metadata" THEN Credit(graph) ELSE 0)
               IN  worked[k] <= charged /\ charged <= Limits[k]
    <3>1. CASE k = "metadata"
      BY <2>1, <2>3, <3>1 DEF Charges
    <3>2. CASE k = "artifact"
      BY <2>1, <2>2, <2>4, <3>2 DEF Charges
    <3>3. CASE k = "rules"
      BY <2>1, <2>2, <2>4, <3>3 DEF Charges
    <3> QED BY <2>5, <3>1, <3>2, <3>3 DEF Kinds
  <2> QED BY <2>5 DEF WorkIsCharged
<1> QED BY PolicyInvariant, <1>1, PTL

\* Once a job is sealed its snapshot is never replaced and no worker, not even
\* one that lost its lease, begins another metadata read of its sources.
THEOREM EvidenceIsClosed == Spec => NothingReadAfterSealing
<1>1. Inv /\ [Next]_vars => [EvidenceKept]_vars
  BY NextInv
<1>2. [EvidenceKept]_vars =>
        [graph.snapshot # None => /\ graph'.snapshot = graph.snapshot
                                  /\ worked'["metadata"] = worked["metadata"]]_vars
  BY DEF EvidenceKept
<1> QED BY PolicyInvariant, <1>1, <1>2, PTL DEF Spec, NothingReadAfterSealing

=============================================================================
