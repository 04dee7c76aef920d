---------------------------- MODULE PolicyJobProofs ----------------------------
(***************************************************************************)
(* Every transition of packages/core/src/policy/ that is given a graph the *)
(* snapshot schema accepts returns one that it accepts, for any limits,    *)
(* number of attempts and length of history.                               *)
(***************************************************************************)
EXTENDS PolicyEvaluation, SequenceTheorems, TLAPS

\* A graph that the schema accepts, and one that is within its history too: a
\* job that is not over has a version left.
Sound(g) == g \in Graphs /\ Len(g.attempts) <= MaxAttempts /\ Accepted(g)

Good(g) == Sound(g) /\ g.version <= MaxHistory /\ (~Terminal(g) => g.version < MaxHistory)

-----------------------------------------------------------------------------
(* The fields of what the helpers return.                                  *)

\* Charging changes the usage and the allowance, and nothing else.
LEMMA ChargedFields ==
    ASSUME NEW g \in Graphs, NEW h, h = Charged(g)
    PROVE  /\ h \in Graphs
           /\ h.status = g.status /\ h.version = g.version /\ h.epoch = g.epoch
           /\ h.token = g.token /\ h.lease = g.lease /\ h.snapshot = g.snapshot
           /\ h.result = g.result /\ h.retryAt = g.retryAt /\ h.cancelled = g.cancelled
           /\ h.attempts = g.attempts /\ h.allowance = None
           /\ h.usage = [g.usage EXCEPT !["metadata"] = @ + Credit(g)]
<1>1. Credit(g) \in Nat
  BY DEF Credit, Graphs, Allowances
<1> DEFINE usage == [g.usage EXCEPT !["metadata"] = @ + Credit(g)]
<1>2. usage \in Usage
  BY <1>1 DEF Graphs, Usage, Kinds
<1>3. h = [g EXCEPT !.usage = usage, !.allowance = None]
  BY DEF Charged
<1> HIDE DEF usage
<1>4. h \in Graphs
  BY <1>2, <1>3 DEF Graphs
<1>5. /\ h.status = g.status /\ h.version = g.version /\ h.epoch = g.epoch
      /\ h.token = g.token /\ h.lease = g.lease /\ h.snapshot = g.snapshot
      /\ h.result = g.result /\ h.retryAt = g.retryAt /\ h.cancelled = g.cancelled
      /\ h.attempts = g.attempts /\ h.allowance = None /\ h.usage = usage
  BY <1>3 DEF Graphs
<1> QED BY <1>4, <1>5 DEF usage

\* The latest attempt a as it is closed.
ClosedAs(a, b, closure, usage) ==
    /\ b.fence = a.fence /\ b.startedAt = a.startedAt /\ b.deadline = a.deadline
    /\ b.snapshot = a.snapshot /\ b.usageAtStart = a.usageAtStart
    /\ b.closure = closure /\ b.usageAtClose = usage

\* Closing changes the latest attempt, if it is open, and nothing else.
LEMMA ClosedFields ==
    ASSUME NEW g \in Graphs, NEW closure \in Closures, NEW h, h = Closed(g, closure)
    PROVE  /\ h \in Graphs
           /\ h.status = g.status /\ h.version = g.version /\ h.epoch = g.epoch
           /\ h.token = g.token /\ h.lease = g.lease /\ h.snapshot = g.snapshot
           /\ h.result = g.result /\ h.retryAt = g.retryAt /\ h.cancelled = g.cancelled
           /\ h.usage = g.usage /\ h.allowance = g.allowance
           /\ Len(h.attempts) = Len(g.attempts)
           /\ \A i \in 1..Len(g.attempts) :
                \/ h.attempts[i] = g.attempts[i] /\ ~(i = Len(g.attempts) /\ g.attempts[i].closure = None)
                \/ /\ i = Len(g.attempts) /\ g.attempts[i].closure = None
                   /\ ClosedAs(g.attempts[i], h.attempts[i], closure, g.usage)
<1> DEFINE n == Len(g.attempts)
<1>1. g.attempts \in Seq(Attempts) /\ n \in Nat
  BY DEF Graphs
<1>2. CASE Open(g)
  <2>1. n \in 1..n /\ g.attempts[n] \in Attempts /\ g.attempts[n].closure = None
    BY <1>1, <1>2, EmptySeq, ElementOfSeq DEF Open, Latest
  <2> DEFINE a == [g.attempts[n] EXCEPT !.closure = closure, !.usageAtClose = g.usage]
             attempts == [g.attempts EXCEPT ![n] = a]
  <2>2. a \in Attempts /\ ClosedAs(g.attempts[n], a, closure, g.usage)
    BY <2>1 DEF Attempts, Graphs, ClosedAs
  <2>3. h = [g EXCEPT !.attempts = attempts]
    BY <1>2 DEF Closed
  <2> HIDE DEF a
  <2>4. /\ attempts \in Seq(Attempts) /\ Len(attempts) = n
        /\ \A j \in 1..n : attempts[j] = IF j = n THEN a ELSE g.attempts[j]
    BY <1>1, <2>1, <2>2, ExceptSeq
  <2> HIDE DEF attempts
  <2>5. h \in Graphs /\ h.attempts = attempts
    BY <2>3, <2>4 DEF Graphs
  <2>6. /\ h.status = g.status /\ h.version = g.version /\ h.epoch = g.epoch
        /\ h.token = g.token /\ h.lease = g.lease /\ h.snapshot = g.snapshot
        /\ h.result = g.result /\ h.retryAt = g.retryAt /\ h.cancelled = g.cancelled
        /\ h.usage = g.usage /\ h.allowance = g.allowance
    BY <2>3 DEF Graphs
  <2> QED BY <2>1, <2>2, <2>4, <2>5, <2>6
<1>3. CASE ~Open(g)
  <2>1. h = g
    BY <1>3 DEF Closed
  <2>2. ASSUME NEW i \in 1..n PROVE ~(i = n /\ g.attempts[i].closure = None)
    <3>1. g.attempts # <<>>
      BY <1>1, <2>2, EmptySeq
    <3> QED BY <1>3, <3>1 DEF Open, Latest
  <2> QED BY <2>1, <2>2
<1> QED BY <1>2, <1>3

\* Releasing takes the lease away and counts a version.
LEMMA ReleasedFields ==
    ASSUME NEW g \in Graphs, NEW status \in Statuses,
           NEW retryAt, retryAt \in Nat \/ retryAt = None,
           NEW h, h = Released(g, status, retryAt)
    PROVE  /\ h \in Graphs
           /\ h.status = status /\ h.version = g.version + 1 /\ h.epoch = g.epoch
           /\ h.token = g.token /\ h.lease = None /\ h.snapshot = g.snapshot
           /\ h.result = g.result /\ h.retryAt = retryAt /\ h.cancelled = g.cancelled
           /\ h.attempts = g.attempts /\ h.usage = g.usage /\ h.allowance = g.allowance
<1> DEFINE version == g.version + 1
<1>0. version \in Nat /\ h = [g EXCEPT !.status = status, !.lease = None, !.retryAt = retryAt,
                                     !.version = version]
  BY DEF Released, Graphs
<1> HIDE DEF version
<1>1. h \in Graphs
  BY <1>0 DEF Graphs
<1>2. /\ h.status = status /\ h.version = g.version + 1 /\ h.epoch = g.epoch
      /\ h.token = g.token /\ h.lease = None /\ h.snapshot = g.snapshot
      /\ h.result = g.result /\ h.retryAt = retryAt /\ h.cancelled = g.cancelled
      /\ h.attempts = g.attempts /\ h.usage = g.usage /\ h.allowance = g.allowance
  BY DEF Released, Graphs
<1> QED BY <1>1, <1>2

-----------------------------------------------------------------------------
(* Closing an attempt and ending or postponing the job.                    *)

\* An open credit is all that is left, so charging it stays within the limit.
LEMMA ChargedSound ==
    ASSUME NEW g, Sound(g), NEW h, h = Charged(g)
    PROVE  /\ Sound(h) /\ h.allowance = None
           /\ \A k \in Kinds : g.usage[k] <= h.usage[k]
           /\ h.usage["metadata"] = g.usage["metadata"] + Credit(g)
           /\ \A k \in Kinds \ {"metadata"} : h.usage[k] = g.usage[k]
<1>1. g \in Graphs /\ Len(g.attempts) <= MaxAttempts /\ Accepted(g)
  BY DEF Sound
<1>2. /\ h \in Graphs
      /\ h.status = g.status /\ h.version = g.version /\ h.epoch = g.epoch
      /\ h.token = g.token /\ h.lease = g.lease /\ h.snapshot = g.snapshot
      /\ h.result = g.result /\ h.retryAt = g.retryAt /\ h.cancelled = g.cancelled
      /\ h.attempts = g.attempts /\ h.allowance = None
      /\ h.usage = [g.usage EXCEPT !["metadata"] = @ + Credit(g)]
  BY <1>1, ChargedFields
<1>3. Credit(g) \in Nat /\ g.usage \in Usage /\ h.usage \in Usage
  BY <1>1, <1>2 DEF Credit, Graphs, Allowances
<1>4. /\ h.usage["metadata"] = g.usage["metadata"] + Credit(g)
      /\ \A k \in Kinds \ {"metadata"} : h.usage[k] = g.usage[k]
      /\ \A k \in Kinds : g.usage[k] <= h.usage[k]
  BY <1>2, <1>3 DEF Usage, Kinds
<1>5. StatusAgrees(h)
  BY <1>1, <1>2 DEF Accepted, StatusAgrees
<1>6. LeaseAgrees(h)
  BY <1>1, <1>2 DEF Accepted, LeaseAgrees
<1>7. UsageAgrees(h)
  <2>1. g.usage["metadata"] + Credit(g) <= Limits["metadata"]
    BY <1>1, <1>3, LimitsAssumption DEF Accepted, UsageAgrees, Credit, Usage, Kinds
  <2> QED BY <1>1, <1>2, <1>4, <2>1 DEF Accepted, UsageAgrees
<1>8. ASSUME NEW i \in 1..Len(h.attempts) PROVE AttemptAgrees(h, h.attempts[i])
  <2> DEFINE a == g.attempts[i]
  <2>1. AttemptAgrees(g, a) /\ h.attempts[i] = a
    BY <1>1, <1>2, <1>8 DEF Accepted
  <2>2. a \in Attempts
    BY <1>1, <1>2, <1>8, ElementOfSeq DEF Graphs
  <2>3. \A k \in Kinds : a.usageAtStart[k] <= h.usage[k]
    BY <1>3, <1>4, <2>1, <2>2 DEF AttemptAgrees, Attempts, Usage
  <2>4. a.closure # None => \A k \in Kinds :
          a.usageAtStart[k] <= a.usageAtClose[k] /\ a.usageAtClose[k] <= h.usage[k]
    BY <1>3, <1>4, <2>1, <2>2 DEF AttemptAgrees, Attempts, Usage
  <2> HIDE DEF a
  <2> QED BY <1>2, <2>1, <2>3, <2>4 DEF AttemptAgrees
<1> QED BY <1>1, <1>2, <1>4, <1>5, <1>6, <1>7, <1>8 DEF Sound, Accepted

\* What is left of g when its latest attempt is closed and its credit
\* charged, in the epoch it is left in.
Halted(g, k, closure) ==
    /\ k \in Graphs /\ g.epoch <= k.epoch
    /\ k.status = g.status /\ k.version = g.version /\ k.token = g.token
    /\ k.lease = g.lease /\ k.snapshot = g.snapshot /\ k.result = g.result
    /\ k.retryAt = g.retryAt /\ k.cancelled = g.cancelled /\ k.allowance = None
    /\ k.usage = Charged(g).usage
    /\ Len(k.attempts) = Len(g.attempts)
    /\ \A i \in 1..Len(g.attempts) :
         \/ k.attempts[i] = g.attempts[i] /\ ~(i = Len(g.attempts) /\ g.attempts[i].closure = None)
         \/ /\ i = Len(g.attempts) /\ g.attempts[i].closure = None
            /\ ClosedAs(g.attempts[i], k.attempts[i], closure, k.usage)

\* That is what charging and closing return.
LEMMA HaltedFields ==
    ASSUME NEW g, Sound(g), NEW closure \in Closures,
           NEW k, k = Closed(Charged(g), closure)
    PROVE  Halted(g, k, closure) /\ k.epoch = g.epoch
<1> DEFINE c == Charged(g)
<1>1. g \in Graphs /\ g.epoch \in Nat
  BY DEF Sound, Graphs
<1>2. /\ c \in Graphs
      /\ c.status = g.status /\ c.version = g.version /\ c.epoch = g.epoch
      /\ c.token = g.token /\ c.lease = g.lease /\ c.snapshot = g.snapshot
      /\ c.result = g.result /\ c.retryAt = g.retryAt /\ c.cancelled = g.cancelled
      /\ c.attempts = g.attempts /\ c.allowance = None
  BY <1>1, ChargedFields
<1> HIDE DEF c
<1>3. k = Closed(c, closure)
  BY DEF c
<1>4. /\ k \in Graphs
      /\ k.status = c.status /\ k.version = c.version /\ k.epoch = c.epoch
      /\ k.token = c.token /\ k.lease = c.lease /\ k.snapshot = c.snapshot
      /\ k.result = c.result /\ k.retryAt = c.retryAt /\ k.cancelled = c.cancelled
      /\ k.usage = c.usage /\ k.allowance = c.allowance
      /\ Len(k.attempts) = Len(c.attempts)
      /\ \A i \in 1..Len(c.attempts) :
           \/ k.attempts[i] = c.attempts[i] /\ ~(i = Len(c.attempts) /\ c.attempts[i].closure = None)
           \/ /\ i = Len(c.attempts) /\ c.attempts[i].closure = None
              /\ ClosedAs(c.attempts[i], k.attempts[i], closure, c.usage)
  BY <1>2, <1>3, ClosedFields
<1>5. g.epoch <= k.epoch /\ k.epoch = g.epoch
  BY <1>1, <1>2, <1>4
<1>6. k.usage = Charged(g).usage
  BY <1>4 DEF c
<1> QED BY <1>2, <1>4, <1>5, <1>6 DEF Halted

\* A graph that lost its lease that way is sound if its status is.
LEMMA HaltedSound ==
    ASSUME NEW g, Sound(g), NEW closure \in Closures,
           closure = "completed" => g.snapshot # None,
           NEW k, Halted(g, k, closure),
           NEW h \in Graphs, h.epoch = k.epoch, h.token = k.token, h.lease = None,
           h.snapshot = k.snapshot, h.usage = k.usage, h.allowance = None,
           h.attempts = k.attempts, StatusAgrees(h)
    PROVE  Sound(h)
<1> DEFINE n == Len(g.attempts)
<1>1. g \in Graphs /\ n <= MaxAttempts /\ Accepted(g) /\ n \in Nat /\ g.attempts \in Seq(Attempts)
  BY DEF Sound, Graphs
<1>2. /\ Sound(Charged(g))
      /\ \A k2 \in Kinds : g.usage[k2] <= h.usage[k2]
      /\ h.usage = Charged(g).usage
  BY ChargedSound DEF Halted
<1>3. UsageAgrees(h)
  BY <1>2 DEF Sound, Accepted, UsageAgrees
<1>4. Len(h.attempts) = n /\ h.attempts \in Seq(Attempts)
  BY DEF Halted, Graphs
<1>5. ASSUME NEW i \in 1..n
      PROVE  LET a == g.attempts[i] b == h.attempts[i] IN
             /\ a \in Attempts /\ b \in Attempts
             /\ b.fence = a.fence /\ b.startedAt = a.startedAt /\ b.deadline = a.deadline
             /\ b.snapshot = a.snapshot /\ b.usageAtStart = a.usageAtStart
             /\ \/ b.closure = a.closure /\ b.usageAtClose = a.usageAtClose /\ ~(i = n /\ a.closure = None)
                \/ i = n /\ b.closure = closure /\ b.usageAtClose = h.usage /\ a.closure = None
  <2>1. g.attempts[i] \in Attempts /\ h.attempts[i] \in Attempts
    BY <1>1, <1>4, <1>5, ElementOfSeq
  <2> QED BY <1>5, <2>1 DEF Halted, ClosedAs
<1>6. LeaseAgrees(h)
  <2>1. LeaseAgrees(g)
    BY <1>1 DEF Accepted
  <2>2. h.token = g.token /\ h.snapshot = g.snapshot
    BY DEF Halted
  <2>3. n > 0 => /\ h.attempts[n].fence = g.attempts[n].fence
                 /\ h.attempts[n].snapshot = g.attempts[n].snapshot
                 /\ h.attempts[n].closure # None
    BY <1>1, <1>5, NoneAssumption
  <2> QED BY <1>4, <2>1, <2>2, <2>3 DEF LeaseAgrees
<1>7. ASSUME NEW i \in 1..n PROVE AttemptAgrees(h, h.attempts[i])
  <2> DEFINE a == g.attempts[i]
             b == h.attempts[i]
  <2>1. AttemptAgrees(g, a)
    BY <1>1, <1>7 DEF Accepted
  <2>2. /\ a \in Attempts /\ b \in Attempts
        /\ b.fence = a.fence /\ b.startedAt = a.startedAt /\ b.deadline = a.deadline
        /\ b.snapshot = a.snapshot /\ b.usageAtStart = a.usageAtStart
        /\ \/ b.closure = a.closure /\ b.usageAtClose = a.usageAtClose /\ ~(i = n /\ a.closure = None)
           \/ i = n /\ b.closure = closure /\ b.usageAtClose = h.usage /\ a.closure = None
    BY <1>5, <1>7
  <2>3. g.usage \in Usage /\ h.usage \in Usage /\ g.epoch \in Nat /\ h.epoch \in Nat
    BY <1>1 DEF Graphs
  <2>4. a.fence.epoch \in Nat /\ a.usageAtStart \in Usage /\ g.epoch <= h.epoch
    BY <2>2 DEF Attempts, Fences, Halted
  <2> HIDE DEF a, b
  <2>5. b.fence.epoch <= h.epoch
    BY <2>1, <2>2, <2>3, <2>4 DEF AttemptAgrees
  <2>6. \A k2 \in Kinds : b.usageAtStart[k2] <= h.usage[k2]
    BY <1>2, <2>1, <2>2, <2>3, <2>4 DEF AttemptAgrees, Usage
  <2>7. b.deadline = UpTo(b.startedAt, AttemptTimeout, Deadline) /\ b.startedAt < b.deadline
    BY <2>1, <2>2 DEF AttemptAgrees
  <2>8. CASE b.closure = a.closure /\ b.usageAtClose = a.usageAtClose
    <3>1. a.closure # None => a.usageAtClose \in Usage
      BY <2>1, <2>2 DEF AttemptAgrees, Attempts
    <3>2. b.closure # None => \A k2 \in Kinds :
            b.usageAtStart[k2] <= b.usageAtClose[k2] /\ b.usageAtClose[k2] <= h.usage[k2]
      BY <1>2, <2>1, <2>2, <2>3, <2>8, <3>1 DEF AttemptAgrees, Usage
    <3> QED BY <2>1, <2>2, <2>5, <2>6, <2>7, <2>8, <3>2 DEF AttemptAgrees, b
  <2>9. CASE i = n /\ b.closure = closure /\ b.usageAtClose = h.usage /\ a.closure = None
    <3>1. b.closure # None /\ b.usageAtClose # None
      BY <2>3, <2>9, NoneAssumption
    <3>2. \A k2 \in Kinds :
            b.usageAtStart[k2] <= b.usageAtClose[k2] /\ b.usageAtClose[k2] <= h.usage[k2]
      BY <2>3, <2>6, <2>9 DEF Usage
    <3>3. b.closure = "completed" => b.snapshot # None
      <4>1. LeaseAgrees(g) /\ n > 0
        BY <1>1, <1>7 DEF Accepted
      <4> QED BY <2>2, <2>9, <4>1 DEF LeaseAgrees, a
    <3> QED BY <2>5, <2>6, <2>7, <3>1, <3>2, <3>3 DEF AttemptAgrees, b
  <2> QED BY <2>2, <2>8, <2>9
<1>8. ASSUME NEW i \in 1..(n - 1) PROVE AttemptFollows(h.attempts[i], h.attempts[i + 1])
  <2>1. AttemptFollows(g.attempts[i], g.attempts[i + 1]) /\ i \in 1..n /\ i + 1 \in 1..n /\ i # n
    BY <1>1, <1>8 DEF Accepted
  <2>2. /\ h.attempts[i].fence = g.attempts[i].fence
        /\ h.attempts[i].snapshot = g.attempts[i].snapshot
        /\ h.attempts[i].closure = g.attempts[i].closure
        /\ h.attempts[i].usageAtClose = g.attempts[i].usageAtClose
    BY <1>5, <2>1
  <2>3. /\ h.attempts[i + 1].fence = g.attempts[i + 1].fence
        /\ h.attempts[i + 1].snapshot = g.attempts[i + 1].snapshot
        /\ h.attempts[i + 1].usageAtStart = g.attempts[i + 1].usageAtStart
    BY <1>5, <2>1
  <2> QED BY <2>1, <2>2, <2>3 DEF AttemptFollows
<1>9. Accepted(h)
  BY <1>3, <1>4, <1>6, <1>7, <1>8 DEF Accepted
<1> QED BY <1>1, <1>4, <1>9 DEF Sound

-----------------------------------------------------------------------------
(* The transitions that take the lease away.                               *)

\* What all of them have in common: nobody holds the job, its credit is
\* charged in full, and a job that had any is over.
Ends(g, h, e) ==
    /\ Sound(h) /\ h.version = g.version + 1 /\ h.epoch = e
    /\ h.lease = None /\ h.allowance = None /\ h.snapshot = g.snapshot
    /\ h.usage = Charged(g).usage
    /\ g.allowance # None => Terminal(h)

\* A graph ends in any status that needs nothing else.
LEMMA ReleasedEnds ==
    ASSUME NEW g, Sound(g), ~Terminal(g), NEW closure \in Closures \ {"completed"},
           NEW k, Halted(g, k, closure),
           NEW status \in {"failed", "timed_out", "budget_exhausted"},
           NEW h, h = Released(k, status, None)
    PROVE  Ends(g, h, k.epoch) /\ Terminal(h)
<1>1. k \in Graphs /\ status \in Statuses
  BY DEF Halted, Statuses, Terminals
<1>2. /\ h \in Graphs
      /\ h.status = status /\ h.version = k.version + 1 /\ h.epoch = k.epoch
      /\ h.token = k.token /\ h.lease = None /\ h.snapshot = k.snapshot
      /\ h.result = k.result /\ h.retryAt = None /\ h.cancelled = k.cancelled
      /\ h.attempts = k.attempts /\ h.usage = k.usage /\ h.allowance = k.allowance
  BY <1>1, ReleasedFields
<1>3. Terminal(h) /\ h.status \notin {"completed", "cancelled", "queued", "retry_ready"} \cup Active
  BY <1>2 DEF Terminal, Terminals, Active
<1>4. StatusAgrees(h)
  <2>1. StatusAgrees(g)
    BY DEF Sound, Accepted
  <2>2. h.result = None /\ ~h.cancelled
    BY <1>2, <2>1 DEF Halted, StatusAgrees, Terminal, Terminals
  <2> QED BY <1>2, <1>3, <2>2 DEF StatusAgrees, Active
<1>5. Sound(h)
  BY <1>2, <1>4, HaltedSound DEF Halted
<1> QED BY <1>2, <1>3, <1>5 DEF Halted, Ends

\* A job that was claimed and has attempts left is put back.
LEMMA ReleasedWaits ==
    ASSUME NEW g, Sound(g), ~Terminal(g), NEW closure \in Closures \ {"completed"},
           NEW k, Halted(g, k, closure), g.allowance = None,
           Len(g.attempts) > 0, Len(g.attempts) < MaxAttempts,
           NEW retryAt \in Nat, retryAt < Deadline,
           NEW h, h = Released(k, "retry_ready", retryAt)
    PROVE  Ends(g, h, k.epoch) /\ ~Terminal(h)
<1>1. k \in Graphs /\ "retry_ready" \in Statuses
  BY DEF Halted, Statuses
<1>2. /\ h \in Graphs
      /\ h.status = "retry_ready" /\ h.version = k.version + 1 /\ h.epoch = k.epoch
      /\ h.token = k.token /\ h.lease = None /\ h.snapshot = k.snapshot
      /\ h.result = k.result /\ h.retryAt = retryAt /\ h.cancelled = k.cancelled
      /\ h.attempts = k.attempts /\ h.usage = k.usage /\ h.allowance = k.allowance
  BY <1>1, ReleasedFields
<1>3. ~Terminal(h)
  BY <1>2 DEF Terminal, Terminals
<1>4. StatusAgrees(h)
  <2>1. StatusAgrees(g)
    BY DEF Sound, Accepted
  <2>2. h.result = None /\ ~h.cancelled
    BY <1>2, <2>1 DEF Halted, StatusAgrees, Terminal, Terminals
  <2>3. h.retryAt # None /\ Len(h.attempts) = Len(g.attempts)
    BY <1>2, NoneAssumption DEF Halted
  <2> QED BY <1>2, <2>2, <2>3 DEF StatusAgrees, Active
<1>5. Sound(h)
  BY <1>2, <1>4, HaltedSound DEF Halted
<1> QED BY <1>2, <1>3, <1>5 DEF Halted, Ends

\* The retry decision of interruption, reclaim and recovery.
LEMMA RetriedEnds ==
    ASSUME NEW g, Sound(g), g.status \in Active, g.allowance = None,
           NEW closure \in Closures \ {"completed"}, NEW k, Halted(g, k, closure),
           NEW t \in Nat, NEW reason, NEW h, h = Retried(k, t, reason)
    PROVE  Ends(g, h, k.epoch)
<1> DEFINE retryAt == UpTo(t, Backoff, Deadline)
<1>1. retryAt \in Nat /\ Deadline \in Nat
  BY LimitsAssumption DEF UpTo
<1>2. ~Terminal(g)
  BY DEF Terminal, Terminals, Active
<1>3. Len(g.attempts) > 0
  BY DEF Sound, Accepted, StatusAgrees, LeaseAgrees
<1>4. Len(k.attempts) = Len(g.attempts) /\ Len(g.attempts) \in Nat /\ MaxAttempts \in Nat
  BY LimitsAssumption DEF Halted, Sound, Graphs
<1> HIDE DEF retryAt
<1>5. CASE h = Released(k, "failed", None)
  BY <1>2, <1>5, ReleasedEnds
<1>6. CASE h = Released(k, "retry_ready", retryAt) /\ retryAt < Deadline /\ Len(g.attempts) < MaxAttempts
  BY <1>1, <1>2, <1>3, <1>6, ReleasedWaits
<1>7. \/ h = Released(k, "failed", None)
      \/ h = Released(k, "retry_ready", retryAt) /\ retryAt < Deadline /\ Len(g.attempts) < MaxAttempts
  BY <1>1, <1>4 DEF Retried, retryAt
<1> QED BY <1>5, <1>6, <1>7

\* exhaustPolicyEvaluationJobHistory.
LEMMA HistoryExhaustedEnds ==
    ASSUME NEW g, Sound(g), ~Terminal(g), NEW h, h = HistoryExhausted(g)
    PROVE  Ends(g, h, g.epoch) /\ Terminal(h)
<1>1. "budget_exhausted" \in Closures \ {"completed"}
  BY DEF Closures, Terminals
<1>2. /\ Halted(g, Closed(Charged(g), "budget_exhausted"), "budget_exhausted")
      /\ Closed(Charged(g), "budget_exhausted").epoch = g.epoch
  BY <1>1, HaltedFields
<1> QED BY <1>1, <1>2, ReleasedEnds DEF HistoryExhausted

\* interruptPolicyEvaluationJob.
LEMMA InterruptedEnds ==
    ASSUME NEW g, Sound(g), g.status \in Active, NEW t \in Nat, NEW reason,
           NEW h, h = Interrupted(g, t, reason)
    PROVE  Ends(g, h, g.epoch)
<1> DEFINE k == Closed(Charged(g), "interrupted")
<1>1. "interrupted" \in Closures \ {"completed"} /\ ~Terminal(g)
  BY DEF Closures, Terminal, Terminals, Active
<1>2. Halted(g, k, "interrupted") /\ k.epoch = g.epoch
  BY <1>1, HaltedFields
<1>3. h = IF g.allowance # None THEN Released(k, "budget_exhausted", None) ELSE Retried(k, t, reason)
  BY DEF Interrupted
<1> HIDE DEF k
<1>4. CASE g.allowance # None
  BY <1>1, <1>2, <1>3, <1>4, ReleasedEnds
<1>5. CASE g.allowance = None
  BY <1>1, <1>2, <1>3, <1>5, RetriedEnds
<1> QED BY <1>4, <1>5

\* reclaimPolicyEvaluationJob.
LEMMA ReclaimedEnds ==
    ASSUME NEW g, Sound(g), NEW t \in Nat, NEW epochOf, MayReclaim(g, t, epochOf),
           NEW h, h = Reclaimed(g, t)
    PROVE  Ends(g, h, g.epoch)
<1>1. ~Terminal(g) /\ (t < Deadline => g.status \in Active)
  BY LimitsAssumption DEF MayReclaim, Sound, Accepted, StatusAgrees
<1>2. CASE t >= Deadline
  <2> DEFINE k == Closed(Charged(g), "timed_out")
  <2>1. "timed_out" \in Closures \ {"completed"}
    BY DEF Closures, Terminals
  <2>2. Halted(g, k, "timed_out") /\ k.epoch = g.epoch
    BY <2>1, HaltedFields
  <2>3. h = Released(k, "timed_out", None)
    BY <1>2 DEF Reclaimed
  <2> HIDE DEF k
  <2> QED BY <1>1, <2>1, <2>2, <2>3, ReleasedEnds
<1>3. CASE t < Deadline
  <2> DEFINE k == Closed(Charged(g), "interrupted")
  <2>1. "interrupted" \in Closures \ {"completed"}
    BY DEF Closures
  <2>2. Halted(g, k, "interrupted") /\ k.epoch = g.epoch
    BY <2>1, HaltedFields
  <2>3. ~(t >= Deadline)
    BY <1>3, LimitsAssumption
  <2>4. h = IF g.allowance # None THEN Released(k, "budget_exhausted", None)
            ELSE Retried(k, t, "lease_expired")
    BY <2>3 DEF Reclaimed
  <2> HIDE DEF k
  <2>5. CASE g.allowance # None
    BY <1>1, <2>1, <2>2, <2>4, <2>5, ReleasedEnds
  <2>6. CASE g.allowance = None
    BY <1>1, <1>3, <2>1, <2>2, <2>4, <2>6, RetriedEnds
  <2> QED BY <2>5, <2>6
<1> QED BY <1>2, <1>3, LimitsAssumption

\* recoverPolicyEvaluationJob: a job nobody holds only changes its epoch.
LEMMA RecoveredEnds ==
    ASSUME NEW g, Good(g), NEW t \in Nat, NEW e \in Nat, MayRecover(g, e),
           NEW h, h = Recovered(g, t, e)
    PROVE  Ends(g, h, e) /\ Good(h)
<1> DEFINE closure == IF t >= Deadline THEN "timed_out"
                      ELSE IF g.version = MaxHistory - 1 THEN "budget_exhausted" ELSE "interrupted"
           c == Closed(Charged(g), closure)
           k == [c EXCEPT !.epoch = e]
<1>1. Sound(g) /\ ~Terminal(g) /\ g.epoch < e /\ g.version < MaxHistory /\ g \in Graphs
  BY DEF Good, Sound, MayRecover, Graphs
<1>2. closure \in Closures \ {"completed"}
  BY DEF Closures, Terminals
<1>3. /\ h = IF t >= Deadline THEN Released(k, "timed_out", None)
             ELSE IF g.version = MaxHistory - 1 \/ g.allowance # None
                  THEN Released(k, "budget_exhausted", None)
             ELSE IF g.lease # None THEN Retried(k, t, "worker_interrupted")
             ELSE [k EXCEPT !.version = @ + 1,
                            !.retryAt = IF g.retryAt # None /\ g.retryAt < t THEN t ELSE @]
  BY DEF Recovered
<1> HIDE DEF closure
<1>4. Halted(g, c, closure)
  BY <1>1, <1>2, HaltedFields
<1> HIDE DEF c
<1>5. Halted(g, k, closure) /\ k.epoch = e
  <2>1. k \in Graphs /\ k.epoch = e
    BY <1>4 DEF Halted, Graphs
  <2>2. /\ k.status = c.status /\ k.version = c.version
        /\ k.token = c.token /\ k.lease = c.lease /\ k.snapshot = c.snapshot
        /\ k.result = c.result /\ k.retryAt = c.retryAt /\ k.cancelled = c.cancelled
        /\ k.usage = c.usage /\ k.allowance = c.allowance /\ k.attempts = c.attempts
    BY <1>4 DEF Halted, Graphs
  <2>3. g.epoch <= k.epoch
    BY <1>1, <2>1 DEF Graphs
  <2> HIDE DEF k
  <2> QED BY <1>4, <2>1, <2>2, <2>3 DEF Halted
<1> HIDE DEF k
<1>6. /\ g.version \in Nat /\ g.retryAt \in Nat \cup {None} /\ Deadline \in Nat /\ MaxHistory \in Nat
      /\ k \in Graphs
  BY <1>1, <1>5, LimitsAssumption DEF Graphs, Halted
<1>7. ASSUME NEW status \in {"timed_out", "budget_exhausted"}, h = Released(k, status, None)
      PROVE  Ends(g, h, e) /\ Good(h)
  <2>1. Ends(g, h, k.epoch) /\ Terminal(h)
    BY <1>1, <1>2, <1>5, <1>7, ReleasedEnds
  <2>2. h.version <= MaxHistory
    BY <1>1, <1>6, <2>1 DEF Ends
  <2> QED BY <1>5, <2>1, <2>2 DEF Ends, Good
<1>8. ASSUME ~(t >= Deadline), g.version # MaxHistory - 1, g.allowance = None, g.lease # None,
             h = Retried(k, t, "worker_interrupted")
      PROVE  Ends(g, h, e) /\ Good(h)
  <2>1. g.status \in Active
    BY <1>1, <1>8 DEF Sound, Accepted, StatusAgrees
  <2>2. Ends(g, h, k.epoch)
    BY <1>1, <1>2, <1>5, <1>8, <2>1, RetriedEnds
  <2>3. h.version < MaxHistory
    BY <1>1, <1>6, <1>8, <2>2 DEF Ends
  <2> QED BY <1>5, <1>6, <2>2, <2>3 DEF Ends, Good, Sound, Graphs
<1>9. ASSUME ~(t >= Deadline), g.version # MaxHistory - 1, g.allowance = None, g.lease = None,
             h = [k EXCEPT !.version = @ + 1,
                           !.retryAt = IF g.retryAt # None /\ g.retryAt < t THEN t ELSE @]
      PROVE  Ends(g, h, e) /\ Good(h)
  <2> DEFINE retryAt == IF g.retryAt # None /\ g.retryAt < t THEN t ELSE k.retryAt
             version == k.version + 1
  <2>1. /\ retryAt \in Nat \cup {None} /\ version \in Nat /\ version = g.version + 1
        /\ retryAt = None <=> g.retryAt = None
        /\ retryAt # None => retryAt < Deadline
    <3>1. g.retryAt # None => g.retryAt < Deadline
      BY <1>1 DEF Sound, Accepted, StatusAgrees
    <3> QED BY <1>5, <1>6, <1>9, <3>1, NoneAssumption DEF Halted
  <2>2. h = [k EXCEPT !.version = version, !.retryAt = retryAt]
    BY <1>9
  <2> HIDE DEF retryAt, version
  <2>3. h \in Graphs
    BY <1>6, <2>1, <2>2 DEF Graphs
  <2>4. /\ h.status = k.status /\ h.version = version /\ h.epoch = k.epoch
        /\ h.token = k.token /\ h.lease = k.lease /\ h.snapshot = k.snapshot
        /\ h.result = k.result /\ h.retryAt = retryAt /\ h.cancelled = k.cancelled
        /\ h.usage = k.usage /\ h.allowance = k.allowance /\ h.attempts = k.attempts
    BY <1>6, <2>2 DEF Graphs
  <2>5. StatusAgrees(h)
    <3>1. StatusAgrees(g) /\ g.status # "completed"
      BY <1>1 DEF Sound, Accepted, Terminal, Terminals
    <3> QED BY <1>5, <2>1, <2>4, <3>1 DEF Halted, StatusAgrees
  <2>6. Sound(h)
    <3>1. h.lease = None /\ h.allowance = None
      BY <1>5, <1>9, <2>4 DEF Halted
    <3>2. closure \in Closures /\ closure # "completed"
      BY <1>2
    <3> QED BY <1>1, <1>5, <2>3, <2>4, <2>5, <3>1, <3>2, HaltedSound
  <2>7. Ends(g, h, e)
    BY <1>5, <1>9, <2>1, <2>4, <2>6 DEF Ends, Halted
  <2>8. h.version < MaxHistory
    BY <1>1, <1>6, <1>9, <2>7 DEF Ends
  <2> QED BY <1>6, <2>3, <2>6, <2>7, <2>8 DEF Good, Graphs
<1>10. CASE t >= Deadline
  BY <1>3, <1>7, <1>10
<1>11. CASE ~(t >= Deadline) /\ (g.version = MaxHistory - 1 \/ g.allowance # None)
  BY <1>3, <1>7, <1>11
<1>12. CASE ~(t >= Deadline) /\ ~(g.version = MaxHistory - 1 \/ g.allowance # None) /\ g.lease # None
  BY <1>3, <1>8, <1>12
<1>13. CASE ~(t >= Deadline) /\ ~(g.version = MaxHistory - 1 \/ g.allowance # None) /\ g.lease = None
  BY <1>3, <1>9, <1>13
<1> QED BY <1>10, <1>11, <1>12, <1>13

\* cancelPolicyEvaluationJob.
LEMMA CancelledEnds ==
    ASSUME NEW g, Sound(g), ~Terminal(g), NEW h, h = Cancelled(g)
    PROVE  Ends(g, h, g.epoch) /\ Terminal(h)
<1> DEFINE k == Closed(Charged(g), "cancelled")
           r == Released(k, "cancelled", None)
<1>1. "cancelled" \in Closures \ {"completed"} /\ "cancelled" \in Statuses
  BY DEF Closures, Statuses, Terminals
<1>2. Halted(g, k, "cancelled") /\ k.epoch = g.epoch
  BY <1>1, HaltedFields
<1>3. h = [r EXCEPT !.cancelled = TRUE]
  BY DEF Cancelled
<1> HIDE DEF k
<1>4. k \in Graphs
  BY <1>2 DEF Halted
<1>5. /\ r \in Graphs
      /\ r.status = "cancelled" /\ r.version = k.version + 1 /\ r.epoch = k.epoch
      /\ r.token = k.token /\ r.lease = None /\ r.snapshot = k.snapshot
      /\ r.result = k.result /\ r.retryAt = None /\ r.cancelled = k.cancelled
      /\ r.attempts = k.attempts /\ r.usage = k.usage /\ r.allowance = k.allowance
  BY <1>1, <1>4, ReleasedFields
<1> HIDE DEF r
<1>6. h \in Graphs
  BY <1>3, <1>5 DEF Graphs
<1>7. /\ h.status = "cancelled" /\ h.version = k.version + 1 /\ h.epoch = k.epoch
      /\ h.token = k.token /\ h.lease = None /\ h.snapshot = k.snapshot
      /\ h.result = k.result /\ h.retryAt = None /\ h.cancelled = TRUE
      /\ h.attempts = k.attempts /\ h.usage = k.usage /\ h.allowance = k.allowance
  BY <1>3, <1>5 DEF Graphs
<1>8. StatusAgrees(h)
  <2>1. StatusAgrees(g) /\ g.status # "completed"
    BY DEF Sound, Accepted, Terminal, Terminals
  <2>2. h.result = None
    BY <1>2, <1>7, <2>1 DEF Halted, StatusAgrees
  <2> QED BY <1>7, <2>2 DEF StatusAgrees, Active
<1>9. Sound(h)
  BY <1>1, <1>2, <1>6, <1>7, <1>8, HaltedSound DEF Halted
<1>10. Terminal(h)
  BY <1>7 DEF Terminal, Terminals
<1> QED BY <1>2, <1>7, <1>9, <1>10 DEF Halted, Ends

\* Without a credit there is nothing to charge.
LEMMA NothingToCharge ==
    ASSUME NEW g \in Graphs, g.allowance = None
    PROVE  Charged(g).usage = g.usage
<1>1. Credit(g) = 0 /\ g.usage \in Usage
  BY DEF Credit, Graphs
<1>2. Charged(g).usage = [g.usage EXCEPT !["metadata"] = @ + Credit(g)]
  BY ChargedFields
<1> QED BY <1>1, <1>2 DEF Usage, Kinds

\* completePolicyEvaluationJob: the result is the evaluation of the sealed
\* snapshot.
LEMMA CompletedEnds ==
    ASSUME NEW g, Sound(g), g.status = "running", NEW h, h = Completed(g)
    PROVE  Ends(g, h, g.epoch) /\ Terminal(h)
<1> DEFINE k == Closed(g, "completed")
           r == Released(k, "completed", None)
<1>1. /\ "completed" \in Closures /\ "completed" \in Statuses /\ g \in Graphs
      /\ StatusAgrees(g) /\ UsageAgrees(g) /\ LeaseAgrees(g)
  BY DEF Closures, Statuses, Terminals, Sound, Accepted
<1>2. /\ g.allowance = None /\ g.snapshot # None /\ g.lease # None /\ ~g.cancelled
      /\ Charged(g).usage = g.usage
  BY <1>1, NothingToCharge DEF UsageAgrees, StatusAgrees, Active
<1>3. h = [r EXCEPT !.result = g.snapshot]
  BY DEF Completed
<1>4. /\ k \in Graphs
      /\ k.status = g.status /\ k.version = g.version /\ k.epoch = g.epoch
      /\ k.token = g.token /\ k.lease = g.lease /\ k.snapshot = g.snapshot
      /\ k.result = g.result /\ k.retryAt = g.retryAt /\ k.cancelled = g.cancelled
      /\ k.usage = g.usage /\ k.allowance = g.allowance
      /\ Len(k.attempts) = Len(g.attempts)
      /\ \A i \in 1..Len(g.attempts) :
           \/ k.attempts[i] = g.attempts[i] /\ ~(i = Len(g.attempts) /\ g.attempts[i].closure = None)
           \/ /\ i = Len(g.attempts) /\ g.attempts[i].closure = None
              /\ ClosedAs(g.attempts[i], k.attempts[i], "completed", g.usage)
  BY <1>1, ClosedFields
<1> HIDE DEF k
<1>5. Halted(g, k, "completed")
  <2>1. g.epoch <= k.epoch
    BY <1>1, <1>4 DEF Graphs
  <2> QED BY <1>2, <1>4, <2>1 DEF Halted
<1>6. /\ r \in Graphs
      /\ r.status = "completed" /\ r.version = k.version + 1 /\ r.epoch = k.epoch
      /\ r.token = k.token /\ r.lease = None /\ r.snapshot = k.snapshot
      /\ r.result = k.result /\ r.retryAt = None /\ r.cancelled = k.cancelled
      /\ r.attempts = k.attempts /\ r.usage = k.usage /\ r.allowance = k.allowance
  BY <1>1, <1>4, ReleasedFields
<1> HIDE DEF r
<1>7. h \in Graphs
  BY <1>1, <1>3, <1>6 DEF Graphs
<1>8. /\ h.status = "completed" /\ h.version = k.version + 1 /\ h.epoch = k.epoch
      /\ h.token = k.token /\ h.lease = None /\ h.snapshot = k.snapshot
      /\ h.result = g.snapshot /\ h.retryAt = None /\ h.cancelled = k.cancelled
      /\ h.attempts = k.attempts /\ h.usage = k.usage /\ h.allowance = k.allowance
  BY <1>3, <1>6 DEF Graphs
<1>9. StatusAgrees(h)
  <2> DEFINE n == Len(g.attempts)
  <2>1. n \in Nat /\ n > 0 /\ g.attempts[n].closure = None
    BY <1>1, <1>2 DEF LeaseAgrees, Graphs
  <2>2. Len(h.attempts) = n /\ h.attempts[n].closure = "completed"
    BY <1>4, <1>8, <2>1 DEF ClosedAs
  <2> HIDE DEF n
  <2> QED BY <1>2, <1>4, <1>8, <2>1, <2>2 DEF StatusAgrees, Active
<1>10. Sound(h)
  <2>1. h.allowance = None
    BY <1>2, <1>4, <1>8
  <2> QED BY <1>1, <1>2, <1>5, <1>7, <1>8, <1>9, <2>1, HaltedSound
<1>11. Terminal(h)
  BY <1>8 DEF Terminal, Terminals
<1> QED BY <1>2, <1>4, <1>8, <1>10, <1>11 DEF Ends

-----------------------------------------------------------------------------
(* The transitions of the worker that holds the lease.                     *)

\* A graph that keeps its attempts is sound if its own columns agree.
LEMMA KeptSound ==
    ASSUME NEW g, Sound(g), NEW h \in Graphs,
           h.attempts = g.attempts, h.epoch = g.epoch, h.token = g.token,
           h.snapshot = g.snapshot, \A k \in Kinds : g.usage[k] <= h.usage[k],
           StatusAgrees(h), LeaseAgrees(h), UsageAgrees(h)
    PROVE  Sound(h)
<1>1. g \in Graphs /\ Len(g.attempts) <= MaxAttempts /\ Accepted(g)
      /\ g.usage \in Usage /\ h.usage \in Usage
  BY DEF Sound, Graphs
<1>2. ASSUME NEW i \in 1..Len(h.attempts) PROVE AttemptAgrees(h, h.attempts[i])
  <2> DEFINE a == g.attempts[i]
  <2>1. AttemptAgrees(g, a) /\ h.attempts[i] = a
    BY <1>1, <1>2 DEF Accepted
  <2>2. a \in Attempts
    BY <1>1, <1>2, ElementOfSeq DEF Graphs
  <2>3. \A k \in Kinds : a.usageAtStart[k] <= h.usage[k]
    BY <1>1, <2>1, <2>2 DEF AttemptAgrees, Attempts, Usage
  <2>4. a.closure # None => \A k \in Kinds :
          a.usageAtStart[k] <= a.usageAtClose[k] /\ a.usageAtClose[k] <= h.usage[k]
    BY <1>1, <2>1, <2>2 DEF AttemptAgrees, Attempts, Usage
  <2> HIDE DEF a
  <2> QED BY <2>1, <2>3, <2>4 DEF AttemptAgrees
<1> QED BY <1>1, <1>2 DEF Sound, Accepted

\* What they have in common: the holder, its attempt and its credit stay.
Goes(g, h) ==
    /\ Sound(h) /\ h.version = g.version + 1 /\ h.epoch = g.epoch
    /\ h.lease # None /\ h.lease.fence = g.lease.fence
    /\ h.attempts = g.attempts /\ h.snapshot = g.snapshot
    /\ h.usage["metadata"] = g.usage["metadata"]
    /\ \A k \in Kinds : g.usage[k] <= h.usage[k]

\* heartbeatPolicyEvaluationJob.
LEMMA HeartbeatenGoes ==
    ASSUME NEW g, Sound(g), g.status \in Active, NEW t \in Nat,
           NEW h, h = Heartbeaten(g, t)
    PROVE  Goes(g, h) /\ h.allowance = g.allowance
<1> DEFINE expiresAt == UpTo(t, LeaseDuration, g.lease.attemptDeadline)
           lease == [g.lease EXCEPT !.heartbeatAt = t, !.expiresAt = expiresAt]
           version == g.version + 1
<1>1. /\ g \in Graphs /\ StatusAgrees(g) /\ LeaseAgrees(g) /\ UsageAgrees(g)
      /\ g.usage \in Usage
  BY DEF Sound, Accepted, Graphs
<1>2. g.lease \in Leases /\ version \in Nat
  BY <1>1 DEF StatusAgrees, Graphs
<1>3. expiresAt \in Nat /\ expiresAt <= t + LeaseDuration
  BY <1>2, LimitsAssumption DEF UpTo, Leases
<1> HIDE DEF expiresAt
<1>4. /\ lease \in Leases /\ lease.fence = g.lease.fence
      /\ lease.attemptDeadline = g.lease.attemptDeadline
      /\ lease.expiresAt <= lease.heartbeatAt + LeaseDuration
  BY <1>2, <1>3 DEF Leases
<1>5. lease # None
  BY <1>4, NoneAssumption
<1>6. h = [g EXCEPT !.lease = lease, !.version = version]
  BY <1>1 DEF Heartbeaten, expiresAt, Graphs
<1> HIDE DEF lease, version
<1>7. h \in Graphs
  BY <1>1, <1>2, <1>4, <1>6 DEF Graphs
<1>8. /\ h.status = g.status /\ h.version = version /\ h.epoch = g.epoch
      /\ h.token = g.token /\ h.lease = lease /\ h.snapshot = g.snapshot
      /\ h.result = g.result /\ h.retryAt = g.retryAt /\ h.cancelled = g.cancelled
      /\ h.attempts = g.attempts /\ h.usage = g.usage /\ h.allowance = g.allowance
  BY <1>1, <1>6 DEF Graphs
<1>9. StatusAgrees(h)
  BY <1>1, <1>5, <1>8 DEF StatusAgrees
<1>10. LeaseAgrees(h)
  <2>1. g.lease # None
    BY <1>1 DEF StatusAgrees
  <2> QED BY <1>1, <1>4, <1>5, <1>8, <2>1 DEF LeaseAgrees
<1>11. UsageAgrees(h)
  BY <1>1, <1>4, <1>8 DEF UsageAgrees
<1>12. \A k \in Kinds : g.usage[k] <= h.usage[k]
  BY <1>1, <1>8 DEF Usage
<1>13. Sound(h)
  BY <1>7, <1>8, <1>9, <1>10, <1>11, <1>12, KeptSound
<1> QED BY <1>4, <1>5, <1>8, <1>12, <1>13 DEF Goes, version

\* reservePolicyEvaluationUsage, for what is not covered by the credit.
LEMMA ReservedGoes ==
    ASSUME NEW g, Sound(g), g.status \in Active, NEW kind \in Kinds \ {"metadata"},
           NEW amount \in Nat, g.usage[kind] + amount <= Limits[kind],
           NEW h, h = Reserved(g, kind, amount)
    PROVE  /\ Goes(g, h) /\ h.allowance = g.allowance
           /\ h.usage[kind] = g.usage[kind] + amount
<1> DEFINE usage == [g.usage EXCEPT ![kind] = @ + amount]
           version == g.version + 1
<1>1. /\ g \in Graphs /\ StatusAgrees(g) /\ LeaseAgrees(g) /\ UsageAgrees(g)
      /\ g.usage \in Usage
  BY DEF Sound, Accepted, Graphs
<1>2. version \in Nat
  BY <1>1 DEF Graphs
<1>3. /\ usage \in Usage /\ usage[kind] = g.usage[kind] + amount
      /\ \A k \in Kinds \ {kind} : usage[k] = g.usage[k]
  BY <1>1 DEF Usage
<1>4. h = [g EXCEPT !.usage = usage, !.version = version]
  BY <1>1 DEF Reserved, Graphs
<1> HIDE DEF usage, version
<1>5. h \in Graphs
  BY <1>1, <1>2, <1>3, <1>4 DEF Graphs
<1>6. /\ h.status = g.status /\ h.version = version /\ h.epoch = g.epoch
      /\ h.token = g.token /\ h.lease = g.lease /\ h.snapshot = g.snapshot
      /\ h.result = g.result /\ h.retryAt = g.retryAt /\ h.cancelled = g.cancelled
      /\ h.attempts = g.attempts /\ h.usage = usage /\ h.allowance = g.allowance
  BY <1>1, <1>4 DEF Graphs
<1>7. /\ \A k \in Kinds : g.usage[k] <= usage[k] /\ usage[k] <= Limits[k]
      /\ usage["metadata"] = g.usage["metadata"]
  BY <1>1, <1>3 DEF Usage, UsageAgrees, Kinds
<1>8. StatusAgrees(h) /\ LeaseAgrees(h)
  BY <1>1, <1>6 DEF StatusAgrees, LeaseAgrees
<1>9. UsageAgrees(h)
  BY <1>1, <1>6, <1>7 DEF UsageAgrees
<1>10. Sound(h)
  BY <1>5, <1>6, <1>7, <1>8, <1>9, KeptSound
<1>11. h.lease # None
  BY <1>1, <1>6 DEF StatusAgrees
<1> QED BY <1>3, <1>6, <1>7, <1>10, <1>11 DEF Goes, version

\* reservePolicyEvaluationAcquisition: what is left becomes the credit.
LEMMA AcquisitionReservedGoes ==
    ASSUME NEW g, Sound(g), g.status = "acquiring", g.allowance = None,
           Limits["metadata"] - g.usage["metadata"] >= 1,
           NEW fence, fence = g.lease.fence, NEW h, h = AcquisitionReserved(g, fence)
    PROVE  /\ Goes(g, h) /\ h.allowance # None /\ h.allowance.fence = fence
           /\ h.allowance.credit \in Nat
           /\ g.usage["metadata"] + h.allowance.credit = Limits["metadata"]
           /\ h.lease = g.lease /\ h.usage = g.usage
<1> DEFINE credit == Limits["metadata"] - g.usage["metadata"]
           allowance == [fence |-> fence, credit |-> credit]
           version == g.version + 1
<1>1. /\ g \in Graphs /\ StatusAgrees(g) /\ LeaseAgrees(g) /\ UsageAgrees(g)
      /\ g.usage \in Usage
  BY DEF Sound, Accepted, Graphs
<1>2. version \in Nat /\ g.lease \in Leases /\ g.lease # None
  BY <1>1 DEF Graphs, StatusAgrees, Active
<1>3. credit \in Nat /\ credit > 0 /\ g.usage["metadata"] + credit = Limits["metadata"]
  BY <1>1, LimitsAssumption DEF Usage, Kinds
<1> HIDE DEF credit
<1>4. allowance \in Allowances /\ allowance.fence = fence /\ allowance.credit = credit
  BY <1>2, <1>3 DEF Allowances, Leases
<1>5. h = [g EXCEPT !.allowance = allowance, !.version = version]
  BY <1>1 DEF AcquisitionReserved, credit, Graphs
<1> HIDE DEF allowance, version
<1>6. h \in Graphs /\ allowance # None
  BY <1>1, <1>2, <1>4, <1>5, NoneAssumption DEF Graphs
<1>7. /\ h.status = g.status /\ h.version = version /\ h.epoch = g.epoch
      /\ h.token = g.token /\ h.lease = g.lease /\ h.snapshot = g.snapshot
      /\ h.result = g.result /\ h.retryAt = g.retryAt /\ h.cancelled = g.cancelled
      /\ h.attempts = g.attempts /\ h.usage = g.usage /\ h.allowance = allowance
  BY <1>1, <1>5 DEF Graphs
<1>8. StatusAgrees(h) /\ LeaseAgrees(h)
  BY <1>1, <1>7 DEF StatusAgrees, LeaseAgrees
<1>9. UsageAgrees(h)
  BY <1>1, <1>3, <1>4, <1>7 DEF UsageAgrees
<1>10. \A k \in Kinds : g.usage[k] <= h.usage[k]
  BY <1>1, <1>7 DEF Usage
<1>11. Sound(h)
  BY <1>6, <1>7, <1>8, <1>9, <1>10, KeptSound
<1> QED BY <1>2, <1>3, <1>4, <1>6, <1>7, <1>10, <1>11 DEF Goes, version

\* settlePolicyEvaluationAcquisition of known work.
LEMMA SettledSound ==
    ASSUME NEW g, Sound(g), g.allowance # None, NEW used \in Nat, used <= g.allowance.credit,
           NEW h, h = Settled(g, used)
    PROVE  /\ Sound(h) /\ h.version = g.version + 1 /\ h.epoch = g.epoch /\ h.allowance = None
           /\ h.status = "acquiring" /\ h.lease = g.lease /\ h.lease # None
           /\ h.attempts = g.attempts /\ h.snapshot = g.snapshot
           /\ h.usage["metadata"] = g.usage["metadata"] + used
           /\ \A k \in Kinds \ {"metadata"} : h.usage[k] = g.usage[k]
<1> DEFINE usage == [g.usage EXCEPT !["metadata"] = @ + used]
           version == g.version + 1
<1>1. /\ g \in Graphs /\ StatusAgrees(g) /\ LeaseAgrees(g) /\ UsageAgrees(g)
      /\ g.usage \in Usage /\ g.allowance \in Allowances
  BY DEF Sound, Accepted, Graphs
<1>2. version \in Nat /\ used # None /\ g.status = "acquiring" /\ g.lease # None
  BY <1>1, NoneAssumption DEF Graphs, UsageAgrees, StatusAgrees, Active
<1>3. /\ usage \in Usage /\ usage["metadata"] = g.usage["metadata"] + used
      /\ \A k \in Kinds \ {"metadata"} : usage[k] = g.usage[k]
  BY <1>1 DEF Usage, Kinds
<1>4. h = [g EXCEPT !.usage = usage, !.allowance = None, !.version = version]
  BY <1>1, <1>2 DEF Settled, Graphs
<1> HIDE DEF usage, version
<1>5. h \in Graphs
  BY <1>1, <1>2, <1>3, <1>4 DEF Graphs
<1>6. /\ h.status = g.status /\ h.version = version /\ h.epoch = g.epoch
      /\ h.token = g.token /\ h.lease = g.lease /\ h.snapshot = g.snapshot
      /\ h.result = g.result /\ h.retryAt = g.retryAt /\ h.cancelled = g.cancelled
      /\ h.attempts = g.attempts /\ h.usage = usage /\ h.allowance = None
  BY <1>1, <1>4 DEF Graphs
<1>7. usage["metadata"] <= Limits["metadata"]
  BY <1>1, <1>3, LimitsAssumption DEF UsageAgrees, Usage, Kinds, Allowances
<1>8. \A k \in Kinds : g.usage[k] <= usage[k] /\ usage[k] <= Limits[k]
  BY <1>1, <1>3, <1>7 DEF Usage, UsageAgrees
<1>9. StatusAgrees(h) /\ LeaseAgrees(h)
  BY <1>1, <1>6 DEF StatusAgrees, LeaseAgrees
<1>10. UsageAgrees(h)
  BY <1>6, <1>8 DEF UsageAgrees
<1>11. Sound(h)
  BY <1>5, <1>6, <1>8, <1>9, <1>10, KeptSound
<1> QED BY <1>2, <1>3, <1>6, <1>11 DEF version

\* settlePolicyEvaluationAcquisition of unknown work ends the job.
LEMMA SettledUnknownEnds ==
    ASSUME NEW g, Sound(g), ~Terminal(g), NEW h, h = Settled(g, None)
    PROVE  Ends(g, h, g.epoch) /\ Terminal(h)
BY HistoryExhaustedEnds DEF Settled, HistoryExhausted

\* startPolicyEvaluationComputation.
LEMMA StartedGoes ==
    ASSUME NEW g, Sound(g), g.status = "sealed", NEW h, h = Started(g)
    PROVE  Goes(g, h) /\ h.allowance = g.allowance
<1> DEFINE version == g.version + 1
<1>1. /\ g \in Graphs /\ StatusAgrees(g) /\ LeaseAgrees(g) /\ UsageAgrees(g)
      /\ g.usage \in Usage
  BY DEF Sound, Accepted, Graphs
<1>2. version \in Nat /\ "running" \in Statuses /\ g.allowance = None /\ g.lease # None
  BY <1>1 DEF Graphs, Statuses, Active, UsageAgrees, StatusAgrees
<1>3. h = [g EXCEPT !.status = "running", !.version = version]
  BY DEF Started
<1> HIDE DEF version
<1>4. h \in Graphs
  BY <1>1, <1>2, <1>3 DEF Graphs
<1>5. /\ h.status = "running" /\ h.version = version /\ h.epoch = g.epoch
      /\ h.token = g.token /\ h.lease = g.lease /\ h.snapshot = g.snapshot
      /\ h.result = g.result /\ h.retryAt = g.retryAt /\ h.cancelled = g.cancelled
      /\ h.attempts = g.attempts /\ h.usage = g.usage /\ h.allowance = g.allowance
  BY <1>1, <1>3 DEF Graphs
<1>6. StatusAgrees(h)
  BY <1>1, <1>2, <1>5 DEF StatusAgrees, Active
<1>7. LeaseAgrees(h) /\ UsageAgrees(h)
  BY <1>1, <1>2, <1>5 DEF LeaseAgrees, UsageAgrees
<1>8. \A k \in Kinds : g.usage[k] <= h.usage[k]
  BY <1>1, <1>5 DEF Usage
<1>9. Sound(h)
  BY <1>4, <1>5, <1>6, <1>7, <1>8, KeptSound
<1> QED BY <1>2, <1>5, <1>8, <1>9 DEF Goes, version

\* sealPolicyEvaluationJob: the latest attempt and the job name the snapshot.
LEMMA SealedSound ==
    ASSUME NEW g, Sound(g), g.status = "acquiring", g.allowance = None,
           NEW h, h = Sealed(g)
    PROVE  /\ Sound(h) /\ h.version = g.version + 1 /\ h.epoch = g.epoch /\ h.allowance = None
           /\ h.lease = g.lease /\ h.usage = g.usage
           /\ Len(h.attempts) = Len(g.attempts)
           /\ Latest(h).usageAtStart = Latest(g).usageAtStart
           /\ ~Terminal(h)
<1> DEFINE n == Len(g.attempts)
           a == [g.attempts[n] EXCEPT !.snapshot = n]
           attempts == [g.attempts EXCEPT ![n] = a]
           version == g.version + 1
<1>1. /\ g \in Graphs /\ StatusAgrees(g) /\ LeaseAgrees(g) /\ UsageAgrees(g)
      /\ g.attempts \in Seq(Attempts) /\ n \in Nat /\ n <= MaxAttempts /\ Accepted(g)
  BY DEF Sound, Accepted, Graphs
<1>2. /\ version \in Nat /\ g.lease # None /\ n > 0 /\ g.snapshot = None
      /\ g.attempts[n].closure = None
  BY <1>1 DEF Graphs, StatusAgrees, LeaseAgrees, Active
<1>3. n \in 1..n /\ g.attempts[n] \in Attempts
  BY <1>1, <1>2, ElementOfSeq
<1>4. n \in Snapshots /\ n # None
  BY <1>1, <1>2, LimitsAssumption, NoneAssumption DEF Snapshots
<1>5. /\ a \in Attempts /\ a.snapshot = n
      /\ a.fence = g.attempts[n].fence /\ a.startedAt = g.attempts[n].startedAt
      /\ a.deadline = g.attempts[n].deadline /\ a.usageAtStart = g.attempts[n].usageAtStart
      /\ a.usageAtClose = g.attempts[n].usageAtClose /\ a.closure = g.attempts[n].closure
  BY <1>3, <1>4 DEF Attempts
<1> HIDE DEF a
<1>6. /\ attempts \in Seq(Attempts) /\ Len(attempts) = n
      /\ \A j \in 1..n : attempts[j] = IF j = n THEN a ELSE g.attempts[j]
  BY <1>1, <1>3, <1>5, ExceptSeq
<1>7. h = [g EXCEPT !.attempts = attempts, !.snapshot = n, !.status = "sealed", !.version = version]
  BY DEF Sealed, a
<1> HIDE DEF attempts, version
<1>8. h \in Graphs
  BY <1>1, <1>2, <1>4, <1>6, <1>7 DEF Graphs, Statuses, Active
<1>9. /\ h.status = "sealed" /\ h.version = version /\ h.epoch = g.epoch
      /\ h.token = g.token /\ h.lease = g.lease /\ h.snapshot = n
      /\ h.result = g.result /\ h.retryAt = g.retryAt /\ h.cancelled = g.cancelled
      /\ h.attempts = attempts /\ h.usage = g.usage /\ h.allowance = g.allowance
  BY <1>1, <1>7 DEF Graphs
<1>10. Len(h.attempts) = n /\ h.attempts[n] = a /\ \A j \in 1..(n - 1) : h.attempts[j] = g.attempts[j]
  BY <1>1, <1>3, <1>6, <1>9
<1> HIDE DEF n
<1>11. StatusAgrees(h)
  BY <1>1, <1>2, <1>4, <1>9 DEF StatusAgrees, Active
<1>12. LeaseAgrees(h)
  BY <1>1, <1>2, <1>5, <1>9, <1>10 DEF LeaseAgrees, n
<1>13. UsageAgrees(h)
  BY <1>1, <1>9 DEF UsageAgrees
<1>14. ASSUME NEW i \in 1..n PROVE AttemptAgrees(h, h.attempts[i])
  <2>1. AttemptAgrees(g, g.attempts[i])
    BY <1>1, <1>14 DEF Accepted, n
  <2>2. CASE i = n
    <3>1. AttemptAgrees(h, a)
      BY <1>2, <1>4, <1>5, <1>9, <2>1, <2>2 DEF AttemptAgrees
    <3> QED BY <1>10, <2>2, <3>1
  <2>3. CASE i # n
    <3>1. h.attempts[i] = g.attempts[i]
      BY <1>1, <1>10, <1>14, <2>3
    <3> QED BY <1>9, <2>1, <3>1 DEF AttemptAgrees
  <2> QED BY <2>2, <2>3
<1>15. ASSUME NEW i \in 1..(n - 1) PROVE AttemptFollows(h.attempts[i], h.attempts[i + 1])
  <2>1. AttemptFollows(g.attempts[i], g.attempts[i + 1]) /\ h.attempts[i] = g.attempts[i]
    BY <1>1, <1>10, <1>15 DEF Accepted, n
  <2>2. CASE i + 1 = n
    <3>1. g.attempts[n].snapshot = None
      BY <1>1, <1>2 DEF LeaseAgrees, n
    <3>2. g.attempts[i].snapshot = None
      <4>1. CASE g.attempts[i].snapshot # None
        BY <2>1, <2>2, <3>1, <4>1 DEF AttemptFollows
      <4> QED BY <4>1
    <3> QED BY <1>5, <1>10, <2>1, <2>2, <3>2 DEF AttemptFollows
  <2>3. CASE i + 1 # n
    <3>1. i + 1 \in 1..(n - 1)
      BY <1>1, <1>15, <2>3
    <3> QED BY <1>10, <2>1, <3>1
  <2> QED BY <2>2, <2>3
<1>16. Sound(h)
  BY <1>1, <1>8, <1>10, <1>11, <1>12, <1>13, <1>14, <1>15 DEF Sound, Accepted
<1>17. Latest(h).usageAtStart = Latest(g).usageAtStart
  BY <1>5, <1>10 DEF Latest, n
<1>18. ~Terminal(h)
  BY <1>9 DEF Terminal, Terminals
<1> QED BY <1>9, <1>10, <1>16, <1>17, <1>18 DEF version, n

\* claimPolicyEvaluationJob: a new attempt, which goes on from the snapshot
\* and the usage of the ones before.
LEMMA ClaimedSound ==
    ASSUME NEW g, Sound(g), NEW t \in Nat, NEW e, MayClaim(g, t, e), NEW w \in Workers,
           NEW h, h = Claimed(g, t, w)
    PROVE  /\ Sound(h) /\ h.version = g.version + 1 /\ h.epoch = g.epoch
           /\ h.allowance = None /\ g.allowance = None /\ h.snapshot = g.snapshot
           /\ h.lease # None /\ h.lease.fence \in Fences /\ h.lease.fence.worker = w
           /\ h.usage = g.usage /\ Latest(h).usageAtStart = g.usage
           /\ ~Terminal(h)
<1> DEFINE fence == [worker |-> w, epoch |-> g.epoch, token |-> g.token + 1]
           deadline == UpTo(t, AttemptTimeout, Deadline)
           expiresAt == UpTo(t, LeaseDuration, deadline)
           a == [fence |-> fence, startedAt |-> t, deadline |-> deadline,
                 snapshot |-> g.snapshot, usageAtStart |-> g.usage,
                 usageAtClose |-> None, closure |-> None]
           lease == [fence |-> fence, heartbeatAt |-> t, attemptDeadline |-> deadline,
                     expiresAt |-> expiresAt]
           attempts == Append(g.attempts, a)
           status == IF g.snapshot = None THEN "acquiring" ELSE "running"
           token == g.token + 1
           version == g.version + 1
           n == Len(g.attempts)
<1>1. /\ g \in Graphs /\ StatusAgrees(g) /\ LeaseAgrees(g) /\ UsageAgrees(g) /\ Accepted(g)
      /\ g.attempts \in Seq(Attempts) /\ n \in Nat /\ g.usage \in Usage
      /\ g.epoch \in Nat /\ g.token \in Nat
  BY DEF Sound, Accepted, Graphs
<1>2. /\ g.status \in {"queued", "retry_ready"} /\ t < Deadline /\ n < MaxAttempts
      /\ g.lease = None /\ g.allowance = None /\ g.result = None /\ ~g.cancelled
  BY <1>1 DEF MayClaim, StatusAgrees, UsageAgrees, Active
<1>3. token \in Nat /\ version \in Nat /\ status \in {"acquiring", "running"} /\ token = g.token + 1
  BY <1>1 DEF Graphs
<1>4. fence \in Fences /\ fence.worker = w /\ fence.epoch = g.epoch /\ fence.token = token
  BY <1>1 DEF Fences
<1>5. deadline \in Nat /\ t < deadline /\ deadline = UpTo(t, AttemptTimeout, Deadline)
  BY <1>2, LimitsAssumption DEF UpTo
<1> HIDE DEF deadline
<1>6. expiresAt \in Nat /\ expiresAt <= t + LeaseDuration
  BY <1>5, LimitsAssumption DEF UpTo
<1> HIDE DEF expiresAt, fence
<1>7. /\ a \in Attempts /\ a.fence = fence /\ a.startedAt = t /\ a.deadline = deadline
      /\ a.snapshot = g.snapshot /\ a.usageAtStart = g.usage /\ a.usageAtClose = None
      /\ a.closure = None
  BY <1>1, <1>4, <1>5 DEF Attempts, Graphs
<1>8. /\ lease \in Leases /\ lease.fence = fence /\ lease.heartbeatAt = t
      /\ lease.attemptDeadline = deadline /\ lease.expiresAt = expiresAt
  BY <1>4, <1>5, <1>6 DEF Leases
<1>9. h = [g EXCEPT !.attempts = attempts, !.lease = lease, !.status = status,
                    !.token = token, !.version = version, !.retryAt = None]
  BY DEF Claimed, fence, deadline, expiresAt
<1> HIDE DEF a, lease, status, token, version
<1>10. /\ attempts \in Seq(Attempts) /\ Len(attempts) = n + 1 /\ attempts[n + 1] = a
       /\ \A i \in 1..n : attempts[i] = g.attempts[i]
  BY <1>1, <1>7, AppendProperties
<1> HIDE DEF attempts
<1>11. h \in Graphs /\ lease # None
  BY <1>1, <1>3, <1>8, <1>9, <1>10, NoneAssumption DEF Graphs, Statuses, Active
<1>12. /\ h.status = status /\ h.version = version /\ h.epoch = g.epoch
       /\ h.token = token /\ h.lease = lease /\ h.snapshot = g.snapshot
       /\ h.result = g.result /\ h.retryAt = None /\ h.cancelled = g.cancelled
       /\ h.attempts = attempts /\ h.usage = g.usage /\ h.allowance = g.allowance
  BY <1>1, <1>9 DEF Graphs
<1>13. StatusAgrees(h)
  <2>1. (status = "acquiring" <=> g.snapshot = None) /\ status \in {"acquiring", "running"}
    BY <1>3 DEF status
  <2> QED BY <1>2, <1>11, <1>12, <2>1 DEF StatusAgrees, Active
<1>14. LeaseAgrees(h)
  <2>1. n + 1 > 0 /\ n + 1 # 0 /\ token # 0
    BY <1>1, <1>3
  <2>2. Len(h.attempts) = n + 1 /\ h.attempts[n + 1] = a
    BY <1>10, <1>12
  <2>3. h.lease.expiresAt <= h.lease.heartbeatAt + LeaseDuration
    BY <1>6, <1>8, <1>12
  <2> HIDE DEF n
  <2> QED BY <1>4, <1>7, <1>8, <1>11, <1>12, <2>1, <2>2, <2>3 DEF LeaseAgrees
<1>15. UsageAgrees(h)
  BY <1>1, <1>2, <1>12 DEF UsageAgrees
<1>16. ASSUME NEW i \in 1..(n + 1) PROVE AttemptAgrees(h, h.attempts[i])
  <2>1. CASE i = n + 1
    <3>1. \A k \in Kinds : a.usageAtStart[k] <= h.usage[k]
      BY <1>1, <1>7, <1>12 DEF Usage
    <3>2. a.fence.epoch <= h.epoch
      BY <1>1, <1>4, <1>7, <1>12
    <3>3. AttemptAgrees(h, a)
      BY <1>5, <1>7, <3>1, <3>2, NoneAssumption DEF AttemptAgrees, Closures, Terminals
    <3> QED BY <1>10, <1>12, <2>1, <3>3
  <2>2. CASE i # n + 1
    <3>1. i \in 1..n /\ h.attempts[i] = g.attempts[i]
      BY <1>1, <1>10, <1>12, <1>16, <2>2
    <3> QED BY <1>1, <1>12, <3>1 DEF Accepted, AttemptAgrees
  <2> QED BY <2>1, <2>2
<1>17. ASSUME NEW i \in 1..n PROVE AttemptFollows(h.attempts[i], h.attempts[i + 1])
  <2>1. CASE i = n
    <3>1. /\ g.attempts[n].closure # None /\ g.attempts[n].fence.token = g.token
          /\ g.attempts[n].snapshot = g.snapshot
      BY <1>1, <1>2, <1>17 DEF LeaseAgrees
    <3>2. AttemptAgrees(g, g.attempts[n])
      BY <1>1, <1>17 DEF Accepted
    <3>3. AttemptFollows(g.attempts[n], a)
      BY <1>1, <1>3, <1>4, <1>7, <3>1, <3>2 DEF AttemptFollows, AttemptAgrees
    <3> QED BY <1>10, <1>12, <1>17, <2>1, <3>3
  <2>2. CASE i # n
    <3>1. /\ i \in 1..(n - 1) /\ h.attempts[i] = g.attempts[i]
          /\ h.attempts[i + 1] = g.attempts[i + 1]
      BY <1>1, <1>10, <1>12, <1>17, <2>2
    <3> QED BY <1>1, <3>1 DEF Accepted
  <2> QED BY <2>1, <2>2
<1>18. Len(h.attempts) = n + 1 /\ n + 1 <= MaxAttempts /\ (n + 1) - 1 = n
  BY <1>1, <1>2, <1>10, <1>12, LimitsAssumption
<1>19. Sound(h)
  BY <1>11, <1>13, <1>14, <1>15, <1>16, <1>17, <1>18 DEF Sound, Accepted
<1>20. Latest(h).usageAtStart = g.usage
  BY <1>7, <1>10, <1>12, <1>18 DEF Latest
<1>21. ~Terminal(h)
  BY <1>3, <1>12 DEF Terminal, Terminals
<1> QED BY <1>2, <1>4, <1>8, <1>11, <1>12, <1>19, <1>20, <1>21 DEF version

-----------------------------------------------------------------------------
(* What the store commits.                                                 *)

\* mutate: a job that is not over always has a version left to end in.
LEMMA CommittedGood ==
    ASSUME NEW g, Good(g), ~Terminal(g), NEW next, Sound(next), next.version = g.version + 1,
           NEW h, h = Committed(g, next)
    PROVE  Good(h) /\ (h = next \/ (Ends(g, h, g.epoch) /\ Terminal(h)))
<1>1. g.version \in Nat /\ g.version < MaxHistory /\ MaxHistory \in Nat /\ Sound(g)
  BY LimitsAssumption DEF Good, Sound, Graphs
<1>2. CASE ~Terminal(next) /\ next.version = MaxHistory
  <2>1. Ends(g, h, g.epoch) /\ Terminal(h)
    BY <1>1, <1>2, HistoryExhaustedEnds DEF Committed
  <2>2. h.version <= MaxHistory
    BY <1>1, <2>1 DEF Ends
  <2> QED BY <2>1, <2>2 DEF Good, Ends
<1>3. CASE ~(~Terminal(next) /\ next.version = MaxHistory)
  <2>1. h = next
    BY <1>3 DEF Committed
  <2>2. next.version <= MaxHistory /\ (next.version # MaxHistory => next.version < MaxHistory)
    BY <1>1
  <2> QED BY <1>3, <2>1, <2>2 DEF Good
<1> QED BY <1>2, <1>3

\* createJob stores such a graph.
LEMMA CreatedGood == Good(Created)
<1>1. NoUsage \in Usage /\ \A k \in Kinds : NoUsage[k] = 0
  BY DEF NoUsage, Usage
<1> DEFINE g == Created
<1>2. /\ g.status = "queued" /\ g.version = 1 /\ g.epoch = 0
      /\ g.token = 0 /\ g.lease = None /\ g.snapshot = None
      /\ g.result = None /\ g.retryAt = None /\ g.cancelled = FALSE
      /\ g.attempts = <<>> /\ g.usage = NoUsage /\ g.allowance = None
  BY DEF Created
<1>3. g \in Graphs
  BY <1>1 DEF Created, Graphs, Statuses
<1> HIDE DEF g
<1>4. Len(g.attempts) = 0 /\ MaxAttempts \in Nat /\ MaxHistory \in Nat /\ 1 < MaxHistory
  BY <1>2, LimitsAssumption
<1>5. StatusAgrees(g)
  BY <1>2, <1>4 DEF StatusAgrees, Active
<1>6. LeaseAgrees(g)
  BY <1>2, <1>4 DEF LeaseAgrees
<1>7. UsageAgrees(g)
  BY <1>1, <1>2, LimitsAssumption DEF UsageAgrees
<1>8. Sound(g)
  BY <1>3, <1>4, <1>5, <1>6, <1>7 DEF Sound, Accepted
<1> QED BY <1>2, <1>4, <1>8 DEF Good, g

=============================================================================
