------------------------- MODULE SessionQueueProofs -------------------------
(***************************************************************************)
(* For every set of calls and every assignment of calls to sessions, the   *)
(* chain of promises implements the first-come-first-served gate.          *)
(***************************************************************************)
EXTENDS SessionQueue, SequenceTheorems, TLAPS

-----------------------------------------------------------------------------
(* The queue of promise jobs *)

\* The reactions of a call are two jobs, in the order of the code.
LEMMA ReactionsJobs ==
  ASSUME NEW c \in Calls
  PROVE  /\ Reactions(c) \in Seq(Job)
         /\ Len(Reactions(c)) = 2
         /\ Reactions(c)[1] = J("catchCurrent", c)
         /\ Reactions(c)[2] = J("catchWait", c)
BY DEF Reactions, Job, J

\* Appending jobs keeps the queued ones in their places.
LEMMA AppendedJobs ==
  ASSUME TypeOK, NEW q \in Seq(Job)
  PROVE  /\ jobs \o q \in Seq(Job)
         /\ Len(jobs \o q) = Len(jobs) + Len(q)
         /\ Len(jobs) \in Nat
         /\ Len(q) \in Nat
         /\ \A i \in 1 .. Len(jobs) : (jobs \o q)[i] = jobs[i]
         /\ \A i \in Len(jobs) + 1 .. Len(jobs) + Len(q) :
              (jobs \o q)[i] = q[i - Len(jobs)]
<1>1. jobs \in Seq(Job)
  BY DEF TypeOK
<1>2. Len(jobs) \in Nat /\ Len(q) \in Nat
  BY <1>1, LenProperties
<1> QED BY <1>1, <1>2

\* Running the first job moves the others up and queues q behind them.
LEMMA RanJob ==
  ASSUME TypeOK, NEW kind, NEW c \in Calls, NEW q \in Seq(Job), Runs(kind, c, q)
  PROVE  /\ jobs' \in Seq(Job)
         /\ Len(jobs) \in Nat \ {0}
         /\ Len(q) \in Nat
         /\ Len(jobs') = Len(jobs) - 1 + Len(q)
         /\ jobs[1] = J(kind, c)
         /\ \A i \in 1 .. Len(jobs) - 1 : jobs'[i] = jobs[i + 1]
         /\ \A i \in Len(jobs) .. Len(jobs) - 1 + Len(q) :
              jobs'[i] = q[i - Len(jobs) + 1]
<1>1. jobs \in Seq(Job) /\ jobs # <<>> /\ Head(jobs) = J(kind, c) /\ jobs' = Tail(jobs) \o q
  BY DEF TypeOK, Runs
<1>2. Len(jobs) \in Nat \ {0} /\ Len(q) \in Nat /\ jobs[1] = J(kind, c)
  BY <1>1, LenProperties, EmptySeq
<1>3. /\ Tail(jobs) \in Seq(Job)
      /\ Len(Tail(jobs)) = Len(jobs) - 1
      /\ \A i \in 1 .. Len(jobs) - 1 : Tail(jobs)[i] = jobs[i + 1]
  BY <1>1, <1>2
<1>4. /\ Tail(jobs) \o q \in Seq(Job)
      /\ Len(Tail(jobs) \o q) = Len(jobs) - 1 + Len(q)
      /\ \A i \in 1 .. Len(jobs) - 1 : (Tail(jobs) \o q)[i] = Tail(jobs)[i]
      /\ \A i \in Len(jobs) .. Len(jobs) - 1 + Len(q) :
           (Tail(jobs) \o q)[i] = q[i - (Len(jobs) - 1)]
  BY <1>2, <1>3
<1> QED BY <1>1, <1>2, <1>3, <1>4

\* A queued job is a job.
LEMMA JobType ==
  ASSUME TypeOK, NEW i \in 1 .. Len(jobs)
  PROVE  jobs[i] \in Job /\ jobs[i].call \in Calls
<1>1. jobs \in Seq(Job) BY DEF TypeOK
<1>2. jobs[i] \in Job BY <1>1
<1> QED BY <1>2 DEF Job

\* A call whose `previous` is resolved comes after calls that are over.
LEMMA EarlierDone ==
  ASSUME QueueInv, NEW c \in Calls, pc[c] # "new", PreviousResolved(c)
  PROVE  \A d \in earlier[c] : pc[d] = "done"
<1>1. CASE previous[c] = NoCall
  BY <1>1 DEF QueueInv, PreviousIsLast
<1>2. CASE previous[c] # NoCall
  <2>1. previous[c] \in Calls /\ pc[previous[c]] = "done"
    BY <1>2 DEF QueueInv, TypeOK, PreviousResolved, ResolvedAreDone
  <2>2. earlier[c] = earlier[previous[c]] \cup {previous[c]}
    BY <1>2 DEF QueueInv, PreviousIsLast
  <2> QED BY <2>1, <2>2 DEF QueueInv, WorksAfterEarlier
<1> QED BY <1>1, <1>2

-----------------------------------------------------------------------------
(* Every step keeps the invariant: one lemma per action *)

\* Initially nobody has arrived and no job is queued.
LEMMA InitInv == Init => QueueInv
<1> SUFFICES ASSUME Init PROVE QueueInv OBVIOUS
<1>1. TypeOK
  BY SessionAssumption DEF Init, TypeOK
<1>2. ArrivalOrder /\ MapHoldsLiveTail /\ PreviousIsLast /\ WorksAfterEarlier /\ ResolvedAreDone
  BY DEF Init, ArrivalOrder, MapHoldsLiveTail, PreviousIsLast, WorksAfterEarlier,
         ResolvedAreDone
<1>3. JobsTimely /\ JobsOnce
  BY DEF Init, JobsTimely, JobsOnce
<1> QED BY <1>1, <1>2, <1>3 DEF QueueInv

\* The part of the invariant that does not mention the queued jobs.
CallsInv == ArrivalOrder /\ MapHoldsLiveTail /\ PreviousIsLast /\ WorksAfterEarlier
            /\ ResolvedAreDone

\* The reactions that pass a resolution on queue the job of the same call.
LEMMA PassThroughInv ==
  ASSUME QueueInv, NEW c \in Calls, PassThrough(c)
  PROVE  QueueInv'
<1>t. TypeOK
  BY DEF QueueInv
<1>u. UNCHANGED <<sessionQueues, previous, pc, armed, resolved, earlier>>
  BY DEF PassThrough
<1>1. CallsInv'
  BY <1>u DEF QueueInv, CallsInv, ArrivalOrder, MapHoldsLiveTail, PreviousIsLast,
              WorksAfterEarlier, ResolvedAreDone
<1>2. ASSUME NEW k1 \in {"catchCurrent", "catchWait"}, NEW k2 \in {"arm", "enter"},
             k1 \in EnterKinds <=> k2 \in EnterKinds,
             Runs(k1, c, <<J(k2, c)>>)
      PROVE  QueueInv'
  <2> DEFINE q == <<J(k2, c)>>
  <2>0. q \in Seq(Job) /\ Len(q) = 1 /\ q[1] = J(k2, c)
    BY <1>2 DEF Job, J
  <2>1. /\ jobs' \in Seq(Job)
        /\ Len(jobs) \in Nat \ {0}
        /\ Len(jobs') = Len(jobs)
        /\ jobs[1] = J(k1, c)
        /\ \A i \in 1 .. Len(jobs) - 1 : jobs'[i] = jobs[i + 1]
        /\ jobs'[Len(jobs)] = J(k2, c)
    <3> HIDE DEF q
    <3>1. Runs(k1, c, q)
      BY <1>2 DEF q
    <3>2. /\ jobs' \in Seq(Job)
          /\ Len(jobs) \in Nat \ {0}
          /\ Len(jobs') = Len(jobs) - 1 + Len(q)
          /\ jobs[1] = J(k1, c)
          /\ \A i \in 1 .. Len(jobs) - 1 : jobs'[i] = jobs[i + 1]
          /\ \A i \in Len(jobs) .. Len(jobs) - 1 + Len(q) :
               jobs'[i] = q[i - Len(jobs) + 1]
      BY <1>t, <2>0, <3>1, RanJob
    <3> QED BY <2>0, <3>2
  <2>2. TypeOK'
    BY <1>t, <1>u, <2>1 DEF TypeOK
  <2>3. JobsTimely'
    BY <1>u, <1>2, <2>1 DEF QueueInv, JobsTimely, JobTimely, J, EnterKinds, PreviousResolved
  <2>4. JobsOnce'
    <3> DEFINE was(i) == IF i < Len(jobs) THEN i + 1 ELSE 1
    <3>1. \A i \in 1 .. Len(jobs') :
            /\ was(i) \in 1 .. Len(jobs)
            /\ jobs'[i].call = jobs[was(i)].call
            /\ jobs'[i].kind \in EnterKinds => jobs[was(i)].kind \in EnterKinds
            /\ jobs'[i].kind = "settle" => jobs[was(i)].kind = "settle"
      BY <1>2, <2>1 DEF J, EnterKinds
    <3>2. \A i, j \in 1 .. Len(jobs') : i # j => was(i) # was(j)
      BY <2>1
    <3> HIDE DEF was
    <3> QED BY <3>1, <3>2 DEF QueueInv, JobsOnce
  <2> QED BY <1>1, <2>2, <2>3, <2>4 DEF QueueInv, CallsInv
<1>3. \/ Runs("catchCurrent", c, <<J("arm", c)>>)
      \/ Runs("catchWait", c, <<J("enter", c)>>)
  BY DEF PassThrough
<1> QED BY <1>2, <1>3 DEF EnterKinds

\* What a job that queues nothing leaves in the queue.
LEMMA RanLastJob ==
  ASSUME TypeOK, NEW kind, NEW c \in Calls, Runs(kind, c, <<>>)
  PROVE  /\ jobs' \in Seq(Job)
         /\ Len(jobs) \in Nat \ {0}
         /\ Len(jobs') = Len(jobs) - 1
         /\ jobs[1] = J(kind, c)
         /\ \A i \in 1 .. Len(jobs) - 1 : jobs'[i] = jobs[i + 1]
<1> DEFINE q == <<>>
<1>1. q \in Seq(Job) /\ Len(q) = 0
  OBVIOUS
<1>2. Runs(kind, c, q)
  OBVIOUS
<1> HIDE DEF q
<1>3. /\ jobs' \in Seq(Job)
      /\ Len(jobs) \in Nat \ {0}
      /\ Len(jobs') = Len(jobs) - 1 + Len(q)
      /\ jobs[1] = J(kind, c)
      /\ \A i \in 1 .. Len(jobs) - 1 : jobs'[i] = jobs[i + 1]
  BY <1>1, <1>2, RanJob
<1> QED BY <1>1, <1>3

\* Setting releaseCurrent disturbs nothing but the queue.
LEMMA ArmInv ==
  ASSUME QueueInv, NEW c \in Calls, Arm(c)
  PROVE  QueueInv'
<1>t. TypeOK
  BY DEF QueueInv
<1>u. UNCHANGED <<sessionQueues, previous, pc, resolved, earlier>> /\ armed' = armed \cup {c}
  BY DEF Arm
<1>1. CallsInv'
  BY <1>u DEF QueueInv, CallsInv, ArrivalOrder, MapHoldsLiveTail, PreviousIsLast,
              WorksAfterEarlier, ResolvedAreDone
<1>2. /\ jobs' \in Seq(Job)
      /\ Len(jobs) \in Nat \ {0}
      /\ Len(jobs') = Len(jobs) - 1
      /\ \A i \in 1 .. Len(jobs) - 1 : jobs'[i] = jobs[i + 1]
  BY <1>t, RanLastJob DEF Arm
<1>3. TypeOK'
  BY <1>t, <1>u, <1>2 DEF TypeOK
<1>4. JobsTimely'
  BY <1>u, <1>2 DEF QueueInv, JobsTimely, JobTimely, EnterKinds, PreviousResolved
<1>5. JobsOnce'
  BY <1>2 DEF QueueInv, JobsOnce, EnterKinds
<1> QED BY <1>1, <1>3, <1>4, <1>5 DEF QueueInv, CallsInv

\* The call that enters was waiting, and everybody before it is over.
LEMMA EnterTurn ==
  ASSUME QueueInv, NEW c \in Calls, Enter(c)
  PROVE  pc[c] = "waiting" /\ \A d \in earlier[c] : pc[d] = "done"
<1>1. Len(jobs) \in Nat \ {0} /\ jobs[1] = J("enter", c)
  BY RanLastJob DEF QueueInv, Enter
<1>2. pc[c] = "waiting" /\ PreviousResolved(c)
  BY <1>1 DEF QueueInv, JobsTimely, JobTimely, J, EnterKinds
<1> QED BY <1>2, EarlierDone

\* Entering: no second job can enter the same call.
LEMMA EnterInv ==
  ASSUME QueueInv, NEW c \in Calls, Enter(c)
  PROVE  QueueInv'
<1>t. TypeOK
  BY DEF QueueInv
<1>u. /\ UNCHANGED <<sessionQueues, previous, armed, resolved, earlier>>
      /\ pc' = [pc EXCEPT ![c] = "working"]
  BY DEF Enter
<1>e. pc[c] = "waiting" /\ \A d \in earlier[c] : pc[d] = "done"
  BY EnterTurn
<1>p. \A d \in Calls : pc'[d] = IF d = c THEN "working" ELSE pc[d]
  BY <1>t, <1>u DEF TypeOK
<1>y. /\ earlier \in [Calls -> SUBSET Calls]
      /\ sessionQueues \in [Sessions -> Calls \cup {NoCall}]
      /\ resolved \in SUBSET Calls
  BY <1>t DEF TypeOK
<1>1. CallsInv'
  <2>1. ArrivalOrder'
    BY <1>u, <1>e, <1>p, <1>y DEF QueueInv, ArrivalOrder
  <2>2. MapHoldsLiveTail'
    BY <1>u, <1>e, <1>p, <1>y DEF QueueInv, MapHoldsLiveTail
  <2>3. PreviousIsLast'
    BY <1>u, <1>e, <1>p, <1>y DEF QueueInv, PreviousIsLast
  <2>4. WorksAfterEarlier'
    BY <1>u, <1>e, <1>p, <1>y DEF QueueInv, WorksAfterEarlier
  <2>5. ResolvedAreDone'
    BY <1>u, <1>e, <1>p, <1>y DEF QueueInv, ResolvedAreDone
  <2> QED BY <2>1, <2>2, <2>3, <2>4, <2>5 DEF CallsInv
<1>2. /\ jobs' \in Seq(Job)
      /\ Len(jobs) \in Nat \ {0}
      /\ Len(jobs') = Len(jobs) - 1
      /\ jobs[1] = J("enter", c)
      /\ \A i \in 1 .. Len(jobs) - 1 : jobs'[i] = jobs[i + 1]
  BY <1>t, RanLastJob DEF Enter
<1>3. TypeOK'
  BY <1>t, <1>u, <1>2 DEF TypeOK
<1>4. JobsTimely'
  <2> SUFFICES ASSUME NEW i \in 1 .. Len(jobs')
               PROVE  JobTimely(jobs[i].kind, jobs[i].call)'
    BY DEF JobsTimely
  <2>1. i + 1 \in 1 .. Len(jobs) /\ i + 1 # 1 /\ 1 \in 1 .. Len(jobs) /\ jobs'[i] = jobs[i + 1]
    BY <1>2
  <2>2. jobs[i + 1].call \in Calls
    BY <1>t, <2>1, JobType
  <2>3. ~(jobs[i + 1].call = c /\ jobs[i + 1].kind \in EnterKinds)
    BY <1>2, <2>1 DEF QueueInv, JobsOnce, J, EnterKinds
  <2>4. ~(jobs[i + 1].call = c /\ jobs[i + 1].kind = "settle")
    BY <1>e, <2>1 DEF QueueInv, JobsTimely, JobTimely
  <2> QED BY <1>u, <1>p, <2>1, <2>2, <2>3, <2>4 DEF QueueInv, JobsTimely, JobTimely, PreviousResolved
<1>5. JobsOnce'
  BY <1>2 DEF QueueInv, JobsOnce, EnterKinds
<1> QED BY <1>1, <1>3, <1>4, <1>5 DEF QueueInv, CallsInv

\* `current` resolves: the call that waits for it had no reaction queued yet.
LEMMA SettleInv ==
  ASSUME QueueInv, NEW c \in Calls, Settle(c)
  PROVE  QueueInv'
<1>t. TypeOK
  BY DEF QueueInv
<1>u. /\ UNCHANGED <<sessionQueues, previous, pc, armed, earlier>>
      /\ resolved' = resolved \cup {c}
  BY DEF Settle
<1>1. ASSUME NEW q \in Seq(Job), Runs("settle", c, q),
             \A i \in 1 .. Len(q) :
               \E d \in Calls : /\ q[i] \in {J("catchCurrent", d), J("catchWait", d)}
                                /\ WaitsFor(d, c),
             \A i, j \in 1 .. Len(q) :
               i # j => ~(q[i].kind \in EnterKinds /\ q[j].kind \in EnterKinds)
      PROVE  QueueInv'
  <2>1. /\ jobs' \in Seq(Job)
        /\ Len(jobs) \in Nat \ {0}
        /\ Len(q) \in Nat
        /\ Len(jobs') = Len(jobs) - 1 + Len(q)
        /\ jobs[1] = J("settle", c)
        /\ \A i \in 1 .. Len(jobs) - 1 : jobs'[i] = jobs[i + 1]
        /\ \A i \in Len(jobs) .. Len(jobs) - 1 + Len(q) :
             jobs'[i] = q[i - Len(jobs) + 1]
    BY <1>t, <1>1, RanJob
  <2>2. pc[c] = "done" /\ c \notin resolved
    BY <2>1 DEF QueueInv, JobsTimely, JobTimely, J
  <2>3. CallsInv'
    BY <1>u, <2>2 DEF QueueInv, CallsInv, ArrivalOrder, MapHoldsLiveTail, PreviousIsLast,
                      WorksAfterEarlier, ResolvedAreDone
  <2>4. TypeOK'
    BY <1>t, <1>u, <2>1 DEF TypeOK
  <2>5. ASSUME NEW i \in 2 .. Len(jobs)
        PROVE  /\ i \in 1 .. Len(jobs)
               /\ jobs[i].call \in Calls
               /\ jobs[i].kind = "settle" => jobs[i].call # c
               /\ JobTimely(jobs[i].kind, jobs[i].call)
               /\ jobs[i].kind \in EnterKinds => ~WaitsFor(jobs[i].call, c)
    <3>1. 1 \in 1 .. Len(jobs) /\ i \in 1 .. Len(jobs) /\ i # 1
      BY <2>1, <2>5
    <3>2. JobTimely(jobs[i].kind, jobs[i].call)
      BY <3>1 DEF QueueInv, JobsTimely
    <3>3. jobs[i].kind = "settle" => jobs[i].call # c
      BY <2>1, <3>1 DEF QueueInv, JobsOnce, J
    <3>4. jobs[i].kind \in EnterKinds => ~WaitsFor(jobs[i].call, c)
      BY <2>2, <3>2, SessionAssumption DEF JobTimely, PreviousResolved, WaitsFor, EnterKinds
    <3>5. jobs[i].call \in Calls
      BY <1>t, <3>1, JobType
    <3> QED BY <3>1, <3>2, <3>3, <3>4, <3>5
  <2>6. ASSUME NEW i \in 1 .. Len(jobs'), i >= Len(jobs)
        PROVE  /\ \E d \in Calls : /\ jobs'[i] \in {J("catchCurrent", d), J("catchWait", d)}
                                   /\ WaitsFor(d, c)
               /\ i - Len(jobs) + 1 \in 1 .. Len(q)
               /\ jobs'[i] = q[i - Len(jobs) + 1]
    <3>1. i \in Nat /\ i <= Len(jobs) - 1 + Len(q)
      BY <2>1
    <3>2. i \in Len(jobs) .. Len(jobs) - 1 + Len(q) /\ i - Len(jobs) + 1 \in 1 .. Len(q)
      BY <2>1, <2>6, <3>1
    <3>3. jobs'[i] = q[i - Len(jobs) + 1]
      BY <2>1, <3>2
    <3> QED BY <1>1, <3>2, <3>3
  <2>7. JobsTimely'
    <3> SUFFICES ASSUME NEW i \in 1 .. Len(jobs')
                 PROVE  JobTimely(jobs[i].kind, jobs[i].call)'
      BY DEF JobsTimely
    <3>1. CASE i < Len(jobs)
      <4>1. jobs'[i] = jobs[i + 1] /\ i + 1 \in 2 .. Len(jobs)
        BY <2>1, <3>1
      <4> QED BY <1>u, <2>5, <4>1 DEF JobTimely, PreviousResolved
    <3>2. CASE i >= Len(jobs)
      <4>2. PICK d \in Calls : /\ jobs'[i] \in {J("catchCurrent", d), J("catchWait", d)}
                               /\ WaitsFor(d, c)
        BY <2>6, <3>2
      <4>3. jobs'[i].kind \in {"catchCurrent", "catchWait"} /\ jobs'[i].call = d
        BY <4>2 DEF J
      <4>4. pc[d] = "waiting" /\ previous[d] = c
        BY <4>2 DEF WaitsFor
      <4> QED BY <1>u, <4>3, <4>4 DEF JobTimely, PreviousResolved, EnterKinds
    <3> QED BY <2>1, <3>1, <3>2
  <2>8. JobsOnce'
    <3> SUFFICES ASSUME NEW i \in 1 .. Len(jobs'), NEW j \in 1 .. Len(jobs'), i # j,
                        jobs'[i].call = jobs'[j].call
                 PROVE  /\ ~(jobs'[i].kind \in EnterKinds /\ jobs'[j].kind \in EnterKinds)
                        /\ ~(jobs'[i].kind = "settle" /\ jobs'[j].kind = "settle")
      BY DEF JobsOnce
    <3>1. ASSUME NEW k \in 1 .. Len(jobs'), k < Len(jobs)
          PROVE  /\ k + 1 \in 1 .. Len(jobs)
                 /\ jobs'[k] = jobs[k + 1]
                 /\ jobs'[k].kind \in EnterKinds => ~WaitsFor(jobs'[k].call, c)
      <4>1. jobs'[k] = jobs[k + 1] /\ k + 1 \in 2 .. Len(jobs) /\ k + 1 \in 1 .. Len(jobs)
        BY <2>1, <3>1
      <4> QED BY <2>5, <4>1
    <3>2. ASSUME NEW k \in 1 .. Len(jobs'), k >= Len(jobs)
          PROVE  jobs'[k].kind # "settle" /\ WaitsFor(jobs'[k].call, c)
      <4>1. PICK d \in Calls : /\ jobs'[k] \in {J("catchCurrent", d), J("catchWait", d)}
                               /\ WaitsFor(d, c)
        BY <2>6, <3>2
      <4> QED BY <4>1 DEF J
    <3>3. CASE i < Len(jobs) /\ j < Len(jobs)
      <4>1. i + 1 # j + 1
        BY <2>1
      <4> QED BY <3>1, <3>3, <4>1 DEF QueueInv, JobsOnce
    <3>4. CASE i >= Len(jobs) /\ j >= Len(jobs)
      <4>1. i - Len(jobs) + 1 # j - Len(jobs) + 1
        BY <2>1
      <4> QED BY <1>1, <2>6, <3>2, <3>4, <4>1
    <3>5. CASE i < Len(jobs) /\ j >= Len(jobs)
      BY <3>1, <3>2, <3>5
    <3>6. CASE i >= Len(jobs) /\ j < Len(jobs)
      BY <3>1, <3>2, <3>6
    <3>7. i \in Nat /\ j \in Nat /\ Len(jobs) \in Nat
      BY <2>1
    <3> QED BY <3>3, <3>4, <3>5, <3>6, <3>7
  <2> QED BY <2>3, <2>4, <2>7, <2>8 DEF QueueInv, CallsInv
<1>2. CASE \E d \in Calls : WaitsFor(d, c) /\ Runs("settle", c, Reactions(d))
  <2>1. PICK d \in Calls : WaitsFor(d, c) /\ Runs("settle", c, Reactions(d))
    BY <1>2
  <2>2. /\ Reactions(d) \in Seq(Job) /\ Len(Reactions(d)) = 2
        /\ Reactions(d)[1] = J("catchCurrent", d) /\ Reactions(d)[2] = J("catchWait", d)
    BY ReactionsJobs
  <2>3. \A i \in 1 .. Len(Reactions(d)) : i = 1 \/ i = 2
    BY <2>2
  <2>4. \A i \in 1 .. Len(Reactions(d)) :
          \E e \in Calls : /\ Reactions(d)[i] \in {J("catchCurrent", e), J("catchWait", e)}
                           /\ WaitsFor(e, c)
    BY <2>1, <2>2, <2>3
  <2>5. \A i, j \in 1 .. Len(Reactions(d)) :
          i # j => ~(/\ Reactions(d)[i].kind \in EnterKinds
                     /\ Reactions(d)[j].kind \in EnterKinds)
    BY <2>2, <2>3 DEF J, EnterKinds
  <2> QED BY <1>1, <2>1, <2>2, <2>4, <2>5
<1>3. CASE Runs("settle", c, <<>>)
  <2>1. <<>> \in Seq(Job) /\ \A i \in 1 .. Len(<<>>) : FALSE
    OBVIOUS
  <2> QED BY <1>1, <1>3, <2>1
<1> QED BY <1>2, <1>3 DEF Settle

\* A call arrives: it becomes the tail and hangs its reactions on the old one.
LEMMA ArriveInv ==
  ASSUME QueueInv, NEW c \in Calls, Arrive(c)
  PROVE  QueueInv'
<1> DEFINE s == SessionOf[c]
           p == sessionQueues[s]
           q == IF p = NoCall \/ p \in resolved THEN Reactions(c) ELSE <<>>
<1>t. TypeOK
  BY DEF QueueInv
<1>s. s \in Sessions
  BY SessionAssumption
<1>n. pc[c] = "new"
  BY DEF Arrive
<1>u. UNCHANGED <<armed, resolved>>
  BY DEF Arrive
<1>p. \A d \in Calls : pc'[d] = IF d = c THEN "waiting" ELSE pc[d]
  BY <1>t DEF Arrive, TypeOK
<1>v. \A d \in Calls : previous'[d] = IF d = c THEN p ELSE previous[d]
  BY <1>t DEF Arrive, TypeOK
<1>q. \A r \in Sessions : sessionQueues'[r] = IF r = s THEN c ELSE sessionQueues[r]
  BY <1>t, <1>s DEF Arrive, TypeOK
<1>e. \A d \in Calls :
        earlier'[d] = IF d = c THEN {x \in Calls : SessionOf[x] = s /\ pc[x] # "new"}
                               ELSE earlier[d]
  BY <1>t DEF Arrive, TypeOK
<1>j. q \in Seq(Job) /\ jobs' = jobs \o q /\ (q = <<>> \/ q = Reactions(c))
  <2>1. Reactions(c) \in Seq(Job)
    BY ReactionsJobs
  <2>2. jobs \in Seq(Job) /\ jobs \o <<>> = jobs
    BY <1>t DEF TypeOK
  <2>3. jobs' = IF p = NoCall \/ p \in resolved THEN jobs \o Reactions(c) ELSE jobs
    BY DEF Arrive
  <2> QED BY <2>1, <2>2, <2>3
<1>r. q = Reactions(c) => p = NoCall \/ p \in resolved
  <2>1. Reactions(c) # <<>>
    BY DEF Reactions
  <2> QED BY <2>1
<1>y. /\ earlier \in [Calls -> SUBSET Calls]
      /\ p \in Calls \cup {NoCall}
      /\ resolved \in SUBSET Calls
      /\ previous \in [Calls -> Calls \cup {NoCall}]
      /\ sessionQueues \in [Sessions -> Calls \cup {NoCall}]
  BY <1>t, <1>s DEF TypeOK
<1>m. /\ p # NoCall => /\ pc[p] \in {"waiting", "working"}
                       /\ SessionOf[p] = s
                       /\ \A d \in Calls : SessionOf[d] = s /\ pc[d] # "new" =>
                            d \in earlier[p] \cup {p}
      /\ p = NoCall => \A d \in Calls : SessionOf[d] = s => pc[d] \in {"new", "done"}
  BY <1>s DEF QueueInv, MapHoldsLiveTail
<1>o. \A d \in Calls : \A x \in earlier[d] : x \in Calls /\ x # c
  BY <1>n, <1>y DEF QueueInv, ArrivalOrder
<1> HIDE DEF s, p, q
<1>1. TypeOK'
  <2>1. jobs' \in Seq(Job)
    BY <1>t, <1>j, AppendedJobs
  <2>2. pc' \in [Calls -> {"new", "waiting", "working", "done"}]
    BY <1>t DEF Arrive, TypeOK
  <2>3. /\ sessionQueues' \in [Sessions -> Calls \cup {NoCall}]
        /\ previous' \in [Calls -> Calls \cup {NoCall}]
        /\ earlier' \in [Calls -> SUBSET Calls]
    BY <1>t, <1>s, <1>y DEF Arrive, TypeOK, s, p
  <2> QED BY <1>t, <1>u, <2>1, <2>2, <2>3 DEF TypeOK
<1>2. ArrivalOrder'
  <2>1. ASSUME NEW d \in Calls, d # c
        PROVE  /\ d \notin earlier'[d]
               /\ pc'[d] = "new" => earlier'[d] = {}
               /\ \A x \in earlier'[d] : SessionOf[x] = SessionOf[d] /\ pc'[x] # "new"
    BY <1>p, <1>e, <1>o, <2>1 DEF QueueInv, ArrivalOrder
  <2>2. /\ c \notin earlier'[c]
        /\ pc'[c] = "waiting"
        /\ \A x \in earlier'[c] : SessionOf[x] = SessionOf[c] /\ pc'[x] # "new"
    BY <1>n, <1>p, <1>e DEF s
  <2> QED BY <2>1, <2>2 DEF ArrivalOrder
<1>3. MapHoldsLiveTail'
  <2> SUFFICES ASSUME NEW r \in Sessions
               PROVE  (IF sessionQueues[r] = NoCall
                         THEN \A d \in Calls : SessionOf[d] = r => pc[d] \in {"new", "done"}
                         ELSE /\ pc[sessionQueues[r]] \in {"waiting", "working"}
                              /\ SessionOf[sessionQueues[r]] = r
                              /\ \A d \in Calls : SessionOf[d] = r /\ pc[d] # "new" =>
                                   d \in earlier[sessionQueues[r]] \cup {sessionQueues[r]})'
    BY DEF MapHoldsLiveTail
  <2>1. CASE r = s
    <3>1. sessionQueues'[r] = c /\ c # NoCall /\ SessionOf[c] = r
      BY <1>q, <2>1, SessionAssumption DEF s
    <3>2. pc'[c] = "waiting"
      BY <1>p
    <3>3. \A d \in Calls : SessionOf[d] = r /\ pc'[d] # "new" => d \in earlier'[c] \cup {c}
      BY <1>p, <1>e, <2>1
    <3> QED BY <3>1, <3>2, <3>3
  <2>2. CASE r # s
    <3>1. sessionQueues'[r] = sessionQueues[r] /\ SessionOf[c] # r
      BY <1>q, <2>2 DEF s
    <3>2. sessionQueues[r] \in Calls \cup {NoCall}
      BY <1>y
    <3>3. CASE sessionQueues[r] = NoCall
      BY <1>p, <3>1, <3>3 DEF QueueInv, MapHoldsLiveTail
    <3>4. CASE sessionQueues[r] # NoCall
      <4>1. /\ sessionQueues[r] \in Calls
            /\ pc[sessionQueues[r]] \in {"waiting", "working"}
            /\ SessionOf[sessionQueues[r]] = r
            /\ \A d \in Calls : SessionOf[d] = r /\ pc[d] # "new" =>
                 d \in earlier[sessionQueues[r]] \cup {sessionQueues[r]}
        BY <3>2, <3>4 DEF QueueInv, MapHoldsLiveTail
      <4>2. sessionQueues[r] # c
        BY <1>n, <4>1
      <4> QED BY <1>p, <1>e, <3>1, <3>4, <4>1, <4>2
    <3> QED BY <3>3, <3>4
  <2> QED BY <2>1, <2>2
<1>4. PreviousIsLast'
  <2> SUFFICES ASSUME NEW d \in Calls, pc'[d] # "new"
               PROVE  (IF previous[d] = NoCall
                         THEN \A x \in earlier[d] : pc[x] = "done"
                         ELSE earlier[d] = earlier[previous[d]] \cup {previous[d]})'
    BY DEF PreviousIsLast
  <2>1. CASE d = c /\ p = NoCall
    <3>1. \A x \in earlier'[c] : x \in Calls /\ x # c /\ pc[x] = "done"
      BY <1>e, <1>m, <1>n, <2>1
    <3>2. previous'[d] = NoCall /\ \A x \in earlier'[d] : pc'[x] = "done"
      BY <1>p, <1>v, <2>1, <3>1
    <3> QED BY <3>2
  <2>2. CASE d = c /\ p # NoCall
    <3>1. p \in Calls /\ p # c
      BY <1>y, <1>m, <1>n, <2>2
    <3>2. \A x \in earlier[p] : x \in Calls /\ SessionOf[x] = s /\ pc[x] # "new"
      BY <1>m, <1>o, <2>2, <3>1 DEF QueueInv, ArrivalOrder
    <3>3. {x \in Calls : SessionOf[x] = s /\ pc[x] # "new"} = earlier[p] \cup {p}
      BY <1>m, <2>2, <3>1, <3>2
    <3> QED BY <1>v, <1>e, <2>2, <3>1, <3>3
  <2>3. CASE d # c
    <3>1. /\ pc[d] # "new" /\ earlier'[d] = earlier[d] /\ previous'[d] = previous[d]
          /\ previous[d] \in Calls \cup {NoCall}
      BY <1>p, <1>v, <1>e, <1>y, <2>3
    <3>2. IF previous[d] = NoCall
            THEN \A x \in earlier[d] : pc[x] = "done"
            ELSE earlier[d] = earlier[previous[d]] \cup {previous[d]}
      BY <3>1 DEF QueueInv, PreviousIsLast
    <3>3. CASE previous[d] = NoCall
      BY <1>p, <1>o, <3>1, <3>2, <3>3
    <3>4. CASE previous[d] # NoCall
      <4>1. previous[d] \in Calls /\ previous[d] # c
        BY <1>o, <3>1, <3>2, <3>4
      <4> QED BY <1>e, <3>1, <3>2, <3>4, <4>1
    <3> QED BY <3>3, <3>4
  <2> QED BY <2>1, <2>2, <2>3
<1>5. WorksAfterEarlier'
  BY <1>p, <1>e, <1>o DEF QueueInv, WorksAfterEarlier
<1>6. ResolvedAreDone'
  BY <1>u, <1>p, <1>y, <1>n DEF QueueInv, ResolvedAreDone
<1>7. /\ Len(jobs) \in Nat /\ Len(q) \in Nat /\ Len(jobs') = Len(jobs) + Len(q)
      /\ \A i \in 1 .. Len(jobs) : jobs'[i] = jobs[i]
      /\ \A i \in Len(jobs) + 1 .. Len(jobs) + Len(q) : jobs'[i] = q[i - Len(jobs)]
  BY <1>t, <1>j, AppendedJobs
<1>8. ASSUME NEW i \in 1 .. Len(jobs'), i > Len(jobs)
      PROVE  /\ q = Reactions(c)
             /\ jobs'[i].call = c
             /\ \/ jobs'[i].kind = "catchCurrent" /\ i = Len(jobs) + 1
                \/ jobs'[i].kind = "catchWait" /\ i = Len(jobs) + 2
  <2>1. i \in Len(jobs) + 1 .. Len(jobs) + Len(q) /\ i - Len(jobs) \in 1 .. Len(q)
    BY <1>7, <1>8
  <2>2. jobs'[i] = q[i - Len(jobs)]
    BY <1>7, <2>1
  <2>3. q = Reactions(c)
    <3>1. CASE q = <<>>
      <4>1. Len(q) = 0
        BY <3>1
      <4> QED BY <1>7, <2>1, <4>1
    <3> QED BY <1>j, <3>1
  <2>4. /\ Len(q) = 2 /\ q[1] = J("catchCurrent", c) /\ q[2] = J("catchWait", c)
    BY <2>3, ReactionsJobs
  <2>5. i - Len(jobs) = 1 \/ i - Len(jobs) = 2
    BY <2>1, <2>4
  <2> QED BY <1>7, <2>2, <2>3, <2>4, <2>5 DEF J
<1>9. ASSUME NEW i \in 1 .. Len(jobs)
      PROVE  /\ jobs[i].call \in Calls
             /\ JobTimely(jobs[i].kind, jobs[i].call)
             /\ jobs[i].call # c
  <2>1. jobs[i].call \in Calls
    BY <1>t, JobType
  <2>2. JobTimely(jobs[i].kind, jobs[i].call)
    BY DEF QueueInv, JobsTimely
  <2> QED BY <1>n, <2>1, <2>2 DEF JobTimely
<1>10. JobsTimely'
  <2> SUFFICES ASSUME NEW i \in 1 .. Len(jobs')
               PROVE  JobTimely(jobs[i].kind, jobs[i].call)'
    BY DEF JobsTimely
  <2>1. CASE i <= Len(jobs)
    <3>1. i \in 1 .. Len(jobs) /\ jobs'[i] = jobs[i]
      BY <1>7, <2>1
    <3> QED BY <1>u, <1>p, <1>v, <1>9, <3>1 DEF JobTimely, PreviousResolved
  <2>2. CASE i > Len(jobs)
    <3>1. /\ jobs'[i].call = c /\ jobs'[i].kind \in {"catchCurrent", "catchWait"}
          /\ q = Reactions(c)
      BY <1>8, <2>2
    <3>2. previous'[c] = NoCall \/ previous'[c] \in resolved'
      BY <1>r, <1>v, <1>u, <3>1
    <3>3. pc'[c] = "waiting"
      BY <1>p
    <3> QED BY <3>1, <3>2, <3>3 DEF JobTimely, PreviousResolved, EnterKinds
  <2> QED BY <1>7, <2>1, <2>2
<1>11. JobsOnce'
  <2> SUFFICES ASSUME NEW i \in 1 .. Len(jobs'), NEW j \in 1 .. Len(jobs'), i # j,
                      jobs'[i].call = jobs'[j].call
               PROVE  /\ ~(jobs'[i].kind \in EnterKinds /\ jobs'[j].kind \in EnterKinds)
                      /\ ~(jobs'[i].kind = "settle" /\ jobs'[j].kind = "settle")
    BY DEF JobsOnce
  <2>0. i \in Nat /\ j \in Nat
    BY <1>7
  <2>1. ASSUME NEW k \in 1 .. Len(jobs'), k <= Len(jobs)
        PROVE  k \in 1 .. Len(jobs) /\ jobs'[k] = jobs[k] /\ jobs'[k].call # c
    <3>1. k \in 1 .. Len(jobs)
      BY <1>7, <2>1
    <3> QED BY <1>7, <1>9, <3>1
  <2>2. CASE i <= Len(jobs) /\ j <= Len(jobs)
    BY <2>1, <2>2 DEF QueueInv, JobsOnce
  <2>3. CASE i > Len(jobs) /\ j > Len(jobs)
    BY <1>8, <2>3 DEF EnterKinds
  <2>4. CASE i <= Len(jobs) /\ j > Len(jobs)
    BY <1>8, <2>1, <2>4
  <2>5. CASE i > Len(jobs) /\ j <= Len(jobs)
    BY <1>8, <2>1, <2>5
  <2> QED BY <1>7, <2>0, <2>2, <2>3, <2>4, <2>5
<1> QED BY <1>1, <1>2, <1>3, <1>4, <1>5, <1>6, <1>10, <1>11 DEF QueueInv

\* The finally block: the entry is deleted only when everybody has left.
LEMMA LeaveInv ==
  ASSUME QueueInv, NEW c \in Calls, Leave(c)
  PROVE  QueueInv'
<1> DEFINE s == SessionOf[c]
           q == IF c \in armed THEN <<J("settle", c)>> ELSE <<>>
<1>t. TypeOK
  BY DEF QueueInv
<1>s. s \in Sessions
  BY SessionAssumption
<1>n. pc[c] = "working" /\ c \notin resolved /\ \A x \in earlier[c] : pc[x] = "done"
  BY DEF Leave, QueueInv, ResolvedAreDone, WorksAfterEarlier
<1>u. UNCHANGED <<previous, armed, resolved, earlier>>
  BY DEF Leave
<1>p. \A d \in Calls : pc'[d] = IF d = c THEN "done" ELSE pc[d]
  BY <1>t DEF Leave, TypeOK
<1>q. \A r \in Sessions : sessionQueues'[r] =
        IF r = s /\ sessionQueues[r] = c THEN NoCall ELSE sessionQueues[r]
  BY <1>t, <1>s DEF Leave, TypeOK
<1>y. /\ earlier \in [Calls -> SUBSET Calls]
      /\ resolved \in SUBSET Calls
      /\ sessionQueues \in [Sessions -> Calls \cup {NoCall}]
  BY <1>t DEF TypeOK
<1>j. q \in Seq(Job) /\ jobs' = jobs \o q /\ Len(q) <= 1
      /\ \A i \in 1 .. Len(q) : q[i] = J("settle", c)
  <2>1. jobs \in Seq(Job) /\ jobs \o <<>> = jobs
    BY <1>t DEF TypeOK
  <2>2. J("settle", c) \in Job
    BY DEF J, Job
  <2>3. jobs' = IF c \in armed THEN Append(jobs, J("settle", c)) ELSE jobs
    BY DEF Leave, Release
  <2>4. Append(jobs, J("settle", c)) = jobs \o <<J("settle", c)>>
    BY <2>1, <2>2
  <2> QED BY <2>1, <2>2, <2>3, <2>4
<1> HIDE DEF s, q
<1>1. TypeOK'
  <2>1. jobs' \in Seq(Job)
    BY <1>t, <1>j, AppendedJobs
  <2>2. pc' \in [Calls -> {"new", "waiting", "working", "done"}]
    BY <1>t DEF Leave, TypeOK
  <2>3. sessionQueues' \in [Sessions -> Calls \cup {NoCall}]
    BY <1>t DEF Leave, TypeOK
  <2> QED BY <1>t, <1>u, <2>1, <2>2, <2>3 DEF TypeOK
<1>2. ArrivalOrder'
  BY <1>u, <1>p, <1>y, <1>n DEF QueueInv, ArrivalOrder
<1>3. MapHoldsLiveTail'
  <2> SUFFICES ASSUME NEW r \in Sessions
               PROVE  (IF sessionQueues[r] = NoCall
                         THEN \A d \in Calls : SessionOf[d] = r => pc[d] \in {"new", "done"}
                         ELSE /\ pc[sessionQueues[r]] \in {"waiting", "working"}
                              /\ SessionOf[sessionQueues[r]] = r
                              /\ \A d \in Calls : SessionOf[d] = r /\ pc[d] # "new" =>
                                   d \in earlier[sessionQueues[r]] \cup {sessionQueues[r]})'
    BY DEF MapHoldsLiveTail
  <2>0. IF sessionQueues[r] = NoCall
          THEN \A d \in Calls : SessionOf[d] = r => pc[d] \in {"new", "done"}
          ELSE /\ pc[sessionQueues[r]] \in {"waiting", "working"}
               /\ SessionOf[sessionQueues[r]] = r
               /\ \A d \in Calls : SessionOf[d] = r /\ pc[d] # "new" =>
                    d \in earlier[sessionQueues[r]] \cup {sessionQueues[r]}
    BY DEF QueueInv, MapHoldsLiveTail
  <2>1. CASE sessionQueues[r] = c
    <3>1. r = s /\ c # NoCall
      BY <2>0, <2>1, SessionAssumption DEF s
    <3>2. sessionQueues'[r] = NoCall
      BY <1>q, <2>1, <3>1
    <3>3. \A d \in Calls : SessionOf[d] = r /\ pc[d] # "new" => d = c \/ pc[d] = "done"
      BY <1>n, <2>0, <2>1, <3>1
    <3>4. \A d \in Calls : SessionOf[d] = r => pc'[d] \in {"new", "done"}
      BY <1>p, <3>3
    <3> QED BY <3>2, <3>4
  <2>2. CASE sessionQueues[r] # c
    <3>1. sessionQueues'[r] = sessionQueues[r] /\ sessionQueues[r] \in Calls \cup {NoCall}
      BY <1>q, <1>y, <2>2
    <3>2. CASE sessionQueues[r] = NoCall
      BY <1>p, <2>0, <3>1, <3>2
    <3>3. CASE sessionQueues[r] # NoCall
      <4>1. \A d \in Calls : pc'[d] # "new" => pc[d] # "new"
        BY <1>p, <1>n
      <4> QED BY <1>p, <1>u, <2>0, <2>2, <3>1, <3>3, <4>1
    <3> QED BY <3>2, <3>3
  <2> QED BY <2>1, <2>2
<1>4. PreviousIsLast'
  BY <1>u, <1>p, <1>y, <1>n DEF QueueInv, PreviousIsLast
<1>5. WorksAfterEarlier'
  BY <1>u, <1>p, <1>y, <1>n DEF QueueInv, WorksAfterEarlier
<1>6. ResolvedAreDone'
  BY <1>u, <1>p, <1>y DEF QueueInv, ResolvedAreDone
<1>7. /\ Len(jobs) \in Nat /\ Len(q) \in Nat /\ Len(jobs') = Len(jobs) + Len(q)
      /\ \A i \in 1 .. Len(jobs) : jobs'[i] = jobs[i]
      /\ \A i \in Len(jobs) + 1 .. Len(jobs) + Len(q) : jobs'[i] = q[i - Len(jobs)]
  BY <1>t, <1>j, AppendedJobs
<1>8. ASSUME NEW i \in 1 .. Len(jobs'), i > Len(jobs)
      PROVE  i = Len(jobs) + 1 /\ jobs'[i].kind = "settle" /\ jobs'[i].call = c
  <2>1. /\ i \in Len(jobs) + 1 .. Len(jobs) + Len(q) /\ i - Len(jobs) \in 1 .. Len(q)
        /\ i = Len(jobs) + 1
    BY <1>7, <1>8, <1>j
  <2> QED BY <1>j, <1>7, <2>1 DEF J
<1>9. ASSUME NEW i \in 1 .. Len(jobs)
      PROVE  /\ jobs[i].call \in Calls
             /\ JobTimely(jobs[i].kind, jobs[i].call)
             /\ jobs[i].call = c => jobs[i].kind \notin EnterKinds /\ jobs[i].kind # "settle"
  <2>1. jobs[i].call \in Calls
    BY <1>t, JobType
  <2>2. JobTimely(jobs[i].kind, jobs[i].call)
    BY DEF QueueInv, JobsTimely
  <2> QED BY <1>n, <2>1, <2>2 DEF JobTimely
<1>10. JobsTimely'
  <2> SUFFICES ASSUME NEW i \in 1 .. Len(jobs')
               PROVE  JobTimely(jobs[i].kind, jobs[i].call)'
    BY DEF JobsTimely
  <2>1. CASE i <= Len(jobs)
    <3>1. i \in 1 .. Len(jobs) /\ jobs'[i] = jobs[i]
      BY <1>7, <2>1
    <3> QED BY <1>u, <1>p, <1>9, <3>1 DEF JobTimely, PreviousResolved
  <2>2. CASE i > Len(jobs)
    <3>1. jobs'[i].kind = "settle" /\ jobs'[i].call = c
      BY <1>8, <2>2
    <3>2. pc'[c] = "done" /\ c \notin resolved'
      BY <1>n, <1>p, <1>u
    <3> QED BY <3>1, <3>2 DEF JobTimely, EnterKinds
  <2> QED BY <1>7, <2>1, <2>2
<1>11. JobsOnce'
  <2> SUFFICES ASSUME NEW i \in 1 .. Len(jobs'), NEW j \in 1 .. Len(jobs'), i # j,
                      jobs'[i].call = jobs'[j].call
               PROVE  /\ ~(jobs'[i].kind \in EnterKinds /\ jobs'[j].kind \in EnterKinds)
                      /\ ~(jobs'[i].kind = "settle" /\ jobs'[j].kind = "settle")
    BY DEF JobsOnce
  <2>0. i \in Nat /\ j \in Nat
    BY <1>7
  <2>1. ASSUME NEW k \in 1 .. Len(jobs'), k <= Len(jobs)
        PROVE  /\ k \in 1 .. Len(jobs) /\ jobs'[k] = jobs[k]
               /\ jobs'[k].call = c => jobs'[k].kind # "settle"
    <3>1. k \in 1 .. Len(jobs)
      BY <1>7, <2>1
    <3> QED BY <1>7, <1>9, <3>1
  <2>2. CASE i <= Len(jobs) /\ j <= Len(jobs)
    BY <2>1, <2>2 DEF QueueInv, JobsOnce
  <2>3. CASE i > Len(jobs) /\ j > Len(jobs)
    BY <1>8, <2>3
  <2>4. CASE i <= Len(jobs) /\ j > Len(jobs)
    BY <1>8, <2>1, <2>4 DEF EnterKinds
  <2>5. CASE i > Len(jobs) /\ j <= Len(jobs)
    BY <1>8, <2>1, <2>5 DEF EnterKinds
  <2> QED BY <1>7, <2>0, <2>2, <2>3, <2>4, <2>5
<1> QED BY <1>1, <1>2, <1>3, <1>4, <1>5, <1>6, <1>10, <1>11 DEF QueueInv

-----------------------------------------------------------------------------
(* The theorems *)

\* The map of session queues and the chain of promises are in order: an entry
\* is the newest call of its session and has not ended; a session without an
\* entry is idle.
THEOREM MapInOrder == Spec => []MapHoldsLiveTail
<1>1. QueueInv /\ [Next]_vars => QueueInv'
  <2> SUFFICES ASSUME QueueInv, [Next]_vars PROVE QueueInv' OBVIOUS
  <2>1. ASSUME NEW c \in Calls, Arrive(c) \/ Leave(c) \/ PromiseJob(c) PROVE QueueInv'
    BY <2>1, ArriveInv, LeaveInv, PassThroughInv, ArmInv, EnterInv, SettleInv DEF PromiseJob
  <2>2. CASE UNCHANGED vars
    BY <2>2 DEF vars, QueueInv, TypeOK, ArrivalOrder, MapHoldsLiveTail, PreviousIsLast,
                WorksAfterEarlier, ResolvedAreDone, JobsTimely, JobTimely, JobsOnce,
                PreviousResolved
  <2> QED BY <2>1, <2>2 DEF Next
<1>2. QueueInv => MapHoldsLiveTail
  BY DEF QueueInv
<1> QED BY <1>1, <1>2, InitInv, PTL DEF Spec

\* Works of one session run one at a time and in arrival order: every step of
\* the promise chain is a step of the gate or leaves it alone.
THEOREM QueueImplementsGate == Spec => ImplementsGate
<1>1. Init => Gate!GateInit
  BY DEF Init, Gate!GateInit
<1>2. QueueInv /\ [Next]_vars => QueueInv' /\ [Gate!GateNext]_(Gate!gateVars)
  <2> SUFFICES ASSUME QueueInv, [Next]_vars
               PROVE  QueueInv' /\ [Gate!GateNext]_(Gate!gateVars)
    OBVIOUS
  <2>1. ASSUME NEW c \in Calls, Arrive(c)
        PROVE  QueueInv' /\ Gate!GateArrive(c)
    BY <2>1, ArriveInv DEF Arrive, Gate!GateArrive, Gate!SameSessionArrived
  <2>2. ASSUME NEW c \in Calls, Enter(c)
        PROVE  QueueInv' /\ Gate!GateEnter(c)
    BY <2>2, EnterInv, EnterTurn DEF Enter, Gate!GateEnter
  <2>3. ASSUME NEW c \in Calls, Leave(c)
        PROVE  QueueInv' /\ Gate!GateLeave(c)
    BY <2>3, LeaveInv DEF Leave, Gate!GateLeave
  <2>4. ASSUME NEW c \in Calls, PassThrough(c) \/ Arm(c) \/ Settle(c)
        PROVE  QueueInv' /\ UNCHANGED Gate!gateVars
    BY <2>4, PassThroughInv, ArmInv, SettleInv DEF PassThrough, Arm, Settle, Gate!gateVars
  <2>5. CASE UNCHANGED vars
    BY <2>5 DEF vars, Gate!gateVars, QueueInv, TypeOK, ArrivalOrder, MapHoldsLiveTail,
                PreviousIsLast, WorksAfterEarlier, ResolvedAreDone, JobsTimely, JobTimely,
                JobsOnce, PreviousResolved
  <2> QED BY <2>1, <2>2, <2>3, <2>4, <2>5 DEF Next, PromiseJob, Gate!GateNext
<1> QED BY <1>1, <1>2, InitInv, PTL DEF Spec, ImplementsGate, Gate!GateSpec

\* What the gate keeps, read for the promise chain.
Kept == INSTANCE SessionGateProofs WITH phase <- pc

LEMMA QueueIsGate == Spec => Kept!GateSpec
<1>1. Gate!GateInit => Kept!GateInit
  BY DEF Gate!GateInit, Kept!GateInit
<1>2. [Gate!GateNext]_(Gate!gateVars) => [Kept!GateNext]_(Kept!gateVars)
  BY DEF Gate!GateNext, Gate!GateArrive, Gate!GateEnter, Gate!GateLeave,
         Gate!SameSessionArrived, Gate!gateVars,
         Kept!GateNext, Kept!GateArrive, Kept!GateEnter, Kept!GateLeave,
         Kept!SameSessionArrived, Kept!gateVars
<1> QED
  BY <1>1, <1>2, QueueImplementsGate, PTL DEF ImplementsGate, Gate!GateSpec, Kept!GateSpec

\* The promise chain of runInSingleMachineRuntimeSession never lets two works of
\* one session run at once.
THEOREM SessionsExclude == Spec => []Kept!OneWorkPerSession
BY QueueIsGate, Kept!GateExcludes, PTL

\* Nor does it let a call overtake one of the same session that came before and
\* still waits, in whatever order promise jobs and the ends of works come.
THEOREM SessionsInOrder == Spec => Kept!NoOvertaking
BY QueueIsGate, Kept!GateInOrder, PTL
=============================================================================
