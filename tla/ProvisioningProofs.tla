-------------------------- MODULE ProvisioningProofs --------------------------
(***************************************************************************)
(* Proofs about Provisioning, for any number of tenants, jobs, ports and   *)
(* faults.  The types hold with any number of workers; the other results   *)
(* are about one worker at a time, as the control plane runs it: a lease   *)
(* that runs out while its worker goes on gives the job to no other.       *)
(***************************************************************************)
EXTENDS Provisioning, WellFoundedInduction, TLAPS

OneWorker == \A v, w \in Worker : v = w

-----------------------------------------------------------------------------
(* The invariant that holds with any number of workers.                    *)

Steps == Labels \ {"idle", "load", "next"}

\* Jobs are numbered in their order, are each of a tenant that was created, and
\* one of them creates it.
JobsInv ==
    /\ \A j \in JobId : Exists(j) => jobs[j].tenant \in Tenant /\ tenants[jobs[j].tenant].status # "none"
    /\ \A i, j \in JobId : Exists(j) /\ i < j => Exists(i)
    /\ \A i, j \in JobId : jobs[i].type = "create" /\ jobs[j].type = "create" /\ jobs[i].tenant = jobs[j].tenant
                             => i = j

\* A worker works on jobs that are there.
WorkInv ==
    \A w \in Worker : /\ \A j \in worker[w].todo : Exists(j)
                      /\ worker[w].pc \in Steps => worker[w].job \in JobId /\ Exists(worker[w].job)

QueueInv == TypeOK /\ JobsInv /\ WorkInv

-----------------------------------------------------------------------------
(* The lowest and the highest number.                                      *)

LessThan == {p \in Nat \X Nat : p[1] < p[2]}

LEMMA LowestExists ==
  ASSUME NEW S \in SUBSET Nat, S # {}
  PROVE  \E x \in S : \A y \in S : x <= y
  <1>1. LessThan = OpToRel(<, Nat)
    BY Zenon DEF LessThan, OpToRel
  <1>2. IsWellFoundedOn(LessThan, Nat)
    BY <1>1, NatLessThanWellFounded, Zenon
  <1>3. PICK x \in S : \A y \in S : ~ (<<y, x>> \in LessThan)
    BY <1>2, WFMin
  <1>4. ASSUME NEW y \in S PROVE x <= y
    <2>1. <<y, x>> \in Nat \X Nat /\ <<y, x>>[1] = y /\ <<y, x>>[2] = x
      OBVIOUS
    <2>2. ~(y < x)
      BY <1>3, <2>1 DEF LessThan
    <2>3. QED
      BY <2>2
  <1>5. QED
    BY <1>4

LEMMA LowestIsOne ==
  ASSUME NEW S \in SUBSET Nat, S # {}
  PROVE  Min(S) \in S
  BY LowestExists DEF Min

LEMMA HighestIsOne ==
  ASSUME NEW n \in Nat, NEW S \in SUBSET (1..n), S # {}
  PROVE  Max(S) \in S /\ \A y \in S : Max(S) >= y
  <1> DEFINE T == {n - x : x \in S}
  <1>1. T \in SUBSET Nat /\ T # {}
    <2>1. \A x \in S : x \in 1..n /\ n - x \in Nat
      OBVIOUS
    <2>2. QED
      BY <2>1
  <1>2. PICK m \in T : \A y \in T : m <= y
    BY <1>1, LowestExists
  <1>3. PICK x \in S : m = n - x
    BY <1>2
  <1>4. ASSUME NEW y \in S PROVE x >= y
    <2>1. n - y \in T
      OBVIOUS
    <2>2. n - x <= n - y
      BY <1>2, <1>3, <2>1
    <2>3. x \in 1..n /\ y \in 1..n
      OBVIOUS
    <2>4. QED
      BY <2>2, <2>3
  <1>5. QED
    BY <1>4 DEF Max

-----------------------------------------------------------------------------
(* Types.                                                                  *)

\* What a worker has.
LEMMA WorkerFields ==
  ASSUME TypeOK, NEW w \in Worker
  PROVE  /\ worker[w] \in WorkerState /\ worker[w].pc \in Labels /\ worker[w].todo \subseteq JobId
         /\ worker[w].job \in OptJob /\ worker[w].port \in OptPort
         /\ worker[w].tenants \in [Tenant -> TenantRow] /\ worker[w].jobs \in [JobId -> JobRow]
  BY DEF TypeOK, WorkerState

LEMMA JobFields ==
  ASSUME TypeOK, NEW j \in JobId
  PROVE  /\ jobs[j] \in JobRow /\ jobs[j].attempts \in 0..MaxAttempts /\ jobs[j].port \in OptPort
         /\ jobs[j].type \in {"none", "create", "settings"}
         /\ jobs[j].status \in {"pending", "running", "succeeded", "failed"}
         /\ jobs[j].lease \in {"none", "running", "over"} /\ jobs[j].backoff \in BOOLEAN
  BY DEF TypeOK, JobRow

LEMMA HostFields ==
  ASSUME TypeOK, NEW t \in Tenant
  PROVE  /\ host[t] \in Host /\ host[t].config \in OptPort /\ host[t].site \in OptPort
         /\ host[t].env \in [port : OptPort, settings : 0..MaxSettings]
         /\ host[t].service \in [port : OptPort, settings : 0..MaxSettings]
         /\ host[t].database \in BOOLEAN /\ host[t].started \in BOOLEAN /\ host[t].certificate \in BOOLEAN
         /\ tenants[t] \in TenantRow /\ tenants[t].settings \in 0..MaxSettings
  BY DEF TypeOK, Host, TenantRow

LEMMA EmptyRows ==
  /\ NoTenant \in TenantRow /\ NoJob \in JobRow /\ EmptyHost \in Host /\ Idle \in WorkerState
  /\ Down \in [port : OptPort, settings : 0..MaxSettings] /\ NoJob.type = "none"
  /\ Idle.pc = "idle" /\ Idle.todo = {}
  <1>1. NoTenant \in TenantRow
    BY BoundsAssumption DEF NoTenant, TenantRow
  <1>2. NoJob \in JobRow /\ NoJob.type = "none"
    BY BoundsAssumption, AttemptsAssumption DEF NoJob, JobRow, OptPort
  <1>3. Down \in [port : OptPort, settings : 0..MaxSettings]
    BY BoundsAssumption DEF Down, OptPort
  <1>4. EmptyHost \in Host
    BY <1>3, BoundsAssumption DEF EmptyHost, Host, OptPort
  <1>5. Idle \in WorkerState /\ Idle.pc = "idle" /\ Idle.todo = {}
    BY <1>1, <1>2, BoundsAssumption DEF Idle, WorkerState, OptPort, OptJob, Labels
  <1>6. QED
    BY <1>1, <1>2, <1>3, <1>4, <1>5

\* One worker goes on with its batch.
LEMMA WorkerGoes ==
  ASSUME TypeOK, WorkInv, NEW w \in Worker, NEW row \in WorkerState, worker' = [worker EXCEPT ![w] = row],
         \A j \in JobId : Exists(j) => Exists(j)',
         \A j \in row.todo : Exists(j)',
         row.pc \in Steps => row.job \in JobId /\ Exists(row.job)'
  PROVE  worker' \in [Worker -> WorkerState] /\ WorkInv'
  <1>1. worker' \in [Worker -> WorkerState] /\ worker'[w] = row /\ \A v \in Worker \ {w} : worker'[v] = worker[v]
    BY DEF TypeOK
  <1>2. \A v \in Worker : worker[v].todo \subseteq JobId
    BY WorkerFields
  <1>3. QED
    BY <1>1, <1>2 DEF WorkInv

\* One step, and nothing else of the worker changes.
LEMMA GotoGoes ==
  ASSUME TypeOK, WorkInv, NEW w \in Worker, NEW label \in Labels, Goto(w, label),
         \A j \in JobId : Exists(j) => Exists(j)',
         worker[w].pc \in Steps
  PROVE  worker' \in [Worker -> WorkerState] /\ WorkInv'
  <1> DEFINE row == [worker[w] EXCEPT !.pc = label]
  <1>1. worker' = [worker EXCEPT ![w] = row]
    BY DEF Goto, TypeOK
  <1>2. row \in WorkerState /\ row.todo = worker[w].todo /\ row.job = worker[w].job
    BY WorkerFields DEF WorkerState
  <1> HIDE DEF row
  <1>3. worker[w].todo \subseteq JobId /\ worker[w].job \in JobId /\ Exists(worker[w].job)
    BY WorkerFields DEF WorkInv
  <1>4. QED
    BY <1>1, <1>2, <1>3, WorkerGoes DEF WorkInv

\* The job of a worker and its tenant.
LEMMA TargetIs ==
  ASSUME QueueInv, NEW w \in Worker, worker[w].pc \in Steps
  PROVE  /\ worker[w].job \in JobId /\ Exists(worker[w].job) /\ Target(w) \in Tenant
         /\ tenants[Target(w)].status # "none" /\ Creates(w) \in BOOLEAN
  BY DEF QueueInv, JobsInv, WorkInv, Target, Creates

\* A step on the host of one tenant.
LEMMA HostStep ==
  ASSUME QueueInv, NEW w \in Worker, NEW label \in Labels, NEW h \in Host, worker[w].pc \in Steps,
         host' = [host EXCEPT ![Target(w)] = h], Goto(w, label), UNCHANGED <<tenants, jobs, faults>>
  PROVE  QueueInv'
  <1>1. \A j \in JobId : Exists(j)' <=> Exists(j)
    BY DEF Exists
  <1>2. worker' \in [Worker -> WorkerState] /\ WorkInv'
    BY <1>1, GotoGoes DEF QueueInv
  <1>3. host' \in [Tenant -> Host]
    BY DEF QueueInv, TypeOK
  <1>4. TypeOK'
    BY <1>2, <1>3 DEF QueueInv, TypeOK
  <1>5. JobsInv'
    BY <1>1 DEF QueueInv, JobsInv
  <1>6. QED
    BY <1>2, <1>4, <1>5 DEF QueueInv

\* A step of a worker alone.
LEMMA WorkerStep ==
  ASSUME QueueInv, NEW w \in Worker, NEW row \in WorkerState, worker' = [worker EXCEPT ![w] = row],
         UNCHANGED <<tenants, jobs, host>>, faults' \in 0..MaxFaults,
         \A j \in row.todo : Exists(j),
         row.pc \in Steps => row.job \in JobId /\ Exists(row.job)
  PROVE  QueueInv'
  <1>1. \A j : Exists(j)' <=> Exists(j)
    BY DEF Exists
  <1>2. worker' \in [Worker -> WorkerState] /\ WorkInv'
    BY <1>1, WorkerGoes DEF QueueInv
  <1>3. TypeOK'
    BY <1>2 DEF QueueInv, TypeOK
  <1>4. JobsInv'
    BY <1>1 DEF QueueInv, JobsInv
  <1>5. QED
    BY <1>2, <1>3, <1>4 DEF QueueInv

\* Outcomes and clocks change a job's row, not what job it is.
LEMMA JobsStay ==
  ASSUME QueueInv, jobs' \in [JobId -> JobRow],
         \A j \in JobId : jobs'[j].type = jobs[j].type /\ jobs'[j].tenant = jobs[j].tenant,
         \A t \in Tenant : tenants[t].status # "none" => tenants'[t].status # "none"
  PROVE  JobsInv' /\ \A j \in JobId : Exists(j)' <=> Exists(j)
  <1>1. \A j \in JobId : Exists(j)' <=> Exists(j)
    BY DEF Exists
  <1>2. QED
    BY <1>1 DEF QueueInv, JobsInv

-----------------------------------------------------------------------------
(* The queue.                                                              *)

LEMMA EnqueueStep ==
  ASSUME QueueInv, NEW t \in Tenant, NEW j \in JobId, NEW type \in {"create", "settings"}, Enqueue(j, type, t),
         tenants' \in [Tenant -> TenantRow], tenants'[t].status # "none",
         \A u \in Tenant : tenants[u].status # "none" => tenants'[u].status # "none",
         type = "create" => tenants[t].status = "none",
         UNCHANGED <<host, worker, faults>>
  PROVE  QueueInv'
  <1> DEFINE row == [NoJob EXCEPT !.type = type, !.tenant = t]
  <1>1. /\ ~Exists(j) /\ \A i \in JobId : i < j => Exists(i)
        /\ jobs' = [jobs EXCEPT ![j] = row]
    BY DEF Enqueue
  <1>2. row \in JobRow /\ row.type = type /\ row.tenant = t
    BY EmptyRows DEF JobRow, NoJob
  <1> HIDE DEF row
  <1>3. /\ jobs' \in [JobId -> JobRow] /\ jobs'[j] = row
        /\ \A i \in JobId \ {j} : jobs'[i] = jobs[i]
    BY <1>1, <1>2 DEF QueueInv, TypeOK
  <1>4. TypeOK'
    BY <1>3 DEF QueueInv, TypeOK
  <1>5. \A i \in JobId : Exists(i)' <=> i = j \/ Exists(i)
    BY <1>2, <1>3 DEF Exists
  <1>6. JobsInv'
    <2>1. \A i \in JobId : Exists(i)' => jobs'[i].tenant \in Tenant /\ tenants'[jobs'[i].tenant].status # "none"
      BY <1>2, <1>3, <1>5 DEF QueueInv, JobsInv
    <2>2. \A i, k \in JobId : Exists(k)' /\ i < k => Exists(i)'
      BY <1>1, <1>5 DEF QueueInv, JobsInv
    <2>3. \A i \in JobId \ {j} : jobs[i].type = "create" /\ jobs[i].tenant = t => type # "create"
      BY DEF QueueInv, JobsInv, Exists
    <2>4. (\A i, k \in JobId : jobs[i].type = "create" /\ jobs[k].type = "create" /\ jobs[i].tenant = jobs[k].tenant
                                 => i = k)'
      BY <1>2, <1>3, <2>3 DEF QueueInv, JobsInv
    <2>5. QED
      BY <2>1, <2>2, <2>4 DEF JobsInv
  <1>7. WorkInv'
    BY <1>5, WorkerFields DEF QueueInv, WorkInv
  <1>8. QED
    BY <1>4, <1>6, <1>7 DEF QueueInv

LEMMA ApiQueue ==
  ASSUME QueueInv, NEW t \in Tenant, NEW j \in JobId, CreateTenant(t, j) \/ UpdateRegionalSettings(t, j)
  PROVE  QueueInv'
  <1>1. CASE CreateTenant(t, j)
    <2>1. tenants[t].status = "none" /\ Enqueue(j, "create", t) /\ UNCHANGED <<host, worker, faults>>
          /\ tenants' = [tenants EXCEPT ![t] = [status |-> "provisioning", settings |-> 1]]
      BY <1>1 DEF CreateTenant
    <2>2. [status |-> "provisioning", settings |-> 1] \in TenantRow
      BY BoundsAssumption DEF TenantRow
    <2>3. /\ tenants' \in [Tenant -> TenantRow] /\ tenants'[t].status # "none"
          /\ \A u \in Tenant : tenants[u].status # "none" => tenants'[u].status # "none"
      BY <2>1, <2>2 DEF QueueInv, TypeOK
    <2>4. QED
      BY <2>1, <2>3, EnqueueStep
  <1>2. CASE UpdateRegionalSettings(t, j)
    <2> DEFINE row == [tenants[t] EXCEPT !.settings = tenants[t].settings + 1]
    <2>1. /\ tenants[t].status # "none" /\ tenants[t].settings < MaxSettings
          /\ Enqueue(j, "settings", t) /\ UNCHANGED <<host, worker, faults>>
      BY <1>2 DEF UpdateRegionalSettings
    <2>2. tenants' = [tenants EXCEPT ![t] = row]
      BY <1>2 DEF UpdateRegionalSettings, QueueInv, TypeOK
    <2>3. row \in TenantRow /\ row.status = tenants[t].status
      BY <2>1, HostFields, BoundsAssumption DEF QueueInv, TenantRow
    <2> HIDE DEF row
    <2>4. /\ tenants' \in [Tenant -> TenantRow] /\ tenants'[t].status # "none"
          /\ \A u \in Tenant : tenants[u].status # "none" => tenants'[u].status # "none"
      BY <2>1, <2>2, <2>3 DEF QueueInv, TypeOK
    <2>5. QED
      BY <2>1, <2>4, EnqueueStep
  <1>3. QED
    BY <1>1, <1>2

LEMMA StatusQueue ==
  ASSUME QueueInv, NEW t \in Tenant, NEW s \in AdminStatus, UpdateStatus(t, s)
  PROVE  QueueInv'
  <1> DEFINE row == [tenants[t] EXCEPT !.status = s]
  <1>1. tenants' = [tenants EXCEPT ![t] = row] /\ UNCHANGED <<jobs, host, worker, faults>>
    BY DEF UpdateStatus, QueueInv, TypeOK
  <1>2. row \in TenantRow /\ row.status # "none"
    BY StatusAssumption, HostFields DEF QueueInv, TenantRow
  <1> HIDE DEF row
  <1>3. /\ tenants' \in [Tenant -> TenantRow]
        /\ \A u \in Tenant : tenants[u].status # "none" => tenants'[u].status # "none"
    BY <1>1, <1>2 DEF QueueInv, TypeOK
  <1>4. TypeOK'
    BY <1>1, <1>3 DEF QueueInv, TypeOK
  <1>5. JobsInv' /\ \A j \in JobId : Exists(j)' <=> Exists(j)
    BY <1>1, <1>3, JobsStay DEF QueueInv, TypeOK
  <1>6. WorkInv'
    BY <1>1, <1>5, WorkerFields DEF QueueInv, WorkInv
  <1>7. QED
    BY <1>4, <1>5, <1>6 DEF QueueInv

\* The host and the clock.
LEMMA ClockQueue ==
  ASSUME QueueInv, NEW j \in JobId, LeaseRunsOut(j) \/ BackoffPasses(j)
  PROVE  QueueInv'
  <1>1. /\ jobs' \in [JobId -> JobRow]
        /\ \A i \in JobId : jobs'[i].type = jobs[i].type /\ jobs'[i].tenant = jobs[i].tenant
    <2>1. PICK row \in {[jobs[j] EXCEPT !.lease = "over"], [jobs[j] EXCEPT !.backoff = FALSE]} :
             jobs' = [jobs EXCEPT ![j] = row]
      BY DEF LeaseRunsOut, BackoffPasses
    <2>2. row \in JobRow /\ row.type = jobs[j].type /\ row.tenant = jobs[j].tenant
      BY JobFields DEF QueueInv, JobRow
    <2>3. QED
      BY <2>1, <2>2 DEF QueueInv, TypeOK
  <1>2. UNCHANGED <<tenants, host, worker, faults>>
    BY DEF LeaseRunsOut, BackoffPasses
  <1>3. JobsInv' /\ \A i \in JobId : Exists(i)' <=> Exists(i)
    BY <1>1, <1>2, JobsStay
  <1>4. WorkInv'
    BY <1>2, <1>3, WorkerFields DEF QueueInv, WorkInv
  <1>5. QED
    BY <1>1, <1>2, <1>3, <1>4 DEF QueueInv, TypeOK

LEMMA ServiceQueue ==
  ASSUME QueueInv, NEW t \in Tenant, ServiceStarts(t) \/ ServiceStops(t)
  PROVE  QueueInv'
  <1>1. PICK service \in {host[t].env, Down} : host' = [host EXCEPT ![t] = [host[t] EXCEPT !.service = service]]
    BY DEF ServiceStarts, ServiceStops, QueueInv, TypeOK
  <1>2. [host[t] EXCEPT !.service = service] \in Host
    BY <1>1, HostFields, EmptyRows DEF QueueInv, Host
  <1>3. host' \in [Tenant -> Host]
    BY <1>1, <1>2 DEF QueueInv, TypeOK
  <1>4. UNCHANGED <<tenants, jobs, worker>> /\ faults' \in 0..MaxFaults
    BY BoundsAssumption DEF ServiceStarts, ServiceStops, Fault, QueueInv, TypeOK
  <1>5. QED
    BY <1>3, <1>4 DEF QueueInv, TypeOK, JobsInv, WorkInv, Exists

\* The steps of a worker.
LEMMA ClaimQueue ==
  ASSUME QueueInv, NEW w \in Worker, ClaimJobs(w)
  PROVE  QueueInv'
  <1> DEFINE claimed == Oldest({j \in JobId : Claimable(j)})
             row == [worker[w] EXCEPT !.pc = "load", !.todo = claimed]
  <1>1. claimed \subseteq JobId /\ \A j \in claimed : Exists(j) /\ jobs[j].attempts < MaxAttempts
    BY DEF Oldest, Claimable
  <1>2. jobs' = [j \in JobId |-> IF j \in claimed
                     THEN [jobs[j] EXCEPT !.status = "running", !.attempts = jobs[j].attempts + 1,
                                          !.lease = "running", !.backoff = FALSE]
                     ELSE jobs[j]]
    BY DEF ClaimJobs
  <1>3. worker' = [worker EXCEPT ![w] = row] /\ UNCHANGED <<tenants, host, faults>>
    BY DEF ClaimJobs, QueueInv, TypeOK
  <1>4. row \in WorkerState /\ row.pc = "load" /\ row.todo = claimed
    BY <1>1, WorkerFields DEF QueueInv, WorkerState, Labels
  <1> HIDE DEF row, claimed
  <1>5. \A j \in JobId : /\ jobs'[j] \in JobRow /\ jobs'[j].type = jobs[j].type /\ jobs'[j].tenant = jobs[j].tenant
    <2> SUFFICES ASSUME NEW j \in JobId
                 PROVE  jobs'[j] \in JobRow /\ jobs'[j].type = jobs[j].type /\ jobs'[j].tenant = jobs[j].tenant
      OBVIOUS
    <2>1. jobs[j] \in JobRow
      BY DEF QueueInv, TypeOK
    <2>2. CASE j \in claimed
      <3>1. jobs[j].attempts + 1 \in 0..MaxAttempts
        BY <1>1, <2>2, JobFields, AttemptsAssumption DEF QueueInv
      <3>2. jobs'[j] = [jobs[j] EXCEPT !.status = "running", !.attempts = jobs[j].attempts + 1,
                                       !.lease = "running", !.backoff = FALSE]
        BY <1>2, <2>2
      <3>3. QED
        BY <2>1, <3>1, <3>2 DEF JobRow
    <2>3. CASE j \notin claimed
      BY <1>2, <2>1, <2>3
    <2>4. QED
      BY <2>2, <2>3
  <1>6. jobs' \in [JobId -> JobRow]
    <2>1. jobs' = [j \in JobId |-> jobs'[j]]
      BY <1>2
    <2>2. QED
      BY <1>5, <2>1
  <1>7. JobsInv' /\ \A j \in JobId : Exists(j)' <=> Exists(j)
    BY <1>3, <1>5, <1>6, JobsStay
  <1>8. worker' \in [Worker -> WorkerState] /\ WorkInv'
    BY <1>1, <1>3, <1>4, <1>7, WorkerGoes DEF QueueInv, Steps
  <1>9. QED
    BY <1>3, <1>6, <1>7, <1>8 DEF QueueInv, TypeOK

LEMMA LoadQueue ==
  ASSUME QueueInv, NEW w \in Worker, LoadJobs(w)
  PROVE  QueueInv'
  <1> DEFINE todo == worker[w].todo
             js == [j \in JobId |-> IF j \in todo THEN jobs[j] ELSE NoJob]
             ts == [t \in Tenant |-> IF \E j \in todo : jobs[j].tenant = t THEN tenants[t] ELSE NoTenant]
             row == [worker[w] EXCEPT !.pc = "next", !.jobs = js, !.tenants = ts]
  <1>1. worker' = [worker EXCEPT ![w] = row] /\ UNCHANGED <<tenants, jobs, host, faults>>
    BY DEF LoadJobs, QueueInv, TypeOK
  <1>2. js \in [JobId -> JobRow] /\ ts \in [Tenant -> TenantRow]
    BY EmptyRows DEF QueueInv, TypeOK
  <1> HIDE DEF js, ts
  <1>3. row \in WorkerState /\ row.pc = "next" /\ row.todo = todo
    BY <1>2, WorkerFields DEF QueueInv, WorkerState, Labels
  <1> HIDE DEF row
  <1>4. faults' \in 0..MaxFaults /\ \A j \in todo : Exists(j)
    BY <1>1 DEF QueueInv, TypeOK, WorkInv
  <1>5. QED
    BY <1>1, <1>3, <1>4, WorkerStep DEF Steps

\* The job that is taken is the oldest of the batch.
LEMMA TakenIs ==
  ASSUME QueueInv, NEW w \in Worker, worker[w].todo # {}
  PROVE  Min(worker[w].todo) \in worker[w].todo
  <1>1. worker[w].todo \subseteq Nat
    BY WorkerFields, BoundsAssumption DEF QueueInv, JobId
  <1>2. QED
    BY <1>1, LowestIsOne

LEMMA TakeQueue ==
  ASSUME QueueInv, NEW w \in Worker, TakeJob(w)
  PROVE  QueueInv'
  <1> DEFINE todo == worker[w].todo
             j == Min(todo)
             row == [worker[w] EXCEPT !.pc = IF jobs[j].type = "create" THEN "allocate" ELSE "readConfig",
                                      !.todo = todo \ {j}, !.job = j]
  <1>1. UNCHANGED <<tenants, jobs, host, faults>> /\ faults' \in 0..MaxFaults
    BY DEF TakeJob, QueueInv, TypeOK
  <1>2. CASE todo = {}
    <2>1. worker' = [worker EXCEPT ![w] = Idle]
      BY <1>2 DEF TakeJob
    <2>2. QED
      BY <1>1, <2>1, EmptyRows, WorkerStep DEF Steps
  <1>3. CASE todo # {}
    <2>1. worker' = [worker EXCEPT ![w] = row]
      BY <1>3 DEF TakeJob, QueueInv, TypeOK
    <2>2. j \in todo /\ j \in JobId /\ Exists(j)
      BY <1>3, TakenIs, WorkerFields DEF QueueInv, WorkInv
    <2> HIDE DEF j
    <2>3. row \in WorkerState /\ row.todo = todo \ {j} /\ row.job = j
      <3>1. j \in OptJob /\ todo \ {j} \subseteq JobId /\ todo \subseteq JobId
        BY <2>2, WorkerFields, BoundsAssumption DEF QueueInv, OptJob, JobId
      <3>2. (IF jobs[j].type = "create" THEN "allocate" ELSE "readConfig") \in Labels
        BY DEF Labels
      <3>3. worker[w] \in WorkerState
        BY WorkerFields DEF QueueInv
      <3>4. QED
        BY <3>1, <3>2, <3>3 DEF WorkerState
    <2> HIDE DEF row
    <2>4. \A i \in todo : Exists(i)
      BY DEF QueueInv, WorkInv
    <2>5. QED
      BY <1>1, <2>1, <2>2, <2>3, <2>4, WorkerStep
  <1>4. QED
    BY <1>2, <1>3

\* The port that is chosen is one of those there are.
LEMMA PortIs ==
  ASSUME FreePorts # {}
  PROVE  Min(FreePorts) \in Port /\ Min(FreePorts) \in OptPort
  <1>1. FreePorts \subseteq Port /\ Port \subseteq Nat /\ Port \subseteq OptPort
    BY BoundsAssumption DEF FreePorts, Port, OptPort
  <1>2. QED
    BY <1>1, LowestIsOne

LEMMA PortQueue ==
  ASSUME QueueInv, NEW w \in Worker, AllocateRuntime(w) \/ ReadExistingRuntime(w)
  PROVE  QueueInv'
  <1>1. PICK label \in {"artifacts", "environment", "fail"}, p \in OptPort :
           worker' = [worker EXCEPT ![w].pc = label, ![w].port = p]
    <2>1. CASE AllocateRuntime(w)
      BY <2>1, PortIs DEF AllocateRuntime
    <2>2. CASE ReadExistingRuntime(w)
      <3>1. worker[w].pc \in Steps
        BY <2>2 DEF ReadExistingRuntime, At, Steps, Labels
      <3>2. host[Target(w)].config \in OptPort
        BY <3>1, TargetIs, HostFields DEF QueueInv
      <3>3. QED
        BY <2>2, <3>2 DEF ReadExistingRuntime
    <2>3. QED
      BY <2>1, <2>2
  <1> DEFINE row == [worker[w] EXCEPT !.pc = label, !.port = p]
  <1>2. worker' = [worker EXCEPT ![w] = row]
    BY <1>1 DEF QueueInv, TypeOK
  <1>3. row \in WorkerState /\ row.todo = worker[w].todo /\ row.job = worker[w].job
    BY WorkerFields DEF QueueInv, WorkerState, Labels
  <1> HIDE DEF row
  <1>4. UNCHANGED <<tenants, jobs, host, faults>> /\ faults' \in 0..MaxFaults /\ worker[w].pc \in Steps
    BY DEF AllocateRuntime, ReadExistingRuntime, At, Steps, Labels, QueueInv, TypeOK
  <1>5. \A i \in worker[w].todo : Exists(i)
    BY DEF QueueInv, WorkInv
  <1>6. QED
    BY <1>2, <1>3, <1>4, <1>5, TargetIs, WorkerStep

LEMMA RuntimeQueue ==
  ASSUME QueueInv, NEW w \in Worker,
         \/ WriteArtifacts(w) \/ WriteEnvironment(w) \/ EnsureNginxSite(w) \/ EnableServices(w)
         \/ EnsureCertificate(w) \/ RestartServices(w)
  PROVE  QueueInv'
  <1> DEFINE t == Target(w)
  <1>1. UNCHANGED <<tenants, jobs, faults>> /\ worker[w].pc \in Steps
    BY DEF WriteArtifacts, WriteEnvironment, EnsureNginxSite, EnableServices, EnsureCertificate, RestartServices,
           At, Steps, Labels
  <1>2. t \in Tenant /\ Creates(w) \in BOOLEAN /\ host[t] \in Host /\ worker[w].port \in OptPort
        /\ worker[w].tenants[t].settings \in 0..MaxSettings /\ host[t].database \in BOOLEAN
    <2>1. t \in Tenant /\ Creates(w) \in BOOLEAN
      BY <1>1, TargetIs
    <2>2. QED
      BY <2>1, HostFields, WorkerFields DEF QueueInv, TenantRow
  <1> HIDE DEF t
  <1>3. host \in [Tenant -> Host]
    BY DEF QueueInv, TypeOK
  <1>4. \E h \in Host, label \in Labels : host' = [host EXCEPT ![t] = h] /\ Goto(w, label)
    <2>1. CASE WriteArtifacts(w)
      <3>1. host' = [host EXCEPT ![t] = [host[t] EXCEPT !.config = worker[w].port]] /\ Goto(w, "environment")
        BY <2>1, <1>3 DEF WriteArtifacts, t
      <3>2. [host[t] EXCEPT !.config = worker[w].port] \in Host /\ "environment" \in Labels
        BY <1>2 DEF Host, Labels
      <3>3. QED
        BY <3>1, <3>2
    <2>2. CASE WriteEnvironment(w)
      <3> DEFINE env == [port |-> worker[w].port, settings |-> worker[w].tenants[t].settings]
      <3>1. host' = [host EXCEPT ![t] = [host[t] EXCEPT !.database = host[t].database \/ Creates(w), !.env = env]]
        BY <2>2, <1>3 DEF WriteEnvironment, t
      <3>2. [host[t] EXCEPT !.database = host[t].database \/ Creates(w), !.env = env] \in Host
        BY <1>2 DEF Host
      <3>3. PICK label \in {"site", "restart"} : Goto(w, label)
        BY <2>2 DEF WriteEnvironment
      <3>4. QED
        BY <3>1, <3>2, <3>3 DEF Labels
    <2>3. CASE EnsureNginxSite(w)
      <3>1. host' = [host EXCEPT ![t] = [host[t] EXCEPT !.site = worker[w].port]] /\ Goto(w, "start")
        BY <2>3, <1>3 DEF EnsureNginxSite, t
      <3>2. [host[t] EXCEPT !.site = worker[w].port] \in Host /\ "start" \in Labels
        BY <1>2 DEF Host, Labels
      <3>3. QED
        BY <3>1, <3>2
    <2>4. CASE EnableServices(w)
      <3>1. host' = [host EXCEPT ![t] = [host[t] EXCEPT !.started = TRUE]] /\ Goto(w, "certificate")
        BY <2>4, <1>3 DEF EnableServices, t
      <3>2. [host[t] EXCEPT !.started = TRUE] \in Host /\ "certificate" \in Labels
        BY <1>2 DEF Host, Labels
      <3>3. QED
        BY <3>1, <3>2
    <2>5. CASE EnsureCertificate(w)
      <3>1. host' = [host EXCEPT ![t] = [host[t] EXCEPT !.certificate = TRUE]] /\ Goto(w, "health")
        BY <2>5, <1>3 DEF EnsureCertificate, t
      <3>2. [host[t] EXCEPT !.certificate = TRUE] \in Host /\ "health" \in Labels
        BY <1>2 DEF Host, Labels
      <3>3. QED
        BY <3>1, <3>2
    <2>6. CASE RestartServices(w)
      <3>1. host' = [host EXCEPT ![t] = [host[t] EXCEPT !.started = TRUE, !.service = Down]] /\ Goto(w, "health")
        BY <2>6, <1>3 DEF RestartServices, t
      <3>2. [host[t] EXCEPT !.started = TRUE, !.service = Down] \in Host /\ "health" \in Labels
        BY <1>2, EmptyRows DEF Host, Labels
      <3>3. QED
        BY <3>1, <3>2
    <2>7. QED
      BY <2>1, <2>2, <2>3, <2>4, <2>5, <2>6
  <1>5. QED
    BY <1>1, <1>4, HostStep DEF t

-----------------------------------------------------------------------------
LEMMA SaveQueue ==
  ASSUME QueueInv, NEW w \in Worker, worker[w].pc \in Steps,
         NEW status \in {"succeeded", "failed"}, NEW backoff \in BOOLEAN, NEW port \in OptPort,
         NEW ts \in {"none", "provisioning", "active", "suspended", "archived"},
         ts # "none" \/ ts = TrackedStatus(w), SaveOutcome(w, status, backoff, port, ts)
  PROVE  QueueInv'
  <1> DEFINE j == worker[w].job
             t == Target(w)
             old == worker[w].jobs[j]
             job == [jobs[j] EXCEPT !.status = Written(old.status, status, jobs[j].status),
                                    !.lease = Written(old.lease, "none", jobs[j].lease),
                                    !.backoff = Written(old.backoff, backoff, jobs[j].backoff),
                                    !.port = Written(old.port, port, jobs[j].port)]
             tenant == [tenants[t] EXCEPT !.status = Written(worker[w].tenants[t].status, ts, tenants[t].status)]
             seen == [worker[w].tenants EXCEPT ![t] = [worker[w].tenants[t] EXCEPT !.status = ts]]
             row == [worker[w] EXCEPT !.pc = "next", !.job = 0, !.port = 0,
                                      !.jobs = [worker[w].jobs EXCEPT ![j] = NoJob], !.tenants = seen]
  <1>1. j \in JobId /\ Exists(j) /\ t \in Tenant /\ tenants[t].status # "none"
    BY TargetIs
  <1>2. jobs' = [jobs EXCEPT ![j] = job]
    BY <1>1 DEF SaveOutcome, QueueInv, TypeOK
  <1>3. tenants' = [tenants EXCEPT ![t] = tenant]
    BY <1>1 DEF SaveOutcome, QueueInv, TypeOK
  <1>4. worker' = [worker EXCEPT ![w] = row]
    <2> HIDE DEF job, tenant, old, j, t
    <2>1. worker' = [worker EXCEPT ![w].pc = "next", ![w].job = 0, ![w].port = 0,
                                   ![w].jobs[j] = NoJob, ![w].tenants[t].status = ts]
      BY DEF SaveOutcome, j, t
    <2>2. worker \in [Worker -> WorkerState]
      BY DEF QueueInv, TypeOK
    <2>3. worker[w] \in WorkerState
      BY <2>2
    <2>4. QED
      BY <2>1, <2>2, <2>3 DEF WorkerState
  <1>5. UNCHANGED <<host, faults>>
    BY DEF SaveOutcome
  <1>6. job \in JobRow /\ job.type = jobs[j].type /\ job.tenant = jobs[j].tenant
    <2>1. Written(old.status, status, jobs[j].status) \in {"pending", "running", "succeeded", "failed"}
      BY <1>1, JobFields DEF QueueInv, Written
    <2>2. Written(old.lease, "none", jobs[j].lease) \in {"none", "running", "over"}
      BY <1>1, JobFields DEF QueueInv, Written
    <2>3. Written(old.backoff, backoff, jobs[j].backoff) \in BOOLEAN
      BY <1>1, JobFields, Zenon DEF QueueInv, Written
    <2>4. Written(old.port, port, jobs[j].port) \in OptPort
      BY <1>1, JobFields DEF QueueInv, Written
    <2>5. jobs[j] \in JobRow
      BY <1>1, JobFields DEF QueueInv
    <2> HIDE DEF old, j
    <2>6. job \in JobRow
      BY <2>1, <2>2, <2>3, <2>4, <2>5 DEF JobRow
    <2>7. job.type = jobs[j].type /\ job.tenant = jobs[j].tenant
      BY <2>5 DEF JobRow
    <2>8. QED
      BY <2>6, <2>7
  <1>7. tenant \in TenantRow /\ tenant.status # "none"
    BY <1>1, HostFields DEF QueueInv, TenantRow, Written, TrackedStatus
  <1>8. seen \in [Tenant -> TenantRow]
    BY <1>1, WorkerFields DEF QueueInv, TenantRow
  <1> HIDE DEF job, tenant, seen
  <1>9. row \in WorkerState /\ row.pc = "next" /\ row.todo = worker[w].todo
    <2>1. [worker[w].jobs EXCEPT ![j] = NoJob] \in [JobId -> JobRow]
      BY WorkerFields, EmptyRows DEF QueueInv
    <2>2. worker[w] \in WorkerState /\ 0 \in OptJob /\ 0 \in OptPort
      BY WorkerFields, BoundsAssumption DEF QueueInv, OptJob, OptPort
    <2>3. QED
      BY <1>8, <2>1, <2>2 DEF WorkerState, Labels
  <1> HIDE DEF row, j, t
  <1>10. jobs' \in [JobId -> JobRow] /\ \A i \in JobId : jobs'[i].type = jobs[i].type /\ jobs'[i].tenant = jobs[i].tenant
    BY <1>1, <1>2, <1>6 DEF QueueInv, TypeOK
  <1>11. tenants' \in [Tenant -> TenantRow] /\ \A u \in Tenant : tenants[u].status # "none" => tenants'[u].status # "none"
    BY <1>1, <1>3, <1>7 DEF QueueInv, TypeOK
  <1>12. JobsInv' /\ \A i \in JobId : Exists(i)' <=> Exists(i)
    BY <1>10, <1>11, JobsStay
  <1>13. \A i \in worker[w].todo : i \in JobId /\ Exists(i)
    BY WorkerFields DEF QueueInv, WorkInv
  <1>14. worker' \in [Worker -> WorkerState] /\ WorkInv'
    BY <1>4, <1>9, <1>12, <1>13, WorkerGoes DEF QueueInv, Steps
  <1>15. QED
    BY <1>5, <1>10, <1>11, <1>12, <1>14 DEF QueueInv, TypeOK

\* What is saved at the end of a job.
LEMMA OutcomeIs ==
  ASSUME QueueInv, NEW w \in Worker, Succeed(w) \/ Fail(w)
  PROVE  /\ worker[w].pc \in Steps
         /\ \E status \in {"succeeded", "failed"}, backoff \in BOOLEAN, port \in OptPort,
               ts \in {"none", "provisioning", "active", "suspended", "archived"} :
                  /\ ts # "none" \/ ts = TrackedStatus(w)
                  /\ SaveOutcome(w, status, backoff, port, ts)
  <1>1. worker[w].pc \in Steps
    BY DEF Succeed, Fail, At, Steps, Labels
  <1>2. /\ Tracked(w) \in JobRow /\ Tracked(w).port \in OptPort /\ worker[w].port \in OptPort /\ 0 \in OptPort
        /\ TrackedStatus(w) \in {"none", "provisioning", "active", "suspended", "archived"}
    <2>1. worker[w].job \in JobId /\ Target(w) \in Tenant
      BY <1>1, TargetIs
    <2>2. QED
      BY <2>1, WorkerFields, BoundsAssumption DEF QueueInv, Tracked, TrackedStatus, JobRow, TenantRow, OptPort
  <1>3. CASE Succeed(w)
    <2> DEFINE port == IF Creates(w) THEN worker[w].port ELSE 0
               ts == IF Creates(w) THEN "active" ELSE TrackedStatus(w)
    <2>1. SaveOutcome(w, "succeeded", FALSE, port, ts)
      BY <1>3 DEF Succeed
    <2>2. /\ port \in OptPort /\ ts \in {"none", "provisioning", "active", "suspended", "archived"}
          /\ ts # "none" \/ ts = TrackedStatus(w)
      BY <1>2
    <2> HIDE DEF port, ts
    <2>3. QED
      BY <1>1, <2>1, <2>2
  <1>4. CASE Fail(w)
    <2> DEFINE ts == IF ~Creates(w) THEN TrackedStatus(w) ELSE IF LastAttempt(w) THEN "suspended" ELSE "provisioning"
    <2>1. SaveOutcome(w, "failed", ~LastAttempt(w), Tracked(w).port, ts)
      BY <1>4 DEF Fail
    <2>2. ts \in {"none", "provisioning", "active", "suspended", "archived"} /\ (ts # "none" \/ ts = TrackedStatus(w))
      BY <1>2
    <2>3. (~LastAttempt(w)) \in BOOLEAN
      OBVIOUS
    <2> HIDE DEF ts
    <2>4. QED
      BY <1>1, <1>2, <2>1, <2>2, <2>3
  <1>5. QED
    BY <1>3, <1>4

LEMMA FaultQueue ==
  ASSUME QueueInv, NEW w \in Worker, HostFault(w) \/ WorkerStops(w) \/ VerifyRuntimeHealth(w)
  PROVE  QueueInv'
  <1>1. UNCHANGED <<tenants, jobs, host>> /\ faults' \in 0..MaxFaults
    BY BoundsAssumption DEF HostFault, WorkerStops, VerifyRuntimeHealth, Fault, QueueInv, TypeOK
  <1>2. CASE WorkerStops(w)
    <2>1. worker' = [worker EXCEPT ![w] = Idle]
      BY <1>2 DEF WorkerStops
    <2>2. QED
      BY <1>1, <2>1, EmptyRows, WorkerStep DEF Steps
  <1>3. CASE HostFault(w) \/ VerifyRuntimeHealth(w)
    <2>1. PICK label \in {"succeed", "fail"} : Goto(w, label)
      BY <1>3 DEF HostFault, VerifyRuntimeHealth
    <2>2. worker[w].pc \in Steps
      BY <1>3 DEF HostFault, VerifyRuntimeHealth, At, Steps, Labels
    <2>3. \A j \in JobId : Exists(j)' <=> Exists(j)
      BY <1>1 DEF Exists
    <2>4. worker' \in [Worker -> WorkerState] /\ WorkInv'
      BY <2>1, <2>2, <2>3, GotoGoes DEF QueueInv, Labels
    <2>5. QED
      BY <1>1, <2>3, <2>4 DEF QueueInv, TypeOK, JobsInv
  <1>4. QED
    BY <1>2, <1>3

LEMMA QueueInit == Init => QueueInv
  <1> SUFFICES ASSUME Init PROVE QueueInv
    OBVIOUS
  <1>1. TypeOK
    BY EmptyRows, BoundsAssumption DEF Init, TypeOK
  <1>2. \A j \in JobId : jobs[j].type = "none" /\ ~Exists(j)
    BY EmptyRows DEF Init, Exists
  <1>3. JobsInv
    BY <1>2 DEF JobsInv
  <1>4. WorkInv
    BY EmptyRows DEF Init, WorkInv, Steps
  <1>5. QED
    BY <1>1, <1>3, <1>4 DEF QueueInv

LEMMA WorkQueue ==
  ASSUME QueueInv, NEW w \in Worker, Work(w)
  PROVE  QueueInv'
  <1>1. CASE Succeed(w) \/ Fail(w)
    BY <1>1, OutcomeIs, SaveQueue
  <1>2. QED
    BY <1>1, ClaimQueue, LoadQueue, TakeQueue, PortQueue, RuntimeQueue, FaultQueue DEF Work

LEMMA QueueNext == QueueInv /\ [Next]_vars => QueueInv'
  <1> SUFFICES ASSUME QueueInv, [Next]_vars PROVE QueueInv'
    OBVIOUS
  <1>1. CASE UNCHANGED vars
    BY <1>1 DEF vars, QueueInv, TypeOK, JobsInv, WorkInv, Exists
  <1>2. ASSUME NEW t \in Tenant, NEW j \in JobId, CreateTenant(t, j) \/ UpdateRegionalSettings(t, j)
        PROVE  QueueInv'
    BY <1>2, ApiQueue
  <1>3. ASSUME NEW t \in Tenant, NEW s \in AdminStatus, UpdateStatus(t, s) PROVE QueueInv'
    BY <1>3, StatusQueue
  <1>4. ASSUME NEW w \in Worker, Work(w) \/ HostFault(w) \/ WorkerStops(w) PROVE QueueInv'
    BY <1>4, WorkQueue, FaultQueue
  <1>5. ASSUME NEW t \in Tenant, ServiceStarts(t) \/ ServiceStops(t) PROVE QueueInv'
    BY <1>5, ServiceQueue
  <1>6. ASSUME NEW j \in JobId, LeaseRunsOut(j) \/ BackoffPasses(j) PROVE QueueInv'
    BY <1>6, ClockQueue
  <1>7. QED
    BY <1>1, <1>2, <1>3, <1>4, <1>5, <1>6 DEF Next

\* The rows of tenants and jobs, the host and the workers have their types, with
\* any number of workers, in every state.
THEOREM ProvisioningTypeCorrect == Spec => []TypeOK
  <1>1. QueueInv => TypeOK
    BY DEF QueueInv
  <1>2. QED
    BY <1>1, QueueInit, QueueNext, PTL DEF Spec

-----------------------------------------------------------------------------
(* The invariant of one worker.                                            *)

Busy(w)  == worker[w].pc \notin {"idle", "load"}
Batch(w) == worker[w].todo \cup IF worker[w].pc \in Steps THEN {worker[w].job} ELSE {}

IsLatest(j, t) ==
    /\ jobs[j].type = "settings" /\ jobs[j].tenant = t
    /\ \A i \in JobId : jobs[i].type = "settings" /\ jobs[i].tenant = t => i <= j

\* The rows a worker has loaded are those that are stored, but for what an operator
\* or the clock has changed; then a job is pending that brings newer settings.
SeenAsStored(w, j) ==
    LET row == worker[w].jobs[j]
        t   == jobs[j].tenant
        seen == worker[w].tenants[t]
    IN  /\ row.status = "running" /\ row.attempts = jobs[j].attempts /\ row.port = jobs[j].port
        /\ seen.status = tenants[t].status \/ tenants[t].status \in AdminStatus
        /\ \/ seen.settings = tenants[t].settings
           \/ \A i \in JobId : IsLatest(i, t) => jobs[i].status = "pending"

\* What the steps of a job have left on the host so far.
HostFollows(w) ==
    LET pc == worker[w].pc
        p  == worker[w].port
        h  == host[Target(w)]
    IN  /\ pc \in {"environment", "site", "start", "certificate", "restart", "health", "succeed"} => h.config = p
        /\ pc \in {"site", "start", "certificate", "restart", "health", "succeed"} =>
              h.env.port = p /\ h.env.settings = worker[w].tenants[Target(w)].settings
        /\ pc \in {"start", "certificate", "health", "succeed"} /\ Creates(w) => h.site = p
        /\ pc \in {"health", "succeed"} /\ ~Creates(w) => h.service = Down \/ h.service.settings = h.env.settings

\* The steps that only one kind of job takes.
KindOfJob(w) ==
    /\ worker[w].pc \in {"allocate", "artifacts", "site", "start", "certificate"} => Creates(w)
    /\ worker[w].pc \in {"readConfig", "restart"} => ~Creates(w)

BatchInv ==
    \A w \in Worker : /\ \A j \in Batch(w) : jobs[j].status = "running"
                      /\ worker[w].pc \in Steps => worker[w].job \notin worker[w].todo
                      /\ Busy(w) => \A j \in Batch(w) : SeenAsStored(w, j)
                      /\ worker[w].pc \in Steps => HostFollows(w) /\ KindOfJob(w)

SettingsReach ==
    \A t \in Tenant, j \in JobId : IsLatest(j, t) /\ jobs[j].status = "succeeded" =>
        /\ host[t].env.settings = tenants[t].settings
        /\ host[t].service = Down \/ host[t].service.settings = tenants[t].settings

SerialInv == QueueInv /\ BatchInv /\ TenantFollowsJob /\ RuntimeIsConsistent /\ SettingsReach

-----------------------------------------------------------------------------
(* The steps of the worker.                                                *)

\* A step that leaves the rows and the host as they are.
LEMMA RowsStay ==
  ASSUME SerialInv, UNCHANGED <<tenants, jobs, host>>
  PROVE  /\ TenantFollowsJob' /\ RuntimeIsConsistent' /\ SettingsReach'
         /\ \A i, t : IsLatest(i, t)' <=> IsLatest(i, t)
  BY DEF SerialInv, TenantFollowsJob, RuntimeIsConsistent, SettingsReach, IsLatest

LEMMA WorkerSerial ==
  ASSUME OneWorker, SerialInv, QueueInv', NEW w \in Worker, UNCHANGED <<tenants, jobs, host>>,
         \A j \in Batch(w)' : jobs[j].status = "running",
         worker'[w].pc \in Steps => worker'[w].job \notin worker'[w].todo,
         Busy(w)' => \A j \in Batch(w)' : SeenAsStored(w, j)',
         worker'[w].pc \in Steps => HostFollows(w)' /\ KindOfJob(w)'
  PROVE  SerialInv'
  <1>1. \A v \in Worker : v = w
    BY DEF OneWorker
  <1>2. BatchInv'
    BY <1>1 DEF BatchInv
  <1>3. QED
    BY <1>2, RowsStay DEF SerialInv

\* The batch at work.
LEMMA BatchIs ==
  ASSUME SerialInv, NEW w \in Worker
  PROVE  /\ \A j \in Batch(w) : j \in JobId /\ Exists(j) /\ jobs[j].status = "running" /\ jobs[j].tenant \in Tenant
         /\ Busy(w) => \A j \in Batch(w) : SeenAsStored(w, j)
         /\ worker[w].pc \in Steps => /\ worker[w].job \in Batch(w) /\ worker[w].job \notin worker[w].todo
                                      /\ HostFollows(w) /\ KindOfJob(w) /\ Busy(w)
  <1>1. \A j \in Batch(w) : j \in JobId /\ Exists(j)
    BY WorkerFields DEF SerialInv, QueueInv, WorkInv, Batch
  <1>2. QED
    BY <1>1 DEF SerialInv, BatchInv, Batch, QueueInv, JobsInv, Busy, Steps

\* What was loaded stays as it was, while nothing is stored.
LEMMA SeenStays ==
  ASSUME SerialInv, NEW w \in Worker, UNCHANGED <<tenants, jobs>>, NEW j, SeenAsStored(w, j),
         worker'[w].jobs = worker[w].jobs, worker'[w].tenants = worker[w].tenants
  PROVE  SeenAsStored(w, j)'
  <1>1. \A i, t : IsLatest(i, t)' <=> IsLatest(i, t)
    BY DEF IsLatest
  <1>2. QED
    BY <1>1 DEF SeenAsStored

LEMMA LoadSerial ==
  ASSUME OneWorker, SerialInv, QueueInv', NEW w \in Worker, LoadJobs(w)
  PROVE  SerialInv'
  <1> DEFINE todo == worker[w].todo
             js == [j \in JobId |-> IF j \in todo THEN jobs[j] ELSE NoJob]
             ts == [t \in Tenant |-> IF \E j \in todo : jobs[j].tenant = t THEN tenants[t] ELSE NoTenant]
  <1>1. worker[w].pc = "load" /\ UNCHANGED <<tenants, jobs, host>>
    BY DEF LoadJobs, At
  <1>2. /\ worker'[w].pc = "next" /\ worker'[w].todo = todo
        /\ worker'[w].jobs = js /\ worker'[w].tenants = ts
    <2>1. worker[w] \in WorkerState
      BY WorkerFields DEF SerialInv, QueueInv
    <2>2. QED
      BY <2>1 DEF LoadJobs, SerialInv, QueueInv, TypeOK, WorkerState
  <1>3. Batch(w)' = todo /\ Batch(w) = todo
    BY <1>1, <1>2 DEF Batch, Steps
  <1>4. ASSUME NEW j \in todo PROVE SeenAsStored(w, j)'
    <2>1. j \in JobId /\ jobs[j].status = "running" /\ jobs[j].tenant \in Tenant
      BY <1>3, BatchIs
    <2>2. js[j] = jobs[j] /\ ts[jobs[j].tenant] = tenants[jobs[j].tenant]
      BY <2>1
    <2>3. QED
      BY <1>1, <1>2, <2>1, <2>2 DEF SeenAsStored
  <1>5. \A j \in Batch(w)' : jobs[j].status = "running"
    BY <1>3, BatchIs
  <1>6. worker'[w].pc \notin Steps
    BY <1>2 DEF Steps
  <1>7. QED
    BY <1>1, <1>3, <1>4, <1>5, <1>6, WorkerSerial

LEMMA TakeSerial ==
  ASSUME OneWorker, SerialInv, QueueInv', NEW w \in Worker, TakeJob(w)
  PROVE  SerialInv'
  <1> DEFINE todo == worker[w].todo
             j == Min(todo)
             label == IF jobs[j].type = "create" THEN "allocate" ELSE "readConfig"
  <1>1. worker[w].pc = "next" /\ UNCHANGED <<tenants, jobs, host>>
    BY DEF TakeJob, At
  <1>2. worker \in [Worker -> WorkerState] /\ worker[w] \in WorkerState
    BY WorkerFields DEF SerialInv, QueueInv, TypeOK
  <1>3. CASE todo = {}
    <2>1. worker'[w] = Idle
      BY <1>2, <1>3 DEF TakeJob
    <2>2. Batch(w)' = {} /\ worker'[w].pc \notin Steps
      BY <2>1, EmptyRows DEF Batch, Steps
    <2>3. QED
      BY <1>1, <2>2, WorkerSerial
  <1>4. CASE todo # {}
    <2>1. j \in todo
      BY <1>4, TakenIs DEF SerialInv
    <2> HIDE DEF j
    <2>2. /\ worker'[w].pc = label /\ worker'[w].todo = todo \ {j} /\ worker'[w].job = j
          /\ worker'[w].jobs = worker[w].jobs /\ worker'[w].tenants = worker[w].tenants
      BY <1>2, <1>4 DEF TakeJob, j, WorkerState
    <2>3. Batch(w)' = todo /\ Batch(w) = todo
      BY <1>1, <2>1, <2>2 DEF Batch, Steps, Labels
    <2>4. \A i \in Batch(w)' : jobs[i].status = "running"
      BY <2>3, BatchIs
    <2>5. \A i \in Batch(w)' : SeenAsStored(w, i)'
      <3>1. \A i \in todo : SeenAsStored(w, i)
        BY <1>1, <2>3, BatchIs DEF Busy
      <3>2. QED
        BY <1>1, <2>2, <2>3, <3>1, SeenStays
    <2>6. HostFollows(w)' /\ KindOfJob(w)'
      BY <1>1, <2>2 DEF HostFollows, KindOfJob, Creates
    <2>7. QED
      BY <1>1, <2>2, <2>4, <2>5, <2>6, WorkerSerial
  <1>5. QED
    BY <1>3, <1>4

\* The step of a job that is not on the host.
LEMMA StepSerial ==
  ASSUME OneWorker, SerialInv, QueueInv', NEW w \in Worker, UNCHANGED <<tenants, jobs, host>>,
         worker[w].pc \in Steps, NEW label \in Steps, NEW p,
         worker' = [worker EXCEPT ![w].pc = label, ![w].port = p],
         HostFollows(w)', KindOfJob(w)'
  PROVE  SerialInv'
  <1>1. worker \in [Worker -> WorkerState] /\ worker[w] \in WorkerState
    BY WorkerFields DEF SerialInv, QueueInv, TypeOK
  <1>2. /\ worker'[w].pc = label /\ worker'[w].todo = worker[w].todo /\ worker'[w].job = worker[w].job
        /\ worker'[w].jobs = worker[w].jobs /\ worker'[w].tenants = worker[w].tenants
    BY <1>1 DEF WorkerState
  <1>3. Batch(w)' = Batch(w)
    BY <1>2 DEF Batch
  <1>4. \A i \in Batch(w) : SeenAsStored(w, i)'
    BY <1>2, BatchIs, SeenStays
  <1>5. QED
    BY <1>2, <1>3, <1>4, BatchIs, WorkerSerial

LEMMA AllocateSerial ==
  ASSUME OneWorker, SerialInv, QueueInv', NEW w \in Worker,
         AllocateRuntime(w) \/ ReadExistingRuntime(w) \/ VerifyRuntimeHealth(w) \/ HostFault(w)
  PROVE  SerialInv'
  <1>1. UNCHANGED <<tenants, jobs, host>> /\ worker[w].pc \in Steps
    BY DEF AllocateRuntime, ReadExistingRuntime, VerifyRuntimeHealth, HostFault, At, Steps, Labels
  <1>2. worker \in [Worker -> WorkerState] /\ worker[w] \in WorkerState
    BY WorkerFields DEF SerialInv, QueueInv, TypeOK
  <1>3. HostFollows(w) /\ KindOfJob(w)
    BY <1>1, BatchIs
  <1>4. CASE AllocateRuntime(w)
    <2>1. worker' = [worker EXCEPT ![w].pc = "artifacts", ![w].port = Min(FreePorts)] /\ worker[w].pc = "allocate"
      BY <1>4 DEF AllocateRuntime, At
    <2>2. worker'[w].pc = "artifacts" /\ worker'[w].job = worker[w].job /\ "artifacts" \in Steps
      BY <1>2, <2>1 DEF WorkerState, Steps, Labels
    <2>3. HostFollows(w)' /\ KindOfJob(w)'
      BY <1>1, <1>3, <2>1, <2>2 DEF HostFollows, KindOfJob, Creates
    <2>4. QED
      BY <1>1, <2>1, <2>2, <2>3, StepSerial
  <1>5. CASE ReadExistingRuntime(w)
    <2> DEFINE p == host[Target(w)].config
               label == IF p = 0 THEN "fail" ELSE "environment"
    <2>1. worker' = [worker EXCEPT ![w].pc = label, ![w].port = p]
      BY <1>5 DEF ReadExistingRuntime
    <2>2. worker'[w].pc = label /\ worker'[w].port = p /\ worker'[w].job = worker[w].job /\ label \in Steps
      BY <1>2, <2>1 DEF WorkerState, Steps, Labels
    <2>3. Target(w)' = Target(w)
      BY <1>1, <2>2 DEF Target
    <2>4. HostFollows(w)' /\ KindOfJob(w)'
      BY <1>1, <2>2, <2>3 DEF HostFollows, KindOfJob
    <2>5. QED
      BY <1>1, <2>1, <2>2, <2>4, StepSerial
  <1>6. CASE VerifyRuntimeHealth(w) \/ HostFault(w)
    <2>1. PICK label \in {"succeed", "fail"} :
             /\ worker' = [worker EXCEPT ![w].pc = label]
             /\ label = "succeed" => worker[w].pc = "health"
      BY <1>6 DEF VerifyRuntimeHealth, HostFault, Goto, At
    <2>2. /\ worker'[w].pc = label /\ worker'[w].port = worker[w].port /\ worker'[w].job = worker[w].job
          /\ worker'[w].tenants = worker[w].tenants /\ label \in Steps
      BY <1>2, <2>1 DEF WorkerState, Steps, Labels
    <2>3. Target(w)' = Target(w) /\ Creates(w)' = Creates(w)
      BY <1>1, <2>2 DEF Target, Creates
    <2>4. HostFollows(w)' /\ KindOfJob(w)'
      BY <1>1, <1>3, <2>1, <2>2, <2>3 DEF HostFollows, KindOfJob
    <2>5. worker' = [worker EXCEPT ![w].pc = label, ![w].port = worker[w].port]
      BY <1>2, <2>1 DEF WorkerState
    <2>6. QED
      BY <1>1, <2>2, <2>4, <2>5, StepSerial
  <1>7. QED
    BY <1>4, <1>5, <1>6

LEMMA StopSerial ==
  ASSUME OneWorker, SerialInv, QueueInv', NEW w \in Worker, WorkerStops(w)
  PROVE  SerialInv'
  <1>1. UNCHANGED <<tenants, jobs, host>> /\ worker'[w] = Idle
    BY DEF WorkerStops, SerialInv, QueueInv, TypeOK
  <1>2. Batch(w)' = {} /\ worker'[w].pc \notin Steps
    BY <1>1, EmptyRows DEF Batch, Steps
  <1>3. QED
    BY <1>1, <1>2, WorkerSerial

-----------------------------------------------------------------------------
(* The steps on the host.                                                  *)

\* What the latest settings job has brought is what a worker has loaded, unless the
\* job is still pending.
LEMMA LatestIsSeen ==
  ASSUME SerialInv, NEW w \in Worker, worker[w].pc \in Steps, NEW j \in JobId, IsLatest(j, Target(w)),
         jobs[j].status # "pending"
  PROVE  worker[w].tenants[Target(w)].settings = tenants[Target(w)].settings
  BY BatchIs DEF SeenAsStored, Target

\* A step of a job on the host of its tenant: a settings job leaves the port, the
\* site and the configuration alone.
LEMMA HostSerial ==
  ASSUME OneWorker, SerialInv, QueueInv', NEW w \in Worker, UNCHANGED <<tenants, jobs>>,
         worker[w].pc \in Steps, NEW label \in Steps, Goto(w, label), NEW h,
         host' = [host EXCEPT ![Target(w)] = h],
         ~Creates(w) => /\ h.config = host[Target(w)].config /\ h.site = host[Target(w)].site
                        /\ h.env.port \in {host[Target(w)].env.port, host[Target(w)].config},
         h.env.settings \in {host[Target(w)].env.settings, worker[w].tenants[Target(w)].settings},
         h.service \in {host[Target(w)].service, Down},
         HostFollows(w)', KindOfJob(w)'
  PROVE  SerialInv'
  <1> DEFINE t == Target(w)
             j == worker[w].job
  <1>1. worker \in [Worker -> WorkerState] /\ worker[w] \in WorkerState /\ host \in [Tenant -> Host]
    BY WorkerFields DEF SerialInv, QueueInv, TypeOK
  <1>2. /\ worker'[w].pc = label /\ worker'[w].todo = worker[w].todo /\ worker'[w].job = worker[w].job
        /\ worker'[w].jobs = worker[w].jobs /\ worker'[w].tenants = worker[w].tenants
    BY <1>1 DEF Goto, WorkerState
  <1>3. Batch(w)' = Batch(w)
    BY <1>2 DEF Batch
  <1>4. \A i \in Batch(w) : SeenAsStored(w, i)'
    BY <1>2, BatchIs, SeenStays
  <1>5. BatchInv'
    <2>1. \A v \in Worker : v = w
      BY DEF OneWorker
    <2>2. QED
      BY <1>2, <1>3, <1>4, <2>1, BatchIs DEF BatchInv
  <1>6. t \in Tenant /\ j \in JobId /\ jobs[j].status = "running" /\ jobs[j].tenant = t
    BY TargetIs, BatchIs DEF SerialInv, Target
  <1>7. host'[t] = h /\ \A u \in Tenant \ {t} : host'[u] = host[u]
    BY <1>1, <1>6
  <1>8. TenantFollowsJob'
    BY DEF SerialInv, TenantFollowsJob
  <1>9. RuntimeIsConsistent'
    <2> SUFFICES ASSUME NEW i \in JobId, jobs[i].type = "create", jobs[i].status = "succeeded"
                 PROVE  LET x == host'[jobs[i].tenant]
                        IN  x.config = jobs[i].port /\ x.env.port = jobs[i].port /\ x.site = jobs[i].port
      BY DEF RuntimeIsConsistent
    <2>1. jobs[i].tenant \in Tenant /\ i # j
      BY <1>6 DEF SerialInv, QueueInv, JobsInv, Exists
    <2>2. LET x == host[jobs[i].tenant]
          IN  x.config = jobs[i].port /\ x.env.port = jobs[i].port /\ x.site = jobs[i].port
      BY DEF SerialInv, RuntimeIsConsistent
    <2>3. CASE jobs[i].tenant = t
      <3>1. ~Creates(w)
        BY <1>6, <2>1, <2>3 DEF SerialInv, QueueInv, JobsInv, Creates
      <3>2. QED
        BY <1>7, <2>2, <2>3, <3>1
    <2>4. CASE jobs[i].tenant # t
      BY <1>7, <2>1, <2>2, <2>4
    <2>5. QED
      BY <2>3, <2>4
  <1>10. SettingsReach'
    <2> SUFFICES ASSUME NEW u \in Tenant, NEW i \in JobId, IsLatest(i, u)', jobs[i].status = "succeeded"
                 PROVE  /\ host'[u].env.settings = tenants[u].settings
                        /\ host'[u].service = Down \/ host'[u].service.settings = tenants[u].settings
      BY DEF SettingsReach
    <2>1. IsLatest(i, u)
      BY DEF IsLatest
    <2>2. /\ host[u].env.settings = tenants[u].settings
          /\ host[u].service = Down \/ host[u].service.settings = tenants[u].settings
      BY <2>1 DEF SerialInv, SettingsReach
    <2>3. CASE u = t
      <3>1. worker[w].tenants[t].settings = tenants[t].settings
        BY <2>1, <2>3, LatestIsSeen
      <3>2. QED
        BY <1>7, <2>2, <2>3, <3>1
    <2>4. CASE u # t
      BY <1>7, <2>2, <2>4
    <2>5. QED
      BY <2>3, <2>4
  <1>11. QED
    BY <1>5, <1>8, <1>9, <1>10 DEF SerialInv

\* What the steps write.
LEMMA RuntimeSerial ==
  ASSUME OneWorker, SerialInv, QueueInv', NEW w \in Worker,
         \/ WriteArtifacts(w) \/ WriteEnvironment(w) \/ EnsureNginxSite(w) \/ EnableServices(w)
         \/ EnsureCertificate(w) \/ RestartServices(w)
  PROVE  SerialInv'
  <1> DEFINE t == Target(w)
             p == worker[w].port
             seen == worker[w].tenants[t].settings
  <1>1. UNCHANGED <<tenants, jobs, faults>> /\ worker[w].pc \in Steps
    BY DEF WriteArtifacts, WriteEnvironment, EnsureNginxSite, EnableServices, EnsureCertificate, RestartServices,
           At, Steps, Labels
  <1>2. worker \in [Worker -> WorkerState] /\ worker[w] \in WorkerState /\ host \in [Tenant -> Host]
    BY WorkerFields DEF SerialInv, QueueInv, TypeOK
  <1>3. t \in Tenant /\ host[t] \in Host /\ Creates(w) \in BOOLEAN
    BY <1>1, <1>2, TargetIs DEF SerialInv
  <1>4. HostFollows(w) /\ KindOfJob(w)
    BY <1>1, BatchIs
  <1>5. ASSUME NEW label \in Labels, Goto(w, label)
        PROVE  /\ worker'[w].pc = label /\ worker'[w].port = p /\ Target(w)' = t /\ Creates(w)' = Creates(w)
               /\ worker'[w].tenants = worker[w].tenants
    <2>1. worker'[w] = [worker[w] EXCEPT !.pc = label]
      BY <1>2, <1>5 DEF Goto
    <2>2. QED
      BY <1>1, <1>2, <2>1 DEF WorkerState, Target, Creates
  <1>6. CASE WriteArtifacts(w)
    <2> DEFINE h == [host[t] EXCEPT !.config = p]
    <2>1. worker[w].pc = "artifacts" /\ host' = [host EXCEPT ![t] = h] /\ Goto(w, "environment")
      BY <1>2, <1>6 DEF WriteArtifacts, At
    <2>2. /\ h.config = p /\ h.site = host[t].site /\ h.env = host[t].env /\ h.service = host[t].service
      BY <1>3 DEF Host
    <2> HIDE DEF h
    <2>3. host'[t] = h /\ Creates(w) /\ "environment" \in Steps
      BY <1>2, <1>3, <1>4, <2>1 DEF KindOfJob, Steps, Labels
    <2>4. HostFollows(w)' /\ KindOfJob(w)'
      BY <1>5, <2>1, <2>2, <2>3 DEF HostFollows, KindOfJob, Labels
    <2>5. QED
      BY <1>1, <2>1, <2>2, <2>3, <2>4, HostSerial
  <1>7. CASE WriteEnvironment(w)
    <2> DEFINE env == [port |-> p, settings |-> seen]
               h == [host[t] EXCEPT !.database = host[t].database \/ Creates(w), !.env = env]
               label == IF Creates(w) THEN "site" ELSE "restart"
    <2>1. worker[w].pc = "environment" /\ host' = [host EXCEPT ![t] = h] /\ Goto(w, label)
      BY <1>2, <1>7 DEF WriteEnvironment, At
    <2>2. /\ h.config = host[t].config /\ h.site = host[t].site /\ h.env.port = p /\ h.env.settings = seen
          /\ h.service = host[t].service
      BY <1>3 DEF Host
    <2> HIDE DEF h
    <2>3. host'[t] = h /\ host[t].config = p /\ label \in Steps /\ label \in Labels
      BY <1>2, <1>3, <1>4, <2>1 DEF HostFollows, Steps, Labels
    <2>4. HostFollows(w)' /\ KindOfJob(w)'
      <3>1. /\ worker'[w].pc = label /\ worker'[w].port = p /\ Target(w)' = t /\ Creates(w)' = Creates(w)
            /\ worker'[w].tenants = worker[w].tenants
        BY <1>5, <2>1, <2>3
      <3>2. QED
        BY <2>2, <2>3, <3>1 DEF HostFollows, KindOfJob
    <2> HIDE DEF label
    <2>5. QED
      BY <1>1, <2>1, <2>2, <2>3, <2>4, HostSerial
  <1>8. CASE EnsureNginxSite(w)
    <2> DEFINE h == [host[t] EXCEPT !.site = p]
    <2>1. worker[w].pc = "site" /\ host' = [host EXCEPT ![t] = h] /\ Goto(w, "start")
      BY <1>2, <1>8 DEF EnsureNginxSite, At
    <2>2. /\ h.config = host[t].config /\ h.site = p /\ h.env = host[t].env /\ h.service = host[t].service
      BY <1>3 DEF Host
    <2> HIDE DEF h
    <2>3. host'[t] = h /\ Creates(w) /\ "start" \in Steps
      BY <1>2, <1>3, <1>4, <2>1 DEF KindOfJob, Steps, Labels
    <2>4. HostFollows(w)' /\ KindOfJob(w)'
      BY <1>4, <1>5, <2>1, <2>2, <2>3 DEF HostFollows, KindOfJob, Labels
    <2>5. QED
      BY <1>1, <2>1, <2>2, <2>3, <2>4, HostSerial
  <1>9. CASE EnableServices(w)
    <2> DEFINE h == [host[t] EXCEPT !.started = TRUE]
    <2>1. worker[w].pc = "start" /\ host' = [host EXCEPT ![t] = h] /\ Goto(w, "certificate")
      BY <1>2, <1>9 DEF EnableServices, At
    <2>2. /\ h.config = host[t].config /\ h.site = host[t].site /\ h.env = host[t].env
          /\ h.service = host[t].service
      BY <1>3 DEF Host
    <2> HIDE DEF h
    <2>3. host'[t] = h /\ Creates(w) /\ "certificate" \in Steps
      BY <1>2, <1>3, <1>4, <2>1 DEF KindOfJob, Steps, Labels
    <2>4. HostFollows(w)' /\ KindOfJob(w)'
      BY <1>4, <1>5, <2>1, <2>2, <2>3 DEF HostFollows, KindOfJob, Labels
    <2>5. QED
      BY <1>1, <2>1, <2>2, <2>3, <2>4, HostSerial
  <1>10. CASE EnsureCertificate(w)
    <2> DEFINE h == [host[t] EXCEPT !.certificate = TRUE]
    <2>1. worker[w].pc = "certificate" /\ host' = [host EXCEPT ![t] = h] /\ Goto(w, "health")
      BY <1>2, <1>10 DEF EnsureCertificate, At
    <2>2. /\ h.config = host[t].config /\ h.site = host[t].site /\ h.env = host[t].env
          /\ h.service = host[t].service
      BY <1>3 DEF Host
    <2> HIDE DEF h
    <2>3. host'[t] = h /\ Creates(w) /\ "health" \in Steps
      BY <1>2, <1>3, <1>4, <2>1 DEF KindOfJob, Steps, Labels
    <2>4. HostFollows(w)' /\ KindOfJob(w)'
      BY <1>4, <1>5, <2>1, <2>2, <2>3 DEF HostFollows, KindOfJob, Labels
    <2>5. QED
      BY <1>1, <2>1, <2>2, <2>3, <2>4, HostSerial
  <1>11. CASE RestartServices(w)
    <2> DEFINE h == [host[t] EXCEPT !.started = TRUE, !.service = Down]
    <2>1. worker[w].pc = "restart" /\ host' = [host EXCEPT ![t] = h] /\ Goto(w, "health")
      BY <1>2, <1>11 DEF RestartServices, At
    <2>2. /\ h.config = host[t].config /\ h.site = host[t].site /\ h.env = host[t].env /\ h.service = Down
      BY <1>3 DEF Host
    <2> HIDE DEF h
    <2>3. host'[t] = h /\ ~Creates(w) /\ "health" \in Steps
      BY <1>2, <1>3, <1>4, <2>1 DEF KindOfJob, Steps, Labels
    <2>4. HostFollows(w)' /\ KindOfJob(w)'
      BY <1>4, <1>5, <2>1, <2>2, <2>3 DEF HostFollows, KindOfJob, Labels
    <2>5. QED
      BY <1>1, <2>1, <2>2, <2>3, <2>4, HostSerial
  <1>12. QED
    BY <1>6, <1>7, <1>8, <1>9, <1>10, <1>11

\* Services come up with the environment that is there.
LEMMA ServiceSerial ==
  ASSUME SerialInv, QueueInv', NEW t \in Tenant, ServiceStarts(t) \/ ServiceStops(t)
  PROVE  SerialInv'
  <1>1. PICK service \in {host[t].env, Down} : host' = [host EXCEPT ![t] = [host[t] EXCEPT !.service = service]]
    BY DEF ServiceStarts, ServiceStops, SerialInv, QueueInv, TypeOK
  <1>2. UNCHANGED <<tenants, jobs, worker>>
    BY DEF ServiceStarts, ServiceStops
  <1>3. \A u \in Tenant : /\ host'[u].config = host[u].config /\ host'[u].site = host[u].site
                          /\ host'[u].env = host[u].env /\ host'[u].service \in {host[u].service, host[u].env, Down}
    BY <1>1 DEF SerialInv, QueueInv, TypeOK, Host
  <1>4. TenantFollowsJob'
    BY <1>2 DEF SerialInv, TenantFollowsJob
  <1>5. RuntimeIsConsistent'
    BY <1>2, <1>3 DEF SerialInv, RuntimeIsConsistent, QueueInv, JobsInv, Exists
  <1>6. \A i, u : IsLatest(i, u)' <=> IsLatest(i, u)
    BY <1>2 DEF IsLatest
  <1>7. SettingsReach'
    BY <1>2, <1>3, <1>6 DEF SerialInv, SettingsReach
  <1>8. ASSUME NEW w \in Worker
        PROVE  /\ \A j \in Batch(w)' : jobs'[j].status = "running"
               /\ worker'[w].pc \in Steps => worker'[w].job \notin worker'[w].todo
               /\ Busy(w)' => \A j \in Batch(w)' : SeenAsStored(w, j)'
               /\ worker'[w].pc \in Steps => HostFollows(w)' /\ KindOfJob(w)'
    <2>1. Batch(w)' = Batch(w) /\ (Busy(w)' <=> Busy(w))
      BY <1>2 DEF Batch, Busy
    <2>2. \A j \in Batch(w) : SeenAsStored(w, j) => SeenAsStored(w, j)'
      BY <1>2, <1>6 DEF SeenAsStored
    <2>3. ASSUME worker[w].pc \in Steps PROVE HostFollows(w)' /\ KindOfJob(w)'
      <3>1. Target(w) \in Tenant /\ Target(w)' = Target(w) /\ Creates(w)' = Creates(w)
        BY <1>2, <2>3, TargetIs DEF SerialInv, Target, Creates
      <3>2. HostFollows(w) /\ KindOfJob(w)
        BY <2>3, BatchIs
      <3>3. QED
        BY <1>2, <1>3, <3>1, <3>2 DEF HostFollows, KindOfJob
    <2>4. QED
      BY <1>2, <2>1, <2>2, <2>3, BatchIs
  <1>9. BatchInv'
    BY <1>8 DEF BatchInv
  <1>10. QED
    BY <1>4, <1>5, <1>7, <1>9 DEF SerialInv

-----------------------------------------------------------------------------
(* Claims and outcomes.                                                    *)

LEMMA ClaimSerial ==
  ASSUME OneWorker, SerialInv, QueueInv', NEW w \in Worker, ClaimJobs(w)
  PROVE  SerialInv'
  <1> DEFINE claimed == Oldest({j \in JobId : Claimable(j)})
             Row(j) == [jobs[j] EXCEPT !.status = "running", !.attempts = jobs[j].attempts + 1,
                                       !.lease = "running", !.backoff = FALSE]
  <1>1. \A j \in claimed : j \in JobId /\ jobs[j].attempts < MaxAttempts /\ jobs[j].status # "succeeded"
    BY DEF Oldest, Claimable
  <1>2. /\ jobs' = [j \in JobId |-> IF j \in claimed THEN Row(j) ELSE jobs[j]]
        /\ worker' = [worker EXCEPT ![w].pc = "load", ![w].todo = claimed]
        /\ UNCHANGED <<tenants, host>>
    BY DEF ClaimJobs
  <1> HIDE DEF claimed
  <1>3. \A j \in JobId \ claimed : jobs'[j] = jobs[j]
    BY <1>2
  <1>4. ASSUME NEW j \in claimed
        PROVE  /\ jobs'[j].status = "running" /\ jobs'[j].type = jobs[j].type /\ jobs'[j].tenant = jobs[j].tenant
    <2>1. jobs'[j] = Row(j)
      BY <1>1, <1>2
    <2>2. jobs[j] \in JobRow
      BY <1>1, JobFields DEF SerialInv, QueueInv
    <2>3. QED
      BY <2>1, <2>2 DEF JobRow
  <1>5. \A j \in JobId : jobs'[j].type = jobs[j].type /\ jobs'[j].tenant = jobs[j].tenant
    BY <1>3, <1>4
  <1>6. BatchInv'
    <2>1. \A v \in Worker : v = w
      BY DEF OneWorker
    <2>2. worker'[w].pc = "load" /\ worker'[w].todo = claimed
      <3>1. worker \in [Worker -> WorkerState] /\ worker[w] \in WorkerState
        BY WorkerFields DEF SerialInv, QueueInv, TypeOK
      <3>2. QED
        BY <1>2, <3>1 DEF WorkerState
    <2>3. Batch(w)' = claimed /\ ~Busy(w)' /\ worker'[w].pc \notin Steps
      BY <2>2 DEF Batch, Busy, Steps
    <2>4. QED
      BY <1>4, <2>1, <2>3 DEF BatchInv
  <1>7. TenantFollowsJob'
    <2> SUFFICES ASSUME NEW j \in JobId, jobs'[j].type = "create"
                 PROVE  tenants[jobs[j].tenant].status \in AdminStatus \cup
                          {CASE jobs'[j].status = "succeeded" -> "active"
                             [] jobs'[j].status = "failed" /\ jobs'[j].attempts = MaxAttempts -> "suspended"
                             [] OTHER -> "provisioning"}
      BY <1>2, <1>5 DEF TenantFollowsJob
    <2>1. tenants[jobs[j].tenant].status \in AdminStatus \cup
            {CASE jobs[j].status = "succeeded" -> "active"
               [] jobs[j].status = "failed" /\ jobs[j].attempts = MaxAttempts -> "suspended"
               [] OTHER -> "provisioning"}
      BY <1>5 DEF SerialInv, TenantFollowsJob
    <2>2. CASE j \in claimed
      <3>1. jobs[j].status # "succeeded" /\ jobs[j].attempts # MaxAttempts
        BY <1>1, <2>2, JobFields, AttemptsAssumption DEF SerialInv, QueueInv
      <3>2. QED
        BY <1>4, <2>1, <2>2, <3>1
    <2>3. CASE j \notin claimed
      BY <1>3, <2>1, <2>3
    <2>4. QED
      BY <2>2, <2>3
  <1>8. RuntimeIsConsistent'
    BY <1>2, <1>3, <1>4, <1>5 DEF SerialInv, RuntimeIsConsistent
  <1>9. SettingsReach'
    <2>1. \A j \in JobId, t \in Tenant : IsLatest(j, t)' => IsLatest(j, t)
      BY <1>5 DEF IsLatest
    <2>2. QED
      BY <1>2, <1>3, <1>4, <2>1 DEF SerialInv, SettingsReach
  <1>10. QED
    BY <1>6, <1>7, <1>8, <1>9 DEF SerialInv

\* The status a create job gives to its tenant.
Followed(status, attempts) ==
    CASE status = "succeeded" -> "active"
      [] status = "failed" /\ attempts = MaxAttempts -> "suspended"
      [] OTHER -> "provisioning"

\* The rows that are stored at the end of a job, when no other worker has the job.
LEMMA SavedRows ==
  ASSUME SerialInv, NEW w \in Worker, worker[w].pc \in Steps,
         NEW status \in {"succeeded", "failed"}, NEW backoff, NEW port, NEW ts,
         SaveOutcome(w, status, backoff, port, ts)
  PROVE  LET j == worker[w].job
             t == Target(w)
         IN  /\ jobs'[j].type = jobs[j].type /\ jobs'[j].tenant = t /\ jobs'[j].attempts = jobs[j].attempts
             /\ jobs'[j].status = status /\ jobs'[j].port = port
             /\ \A i \in JobId \ {j} : jobs'[i] = jobs[i]
             /\ tenants'[t].settings = tenants[t].settings
             /\ tenants'[t].status = ts \/ tenants'[t].status \in AdminStatus
             /\ ts = TrackedStatus(w) => tenants'[t].status = tenants[t].status
             /\ \A u \in Tenant \ {t} : tenants'[u] = tenants[u]
             /\ UNCHANGED host
             /\ worker'[w].pc = "next" /\ worker'[w].todo = worker[w].todo
             /\ \A i \in JobId \ {j} : worker'[w].jobs[i] = worker[w].jobs[i]
             /\ worker'[w].tenants[t].status = ts
             /\ worker'[w].tenants[t].settings = worker[w].tenants[t].settings
             /\ \A u \in Tenant \ {t} : worker'[w].tenants[u] = worker[w].tenants[u]
  <1> DEFINE j == worker[w].job
             t == Target(w)
             old == worker[w].jobs[j]
             seen == worker[w].tenants[t]
  <1>1. j \in JobId /\ t \in Tenant /\ jobs[j].tenant = t
    BY TargetIs DEF SerialInv, Target
  <1>2. /\ old.status = "running" /\ old.port = jobs[j].port
        /\ seen.status = tenants[t].status \/ tenants[t].status \in AdminStatus
    BY <1>1, BatchIs DEF SeenAsStored
  <1>3. /\ worker \in [Worker -> WorkerState] /\ worker[w] \in WorkerState
        /\ worker[w].jobs \in [JobId -> JobRow] /\ worker[w].tenants \in [Tenant -> TenantRow]
        /\ seen \in TenantRow
    BY <1>1, WorkerFields DEF SerialInv, QueueInv, TypeOK
  <1>4. /\ jobs \in [JobId -> JobRow] /\ jobs[j] \in JobRow
        /\ tenants \in [Tenant -> TenantRow] /\ tenants[t] \in TenantRow
    BY <1>1 DEF SerialInv, QueueInv, TypeOK
  <1>5. /\ jobs' = [jobs EXCEPT ![j].status  = Written(old.status, status, jobs[j].status),
                                ![j].lease   = Written(old.lease, "none", jobs[j].lease),
                                ![j].backoff = Written(old.backoff, backoff, jobs[j].backoff),
                                ![j].port    = Written(old.port, port, jobs[j].port)]
        /\ tenants' = [tenants EXCEPT ![t] = [tenants[t] EXCEPT !.status = Written(seen.status, ts, tenants[t].status)]]
        /\ worker' = [worker EXCEPT ![w].pc = "next", ![w].job = 0, ![w].port = 0,
                                    ![w].jobs[j] = NoJob, ![w].tenants[t].status = ts]
        /\ UNCHANGED host
    BY <1>1, <1>4 DEF SaveOutcome
  <1>6. TrackedStatus(w) = seen.status
    BY DEF TrackedStatus
  <1> HIDE DEF j, t, old, seen
  <1>7. /\ Written(old.status, status, jobs[j].status) = status /\ Written(old.port, port, jobs[j].port) = port
        /\ Written(seen.status, ts, tenants[t].status) = ts \/ Written(seen.status, ts, tenants[t].status) \in AdminStatus
        /\ ts = seen.status => Written(seen.status, ts, tenants[t].status) = tenants[t].status
    BY <1>2 DEF Written
  <1>8. /\ jobs'[j].type = jobs[j].type /\ jobs'[j].tenant = t /\ jobs'[j].attempts = jobs[j].attempts
        /\ jobs'[j].status = status /\ jobs'[j].port = port
        /\ \A i \in JobId \ {j} : jobs'[i] = jobs[i]
    BY <1>1, <1>4, <1>5, <1>7 DEF JobRow
  <1>9. /\ tenants'[t].settings = tenants[t].settings
        /\ tenants'[t].status = Written(seen.status, ts, tenants[t].status)
        /\ \A u \in Tenant \ {t} : tenants'[u] = tenants[u]
    BY <1>1, <1>4, <1>5 DEF TenantRow
  <1>10. /\ worker'[w].pc = "next" /\ worker'[w].todo = worker[w].todo
         /\ worker'[w].jobs = [worker[w].jobs EXCEPT ![j] = NoJob]
         /\ worker'[w].tenants = [worker[w].tenants EXCEPT ![t] = [seen EXCEPT !.status = ts]]
    BY <1>3, <1>5 DEF WorkerState, seen
  <1>11. /\ \A i \in JobId \ {j} : worker'[w].jobs[i] = worker[w].jobs[i]
         /\ worker'[w].tenants[t] = [seen EXCEPT !.status = ts]
         /\ \A u \in Tenant \ {t} : worker'[w].tenants[u] = worker[w].tenants[u]
    BY <1>1, <1>3, <1>10
  <1>12. [seen EXCEPT !.status = ts].status = ts /\ [seen EXCEPT !.status = ts].settings = worker[w].tenants[t].settings
    BY <1>3 DEF TenantRow, seen
  <1>13. QED
    BY <1>5, <1>6, <1>7, <1>8, <1>9, <1>10, <1>11, <1>12 DEF j, t

LEMMA SaveSerial ==
  ASSUME OneWorker, SerialInv, QueueInv', NEW w \in Worker, worker[w].pc \in Steps,
         NEW status \in {"succeeded", "failed"}, NEW backoff, NEW port, NEW ts,
         SaveOutcome(w, status, backoff, port, ts),
         ts = IF Creates(w) THEN Followed(status, jobs[worker[w].job].attempts) ELSE TrackedStatus(w),
         status = "succeeded" => worker[w].pc = "succeed" /\ (Creates(w) => port = worker[w].port)
  PROVE  SerialInv'
  <1> DEFINE j == worker[w].job
             t == Target(w)
  <1>1. /\ j \in JobId /\ t \in Tenant /\ jobs[j].tenant = t /\ jobs[j].status = "running" /\ j \in Batch(w)
        /\ j \notin worker[w].todo /\ HostFollows(w) /\ (Creates(w) <=> jobs[j].type = "create")
    BY TargetIs, BatchIs DEF SerialInv, Target, Creates
  <1>2. /\ jobs'[j].type = jobs[j].type /\ jobs'[j].tenant = t /\ jobs'[j].attempts = jobs[j].attempts
        /\ jobs'[j].status = status /\ jobs'[j].port = port
        /\ \A i \in JobId \ {j} : jobs'[i] = jobs[i]
        /\ UNCHANGED host
    BY SavedRows
  <1>3. /\ tenants'[t].settings = tenants[t].settings
        /\ tenants'[t].status = ts \/ tenants'[t].status \in AdminStatus
        /\ ts = TrackedStatus(w) => tenants'[t].status = tenants[t].status
        /\ \A u \in Tenant \ {t} : tenants'[u] = tenants[u]
    BY SavedRows
  <1>4. /\ worker'[w].pc = "next" /\ worker'[w].todo = worker[w].todo
        /\ \A i \in JobId \ {j} : worker'[w].jobs[i] = worker[w].jobs[i]
        /\ worker'[w].tenants[t].status = ts
        /\ worker'[w].tenants[t].settings = worker[w].tenants[t].settings
        /\ \A u \in Tenant \ {t} : worker'[w].tenants[u] = worker[w].tenants[u]
    BY SavedRows
  <1> HIDE DEF j, t
  <1>5. \A i \in JobId : jobs'[i].type = jobs[i].type /\ jobs'[i].tenant = jobs[i].tenant
    BY <1>1, <1>2
  <1>6. \A i \in JobId : \A u : IsLatest(i, u)' <=> IsLatest(i, u)
    BY <1>5 DEF IsLatest
  <1>7. \A u \in Tenant : tenants'[u].settings = tenants[u].settings
    BY <1>3
  <1>8. BatchInv'
    <2>1. \A v \in Worker : v = w
      BY DEF OneWorker
    <2>2. Batch(w)' = worker[w].todo /\ worker'[w].pc \notin Steps
      BY <1>4 DEF Batch, Steps
    <2>3. ASSUME NEW i \in worker[w].todo
          PROVE  jobs'[i].status = "running" /\ SeenAsStored(w, i)'
      <3> DEFINE u == jobs[i].tenant
      <3>1. /\ i \in JobId /\ i # j /\ u \in Tenant /\ jobs[i].status = "running" /\ SeenAsStored(w, i)
            /\ jobs'[i] = jobs[i]
        <4>1. i \in Batch(w) /\ Busy(w)
          BY BatchIs DEF Batch
        <4>2. QED
          BY <1>1, <1>2, <4>1, BatchIs
      <3>2. worker'[w].jobs[i] = worker[w].jobs[i]
        BY <1>4, <3>1
      <3>3. worker'[w].tenants[u].status = tenants'[u].status \/ tenants'[u].status \in AdminStatus
        <4>1. worker[w].tenants[u].status = tenants[u].status \/ tenants[u].status \in AdminStatus
          BY <3>1 DEF SeenAsStored
        <4> HIDE DEF u
        <4>2. CASE u = t
          BY <1>3, <1>4, <4>2
        <4>3. CASE u # t
          BY <1>3, <1>4, <3>1, <4>1, <4>3
        <4>4. QED
          BY <4>2, <4>3
      <3>4. worker'[w].tenants[u].settings = worker[w].tenants[u].settings
        BY <1>4, <3>1
      <3>5. \/ worker'[w].tenants[u].settings = tenants'[u].settings
            \/ \A k \in JobId : IsLatest(k, u)' => jobs'[k].status = "pending"
        BY <1>1, <1>2, <1>6, <1>7, <3>1, <3>4 DEF SeenAsStored
      <3>6. QED
        BY <3>1, <3>2, <3>3, <3>5 DEF SeenAsStored
    <2>4. QED
      BY <2>1, <2>2, <2>3 DEF BatchInv
  <1>9. TenantFollowsJob'
    <2> SUFFICES ASSUME NEW i \in JobId, jobs[i].type = "create"
                 PROVE  tenants'[jobs[i].tenant].status
                          \in AdminStatus \cup {Followed(jobs'[i].status, jobs'[i].attempts)}
      BY <1>5 DEF TenantFollowsJob, Followed
    <2>1. CASE i = j
      BY <1>1, <1>2, <1>3, <2>1 DEF j
    <2>2. CASE i # j
      <3>1. jobs[i].tenant \in Tenant
        BY DEF SerialInv, QueueInv, JobsInv, Exists
      <3>2. tenants[jobs[i].tenant].status \in AdminStatus \cup {Followed(jobs[i].status, jobs[i].attempts)}
        BY DEF SerialInv, TenantFollowsJob, Followed
      <3>3. jobs[i].tenant = t => ~Creates(w)
        BY <1>1, <2>2 DEF SerialInv, QueueInv, JobsInv
      <3>4. tenants'[jobs[i].tenant].status = tenants[jobs[i].tenant].status
        BY <1>3, <3>1, <3>3
      <3>5. QED
        BY <1>2, <2>2, <3>2, <3>4
    <2>3. QED
      BY <2>1, <2>2
  <1>10. RuntimeIsConsistent'
    <2> SUFFICES ASSUME NEW i \in JobId, jobs[i].type = "create", jobs'[i].status = "succeeded"
                 PROVE  LET x == host[jobs[i].tenant]
                        IN  x.config = jobs'[i].port /\ x.env.port = jobs'[i].port /\ x.site = jobs'[i].port
      BY <1>2, <1>5 DEF RuntimeIsConsistent
    <2>1. CASE i = j
      BY <1>1, <1>2, <2>1 DEF HostFollows, t
    <2>2. CASE i # j
      BY <1>2, <2>2 DEF SerialInv, RuntimeIsConsistent
    <2>3. QED
      BY <2>1, <2>2
  <1>11. SettingsReach'
    <2> SUFFICES ASSUME NEW u \in Tenant, NEW i \in JobId, IsLatest(i, u), jobs'[i].status = "succeeded"
                 PROVE  /\ host[u].env.settings = tenants[u].settings
                        /\ host[u].service = Down \/ host[u].service.settings = tenants[u].settings
      BY <1>2, <1>6, <1>7 DEF SettingsReach
    <2>1. CASE i = j
      <3>1. u = t /\ ~Creates(w) /\ worker[w].pc = "succeed"
        BY <1>1, <1>2, <2>1 DEF IsLatest
      <3>2. worker[w].tenants[t].settings = tenants[t].settings
        BY <1>1, <2>1, <3>1, LatestIsSeen DEF t
      <3>3. QED
        BY <1>1, <3>1, <3>2 DEF HostFollows, t
    <2>2. CASE i # j
      BY <1>2, <2>2 DEF SerialInv, SettingsReach
    <2>3. QED
      BY <2>1, <2>2
  <1>12. QED
    BY <1>8, <1>9, <1>10, <1>11 DEF SerialInv

LEMMA OutcomeSerial ==
  ASSUME OneWorker, SerialInv, QueueInv', NEW w \in Worker, Succeed(w) \/ Fail(w)
  PROVE  SerialInv'
  <1> DEFINE j == worker[w].job
  <1>1. worker[w].pc \in Steps
    BY DEF Succeed, Fail, At, Steps, Labels
  <1>2. CASE Succeed(w)
    <2> DEFINE port == IF Creates(w) THEN worker[w].port ELSE 0
               ts == IF Creates(w) THEN Followed("succeeded", jobs[j].attempts) ELSE TrackedStatus(w)
    <2>1. SaveOutcome(w, "succeeded", FALSE, port, ts) /\ worker[w].pc = "succeed"
      BY <1>2 DEF Succeed, At, Followed
    <2> HIDE DEF ts
    <2>2. ts = IF Creates(w) THEN Followed("succeeded", jobs[worker[w].job].attempts) ELSE TrackedStatus(w)
      BY DEF ts
    <2>3. QED
      BY <1>1, <2>1, <2>2, SaveSerial
  <1>3. CASE Fail(w)
    <2> DEFINE ts == IF Creates(w) THEN Followed("failed", jobs[j].attempts) ELSE TrackedStatus(w)
    <2>1. LastAttempt(w) <=> jobs[j].attempts = MaxAttempts
      <3>1. j \in JobId /\ Tracked(w).attempts = jobs[j].attempts
        BY <1>1, TargetIs, BatchIs DEF SerialInv, Tracked, SeenAsStored
      <3>2. jobs[j].attempts \in 0..MaxAttempts
        BY <3>1, JobFields DEF SerialInv, QueueInv
      <3>3. QED
        BY <3>1, <3>2, AttemptsAssumption DEF LastAttempt
    <2>2. ts = IF ~Creates(w) THEN TrackedStatus(w) ELSE IF LastAttempt(w) THEN "suspended" ELSE "provisioning"
      BY <2>1 DEF Followed
    <2>3. SaveOutcome(w, "failed", ~LastAttempt(w), Tracked(w).port, ts)
      BY <1>3, <2>2 DEF Fail
    <2> HIDE DEF ts
    <2>4. ts = IF Creates(w) THEN Followed("failed", jobs[worker[w].job].attempts) ELSE TrackedStatus(w)
      BY DEF ts
    <2>5. QED
      BY <1>1, <2>3, <2>4, SaveSerial
  <1>4. QED
    BY <1>2, <1>3

-----------------------------------------------------------------------------
(* The platform API and the clock.                                         *)

\* What an operator or the clock changes of rows that are there.
LEMMA RowsSerial ==
  ASSUME SerialInv, QueueInv', UNCHANGED <<host, worker>>,
         \A j \in JobId : /\ jobs'[j].type = jobs[j].type /\ jobs'[j].tenant = jobs[j].tenant
                          /\ jobs'[j].status = jobs[j].status /\ jobs'[j].attempts = jobs[j].attempts
                          /\ jobs'[j].port = jobs[j].port,
         \A t \in Tenant : /\ tenants'[t].settings = tenants[t].settings
                           /\ tenants'[t].status \in AdminStatus \cup {tenants[t].status}
  PROVE  SerialInv'
  <1>1. \A j \in JobId : \A t : IsLatest(j, t)' <=> IsLatest(j, t)
    BY DEF IsLatest
  <1>2. \A j \in JobId : Exists(j) => jobs[j].tenant \in Tenant
    BY DEF SerialInv, QueueInv, JobsInv
  <1>3. BatchInv'
    <2> SUFFICES ASSUME NEW w \in Worker
                 PROVE  /\ \A j \in Batch(w)' : jobs'[j].status = "running"
                        /\ worker'[w].pc \in Steps => worker'[w].job \notin worker'[w].todo
                        /\ Busy(w)' => \A j \in Batch(w)' : SeenAsStored(w, j)'
                        /\ worker'[w].pc \in Steps => HostFollows(w)' /\ KindOfJob(w)'
      BY DEF BatchInv
    <2>1. Batch(w)' = Batch(w) /\ (Busy(w)' <=> Busy(w))
      BY DEF Batch, Busy
    <2>2. ASSUME NEW j \in Batch(w), SeenAsStored(w, j) PROVE SeenAsStored(w, j)'
      <3>1. j \in JobId /\ jobs[j].tenant \in Tenant
        BY BatchIs
      <3>2. QED
        BY <1>1, <2>2, <3>1 DEF SeenAsStored
    <2>3. ASSUME worker[w].pc \in Steps PROVE HostFollows(w)' /\ KindOfJob(w)'
      <3>1. Target(w)' = Target(w) /\ Creates(w)' = Creates(w)
        BY <2>3, TargetIs DEF SerialInv, Target, Creates
      <3>2. QED
        BY <2>3, <3>1, BatchIs DEF HostFollows, KindOfJob
    <2>4. QED
      BY <2>1, <2>2, <2>3, BatchIs
  <1>4. TenantFollowsJob'
    <2> SUFFICES ASSUME NEW j \in JobId, jobs[j].type = "create"
                 PROVE  tenants'[jobs[j].tenant].status
                          \in AdminStatus \cup {Followed(jobs[j].status, jobs[j].attempts)}
      BY DEF TenantFollowsJob, Followed
    <2>1. tenants[jobs[j].tenant].status \in AdminStatus \cup {Followed(jobs[j].status, jobs[j].attempts)}
      BY DEF SerialInv, TenantFollowsJob, Followed
    <2>2. jobs[j].tenant \in Tenant
      BY <1>2 DEF Exists
    <2>3. QED
      BY <2>1, <2>2
  <1>5. RuntimeIsConsistent'
    BY DEF SerialInv, RuntimeIsConsistent
  <1>6. SettingsReach'
    BY <1>1 DEF SerialInv, SettingsReach
  <1>7. QED
    BY <1>3, <1>4, <1>5, <1>6 DEF SerialInv

LEMMA ClockSerial ==
  ASSUME SerialInv, QueueInv', NEW j \in JobId, LeaseRunsOut(j) \/ BackoffPasses(j)
  PROVE  SerialInv'
  <1>1. \A i \in JobId : /\ jobs'[i].type = jobs[i].type /\ jobs'[i].tenant = jobs[i].tenant
                         /\ jobs'[i].status = jobs[i].status /\ jobs'[i].attempts = jobs[i].attempts
                         /\ jobs'[i].port = jobs[i].port
    BY DEF LeaseRunsOut, BackoffPasses, SerialInv, QueueInv, TypeOK, JobRow
  <1>2. UNCHANGED <<tenants, host, worker>>
    BY DEF LeaseRunsOut, BackoffPasses
  <1>3. QED
    BY <1>1, <1>2, RowsSerial

LEMMA StatusSerial ==
  ASSUME SerialInv, QueueInv', NEW t \in Tenant, NEW s \in AdminStatus, UpdateStatus(t, s)
  PROVE  SerialInv'
  <1>1. \A u \in Tenant : /\ tenants'[u].settings = tenants[u].settings
                          /\ tenants'[u].status \in AdminStatus \cup {tenants[u].status}
    BY DEF UpdateStatus, SerialInv, QueueInv, TypeOK, TenantRow
  <1>2. UNCHANGED <<jobs, host, worker>>
    BY DEF UpdateStatus
  <1>3. QED
    BY <1>1, <1>2, RowsSerial

\* A new job is the last of all.
LEMMA EnqueuedIsLast ==
  ASSUME SerialInv, NEW t \in Tenant, NEW j \in JobId, NEW type \in {"create", "settings"}, Enqueue(j, type, t)
  PROVE  /\ jobs'[j].type = type /\ jobs'[j].tenant = t /\ jobs'[j].status = "pending"
         /\ \A i \in JobId \ {j} : jobs'[i] = jobs[i]
         /\ ~Exists(j) /\ \A i \in JobId : Exists(i) => i < j
  <1> DEFINE row == [NoJob EXCEPT !.type = type, !.tenant = t]
  <1>1. /\ ~Exists(j) /\ jobs' = [jobs EXCEPT ![j] = row]
    BY DEF Enqueue
  <1>2. row.type = type /\ row.tenant = t /\ row.status = "pending"
    BY DEF NoJob
  <1> HIDE DEF row
  <1>3. \A i \in JobId : Exists(i) => i < j
    BY <1>1, BoundsAssumption DEF SerialInv, QueueInv, JobsInv, JobId
  <1>4. QED
    BY <1>1, <1>2, <1>3 DEF SerialInv, QueueInv, TypeOK

\* The workers go on as before while a job is added: the batch holds others, and
\* what they have loaded is stored, or a job is pending.
LEMMA BatchGoesOn ==
  ASSUME SerialInv, UNCHANGED <<host, worker>>, NEW j \in JobId, ~Exists(j),
         \A i \in JobId \ {j} : jobs'[i] = jobs[i],
         \A w \in Worker : \A i \in JobId : Exists(i) /\ SeenAsStored(w, i) => SeenAsStored(w, i)'
  PROVE  BatchInv'
  <1> SUFFICES ASSUME NEW w \in Worker
               PROVE  /\ \A i \in Batch(w)' : jobs'[i].status = "running"
                      /\ worker'[w].pc \in Steps => worker'[w].job \notin worker'[w].todo
                      /\ Busy(w)' => \A i \in Batch(w)' : SeenAsStored(w, i)'
                      /\ worker'[w].pc \in Steps => HostFollows(w)' /\ KindOfJob(w)'
    BY DEF BatchInv
  <1>1. Batch(w)' = Batch(w) /\ (Busy(w)' <=> Busy(w))
    BY DEF Batch, Busy
  <1>2. \A i \in Batch(w) : i \in JobId /\ i # j /\ Exists(i) /\ jobs'[i].status = "running"
    BY BatchIs
  <1>3. ASSUME worker[w].pc \in Steps PROVE HostFollows(w)' /\ KindOfJob(w)'
    <2>1. worker[w].job \in JobId /\ worker[w].job # j
      BY <1>2, <1>3, BatchIs
    <2>2. Target(w)' = Target(w) /\ Creates(w)' = Creates(w)
      BY <2>1 DEF Target, Creates
    <2>3. QED
      BY <1>3, <2>2, BatchIs DEF HostFollows, KindOfJob
  <1>4. QED
    BY <1>1, <1>2, <1>3, BatchIs

LEMMA CreateSerial ==
  ASSUME SerialInv, QueueInv', NEW t \in Tenant, NEW j \in JobId, CreateTenant(t, j)
  PROVE  SerialInv'
  <1>1. /\ tenants[t].status = "none" /\ Enqueue(j, "create", t) /\ UNCHANGED <<host, worker>>
        /\ tenants' = [tenants EXCEPT ![t] = [status |-> "provisioning", settings |-> 1]]
    BY DEF CreateTenant
  <1>2. /\ jobs'[j].type = "create" /\ jobs'[j].tenant = t /\ jobs'[j].status = "pending"
        /\ \A i \in JobId \ {j} : jobs'[i] = jobs[i]
        /\ ~Exists(j)
    BY <1>1, EnqueuedIsLast
  <1>3. tenants'[t].status = "provisioning" /\ \A u \in Tenant \ {t} : tenants'[u] = tenants[u]
    BY <1>1 DEF SerialInv, QueueInv, TypeOK
  <1>4. \A i \in JobId : Exists(i) => i # j /\ jobs[i].tenant \in Tenant \ {t}
    BY <1>1, <1>2 DEF SerialInv, QueueInv, JobsInv
  <1>5. \A i \in JobId : \A u : IsLatest(i, u)' <=> IsLatest(i, u)
    BY <1>2 DEF IsLatest, Exists
  <1>6. BatchInv'
    <2>1. ASSUME NEW w \in Worker, NEW i \in JobId, Exists(i), SeenAsStored(w, i) PROVE SeenAsStored(w, i)'
      <3>1. jobs'[i] = jobs[i] /\ tenants'[jobs[i].tenant] = tenants[jobs[i].tenant] /\ UNCHANGED worker
        BY <1>1, <1>2, <1>3, <1>4, <2>1
      <3>2. \A k \in JobId : IsLatest(k, jobs[i].tenant) => jobs'[k] = jobs[k]
        BY <1>2 DEF IsLatest, Exists
      <3>3. QED
        BY <1>5, <2>1, <3>1, <3>2 DEF SeenAsStored
    <2>2. QED
      BY <1>1, <1>2, <2>1, BatchGoesOn
  <1>7. TenantFollowsJob'
    <2> SUFFICES ASSUME NEW i \in JobId, jobs'[i].type = "create"
                 PROVE  tenants'[jobs'[i].tenant].status
                          \in AdminStatus \cup {Followed(jobs'[i].status, jobs'[i].attempts)}
      BY DEF TenantFollowsJob, Followed
    <2>1. CASE i = j
      BY <1>2, <1>3, <2>1 DEF Followed
    <2>2. CASE i # j
      <3>1. jobs'[i] = jobs[i] /\ tenants'[jobs[i].tenant] = tenants[jobs[i].tenant]
        BY <1>2, <1>3, <1>4, <2>2 DEF Exists
      <3>2. tenants[jobs[i].tenant].status \in AdminStatus \cup {Followed(jobs[i].status, jobs[i].attempts)}
        BY <3>1 DEF SerialInv, TenantFollowsJob, Followed
      <3>3. QED
        BY <3>1, <3>2
    <2>3. QED
      BY <2>1, <2>2
  <1>8. RuntimeIsConsistent'
    BY <1>1, <1>2 DEF SerialInv, RuntimeIsConsistent
  <1>9. SettingsReach'
    <2> SUFFICES ASSUME NEW u \in Tenant, NEW i \in JobId, IsLatest(i, u), jobs'[i].status = "succeeded"
                 PROVE  /\ host[u].env.settings = tenants'[u].settings
                        /\ host[u].service = Down \/ host[u].service.settings = tenants'[u].settings
      BY <1>1, <1>5 DEF SettingsReach
    <2>1. Exists(i) /\ jobs[i].tenant = u
      BY DEF IsLatest, Exists
    <2>2. jobs'[i] = jobs[i] /\ tenants'[u] = tenants[u]
      BY <1>2, <1>3, <1>4, <2>1
    <2>3. QED
      BY <2>2 DEF SerialInv, SettingsReach
  <1>10. QED
    BY <1>6, <1>7, <1>8, <1>9 DEF SerialInv

LEMMA SettingsSerial ==
  ASSUME SerialInv, QueueInv', NEW t \in Tenant, NEW j \in JobId, UpdateRegionalSettings(t, j)
  PROVE  SerialInv'
  <1>1. Enqueue(j, "settings", t) /\ UNCHANGED <<host, worker>>
    BY DEF UpdateRegionalSettings
  <1>2. /\ jobs'[j].type = "settings" /\ jobs'[j].tenant = t /\ jobs'[j].status = "pending"
        /\ \A i \in JobId \ {j} : jobs'[i] = jobs[i]
        /\ ~Exists(j) /\ \A i \in JobId : Exists(i) => i < j
    BY <1>1, EnqueuedIsLast
  <1>3. /\ \A u \in Tenant : tenants'[u].status = tenants[u].status
        /\ \A u \in Tenant \ {t} : tenants'[u] = tenants[u]
    BY DEF UpdateRegionalSettings, SerialInv, QueueInv, TypeOK, TenantRow
  <1>4. \A i \in JobId : IsLatest(i, t)' => i = j
    <2> SUFFICES ASSUME NEW i \in JobId, IsLatest(i, t)', i # j PROVE FALSE
      OBVIOUS
    <2>1. Exists(i) /\ i < j
      BY <1>2 DEF IsLatest, Exists
    <2>2. j <= i
      BY <1>2 DEF IsLatest
    <2>3. QED
      BY <2>1, <2>2, BoundsAssumption DEF JobId
  <1>5. \A u \in Tenant \ {t} : \A i \in JobId : IsLatest(i, u)' => IsLatest(i, u) /\ i # j
    BY <1>2 DEF IsLatest, Exists
  <1>6. \A u \in Tenant \ {t} : \A i \in JobId : IsLatest(i, u) => IsLatest(i, u)'
    BY <1>2 DEF IsLatest, Exists
  <1>7. BatchInv'
    <2>1. ASSUME NEW w \in Worker, NEW i \in JobId, Exists(i), SeenAsStored(w, i) PROVE SeenAsStored(w, i)'
      <3> DEFINE u == jobs[i].tenant
      <3>1. jobs'[i] = jobs[i] /\ u \in Tenant /\ UNCHANGED worker
        BY <1>1, <1>2, <2>1 DEF SerialInv, QueueInv, JobsInv
      <3>2. CASE u = t
        <4>1. \A k \in JobId : IsLatest(k, u)' => jobs'[k].status = "pending"
          BY <1>2, <1>4, <3>2
        <4>2. QED
          BY <1>3, <2>1, <3>1, <4>1 DEF SeenAsStored
      <3>3. CASE u # t
        <4>1. tenants'[u] = tenants[u]
          BY <1>3, <3>1, <3>3
        <4>2. \A k \in JobId : IsLatest(k, u)' => IsLatest(k, u) /\ jobs'[k] = jobs[k]
          BY <1>2, <1>5, <3>1, <3>3
        <4>3. QED
          BY <2>1, <3>1, <4>1, <4>2 DEF SeenAsStored
      <3>4. QED
        BY <3>2, <3>3
    <2>2. QED
      BY <1>1, <1>2, <2>1, BatchGoesOn
  <1>8. TenantFollowsJob'
    <2> SUFFICES ASSUME NEW i \in JobId, jobs'[i].type = "create"
                 PROVE  tenants'[jobs'[i].tenant].status
                          \in AdminStatus \cup {Followed(jobs'[i].status, jobs'[i].attempts)}
      BY DEF TenantFollowsJob, Followed
    <2>1. jobs'[i] = jobs[i] /\ jobs[i].tenant \in Tenant
      BY <1>2 DEF SerialInv, QueueInv, JobsInv, Exists
    <2>2. tenants[jobs[i].tenant].status \in AdminStatus \cup {Followed(jobs[i].status, jobs[i].attempts)}
      BY <2>1 DEF SerialInv, TenantFollowsJob, Followed
    <2>3. QED
      BY <1>3, <2>1, <2>2
  <1>9. RuntimeIsConsistent'
    BY <1>1, <1>2 DEF SerialInv, RuntimeIsConsistent
  <1>10. SettingsReach'
    <2> SUFFICES ASSUME NEW u \in Tenant, NEW i \in JobId, IsLatest(i, u)', jobs'[i].status = "succeeded"
                 PROVE  /\ host[u].env.settings = tenants'[u].settings
                        /\ host[u].service = Down \/ host[u].service.settings = tenants'[u].settings
      BY <1>1 DEF SettingsReach
    <2>1. u # t
      BY <1>2, <1>4
    <2>2. IsLatest(i, u) /\ jobs'[i] = jobs[i] /\ tenants'[u] = tenants[u]
      BY <1>2, <1>3, <1>5, <2>1
    <2>3. QED
      BY <2>2 DEF SerialInv, SettingsReach
  <1>11. QED
    BY <1>7, <1>8, <1>9, <1>10 DEF SerialInv

-----------------------------------------------------------------------------
(* The results for one worker.                                             *)

LEMMA SerialInit == Init => SerialInv
  <1> SUFFICES ASSUME Init PROVE SerialInv
    OBVIOUS
  <1>1. \A j \in JobId : jobs[j].type = "none"
    BY EmptyRows DEF Init
  <1>2. BatchInv
    BY EmptyRows DEF Init, BatchInv, Batch, Busy, Steps
  <1>3. TenantFollowsJob /\ RuntimeIsConsistent /\ SettingsReach
    BY <1>1 DEF TenantFollowsJob, RuntimeIsConsistent, SettingsReach, IsLatest
  <1>4. QED
    BY <1>2, <1>3, QueueInit DEF SerialInv

LEMMA SerialNext ==
  ASSUME OneWorker, SerialInv, [Next]_vars
  PROVE  SerialInv'
  <1>1. QueueInv'
    BY QueueNext DEF SerialInv
  <1>2. CASE UNCHANGED vars
    <2>1. UNCHANGED <<tenants, jobs, host, worker>>
      BY <1>2 DEF vars
    <2>2. QED
      BY <1>1, <2>1, RowsSerial
  <1>3. ASSUME NEW t \in Tenant, NEW j \in JobId, CreateTenant(t, j) \/ UpdateRegionalSettings(t, j)
        PROVE  SerialInv'
    BY <1>1, <1>3, CreateSerial, SettingsSerial
  <1>4. ASSUME NEW t \in Tenant, NEW s \in AdminStatus, UpdateStatus(t, s) PROVE SerialInv'
    BY <1>1, <1>4, StatusSerial
  <1>5. ASSUME NEW w \in Worker, Work(w) \/ HostFault(w) \/ WorkerStops(w) PROVE SerialInv'
    BY <1>1, <1>5, ClaimSerial, LoadSerial, TakeSerial, AllocateSerial, RuntimeSerial, OutcomeSerial, StopSerial
       DEF Work
  <1>6. ASSUME NEW t \in Tenant, ServiceStarts(t) \/ ServiceStops(t) PROVE SerialInv'
    BY <1>1, <1>6, ServiceSerial
  <1>7. ASSUME NEW j \in JobId, LeaseRunsOut(j) \/ BackoffPasses(j) PROVE SerialInv'
    BY <1>1, <1>7, ClockSerial
  <1>8. QED
    BY <1>2, <1>3, <1>4, <1>5, <1>6, <1>7 DEF Next

\* The latest settings job is the one with the highest number.
LEMMA LatestIs ==
  ASSUME NEW t \in Tenant, LatestSettingsJob(t) # 0
  PROVE  LatestSettingsJob(t) \in JobId /\ IsLatest(LatestSettingsJob(t), t)
  <1> DEFINE S == {j \in JobId : jobs[j].type = "settings" /\ jobs[j].tenant = t}
  <1>1. S # {} /\ LatestSettingsJob(t) = Max(S)
    BY DEF LatestSettingsJob
  <1>2. S \in SUBSET (1..MaxJobs) /\ MaxJobs \in Nat
    BY BoundsAssumption DEF JobId
  <1>3. Max(S) \in S /\ \A i \in S : Max(S) >= i
    BY <1>1, <1>2, HighestIsOne
  <1>4. \A i \in S : i <= Max(S)
    BY <1>2, <1>3
  <1>5. QED
    BY <1>1, <1>3, <1>4 DEF IsLatest

THEOREM ProvisioningInvariance ==
  ASSUME OneWorker
  PROVE  Spec => []SerialInv
  <1>1. SerialInv /\ [Next]_vars => SerialInv'
    BY SerialNext
  <1>2. QED
    BY <1>1, SerialInit, PTL DEF Spec

\* The status of a tenant and the outcome of the job that creates it are saved
\* together (ProcessTenantCreateJobAsync): attempts, restarts, settings jobs and
\* operators never part them.
THEOREM TenantsFollowTheirJob ==
  ASSUME OneWorker
  PROVE  Spec => []TenantFollowsJob
  <1>1. SerialInv => TenantFollowsJob
    BY DEF SerialInv
  <1>2. QED
    BY <1>1, ProvisioningInvariance, PTL

\* The configuration, the environment and the site of a tenant whose job has
\* succeeded are for the port in the job's result, although each attempt chooses
\* one again and settings jobs write the environment in between.
THEOREM RuntimesAreConsistent ==
  ASSUME OneWorker
  PROVE  Spec => []RuntimeIsConsistent
  <1>1. SerialInv => RuntimeIsConsistent
    BY DEF SerialInv
  <1>2. QED
    BY <1>1, ProvisioningInvariance, PTL

\* A settings job that has succeeded has brought the settings of its tenant to the
\* environment and the service, if no later one was queued: a job queued after
\* the worker loaded the tenant is still pending and brings its own.
THEOREM SettingsAreReached ==
  ASSUME OneWorker
  PROVE  Spec => []SettingsReachRuntime
  <1>1. SerialInv => SettingsReachRuntime
    BY LatestIs DEF SerialInv, SettingsReach, SettingsReachRuntime
  <1>2. QED
    BY <1>1, ProvisioningInvariance, PTL
=============================================================================
