---------------------------- MODULE Provisioning ----------------------------
(***************************************************************************)
(* The control plane: tenants and provisioning jobs in the platform        *)
(* database (TenantEndpoints.cs of the platform API), the workers that     *)
(* claim the jobs and prepare a runtime for each tenant on the host        *)
(* (ProvisioningService.cs, ProvisioningWorker.cs), and the services the   *)
(* host runs.                                                              *)
(*                                                                         *)
(* The database steps of a worker and its steps on the host are separate   *)
(* actions: nothing makes them atomic.  A worker loads the rows of its     *)
(* batch once and keeps them tracked (worker.jobs, worker.tenants); a save *)
(* writes the columns that differ from the tracked ones.  One port stands  *)
(* for the two a runtime has (API and web), which are chosen the same way. *)
(* Clocks are left out: a lease runs out, or a backoff passes, at any time.*)
(***************************************************************************)
EXTENDS Naturals, FiniteSets, FiniteSetsExt

CONSTANTS
    Tenant,
    Worker,
    MaxAttempts,      \* Provisioning:MaxAttempts
    BatchSize,        \* jobs claimed at once
    AdminStatus,      \* what an operator sets a tenant to
    MaxJobs, MaxPort, MaxSettings, MaxFaults,   \* bounds
    None

ASSUME AttemptsAssumption == MaxAttempts \in Nat \ {0}
ASSUME BatchAssumption    == BatchSize \in Nat \ {0}
ASSUME BoundsAssumption   ==
    MaxJobs \in Nat /\ MaxPort \in Nat /\ MaxSettings \in Nat \ {0} /\ MaxFaults \in Nat
ASSUME StatusAssumption   == AdminStatus \subseteq {"provisioning", "active", "suspended", "archived"}
ASSUME NoTenantAssumption == None \notin Tenant

VARIABLES
    tenants,    \* platform_tenants: status and regional settings (a version number)
    jobs,       \* platform_provision_jobs, numbered in the order of created_at
    host,       \* what each tenant has on the host
    worker,     \* batch, tracked rows and next step of each worker
    faults      \* host commands that failed and workers and services that stopped

vars == <<tenants, jobs, host, worker, faults>>

JobId   == 1..MaxJobs
OptJob  == 0..MaxJobs
Port    == 1..MaxPort
OptPort == 0..MaxPort

TenantRow == [status : {"none", "provisioning", "active", "suspended", "archived"},
              settings : 0..MaxSettings]
JobRow == [type : {"none", "create", "settings"}, tenant : Tenant \cup {None},
           status : {"pending", "running", "succeeded", "failed"}, attempts : 0..MaxAttempts,
           lease : {"none", "running", "over"},   \* lease_until: NULL, ahead, passed
           backoff : BOOLEAN,                     \* next_attempt_at is ahead
           port : OptPort]                        \* port in result_json

Host == [config : OptPort,                               \* runtime-config.json
         database : BOOLEAN,
         env : [port : OptPort, settings : 0..MaxSettings],   \* environment files
         site : OptPort,                                 \* nginx forwards to this port
         certificate : BOOLEAN,
         started : BOOLEAN,                              \* the service manager keeps it up
         service : [port : OptPort, settings : 0..MaxSettings]]   \* what it came up with

NoTenant  == [status |-> "none", settings |-> 0]
NoJob     == [type |-> "none", tenant |-> None, status |-> "pending", attempts |-> 0,
              lease |-> "none", backoff |-> FALSE, port |-> 0]
Down      == [port |-> 0, settings |-> 0]
EmptyHost == [config |-> 0, database |-> FALSE, env |-> Down, site |-> 0,
              certificate |-> FALSE, started |-> FALSE, service |-> Down]

Labels == {"idle", "load", "next", "allocate", "artifacts", "environment", "site", "start",
           "certificate", "readConfig", "restart", "health", "succeed", "fail"}
WorkerState == [pc : Labels, todo : SUBSET JobId, job : OptJob, port : OptPort,
                tenants : [Tenant -> TenantRow], jobs : [JobId -> JobRow]]
Idle == [pc |-> "idle", todo |-> {}, job |-> 0, port |-> 0,
         tenants |-> [t \in Tenant |-> NoTenant], jobs |-> [j \in JobId |-> NoJob]]

TypeOK ==
    /\ tenants \in [Tenant -> TenantRow]
    /\ jobs \in [JobId -> JobRow]
    /\ host \in [Tenant -> Host]
    /\ worker \in [Worker -> WorkerState]
    /\ faults \in 0..MaxFaults

Init ==
    /\ tenants = [t \in Tenant |-> NoTenant]
    /\ jobs = [j \in JobId |-> NoJob]
    /\ host = [t \in Tenant |-> EmptyHost]
    /\ worker = [w \in Worker |-> Idle]
    /\ faults = 0

-----------------------------------------------------------------------------
(* The platform API. *)

Exists(j) == jobs[j].type # "none"

Enqueue(j, type, t) ==
    /\ j \in JobId /\ ~Exists(j) /\ \A i \in JobId : i < j => Exists(i)   \* bound: MaxJobs
    /\ jobs' = [jobs EXCEPT ![j] = [NoJob EXCEPT !.type = type, !.tenant = t]]

CreateTenant(t, j) ==
    /\ tenants[t].status = "none"
    /\ tenants' = [tenants EXCEPT ![t] = [status |-> "provisioning", settings |-> 1]]
    /\ Enqueue(j, "create", t)
    /\ UNCHANGED <<host, worker, faults>>

UpdateRegionalSettings(t, j) ==
    /\ tenants[t].status # "none" /\ tenants[t].settings < MaxSettings   \* bound: MaxSettings
    /\ tenants' = [tenants EXCEPT ![t].settings = @ + 1]
    /\ Enqueue(j, "settings", t)
    /\ UNCHANGED <<host, worker, faults>>

UpdateStatus(t, status) ==
    /\ tenants[t].status \notin {"none", status}
    /\ tenants' = [tenants EXCEPT ![t].status = status]
    /\ UNCHANGED <<jobs, host, worker, faults>>

-----------------------------------------------------------------------------
(* Claiming a batch and loading it. *)

\* Mutant: the bound on the attempts is off by one.
ClaimableOnceMore(j) ==
    /\ Exists(j)
    /\ jobs[j].type = "create" => tenants[jobs[j].tenant].status # "active"
    /\ jobs[j].attempts <= MaxAttempts
    /\ \/ jobs[j].status = "pending"
       \/ jobs[j].status = "failed" /\ ~jobs[j].backoff

\* Mutant: a job whose worker stopped is not looked for.
ClaimableUnlessRunning(j) ==
    /\ Exists(j)
    /\ jobs[j].type = "create" => tenants[jobs[j].tenant].status # "active"
    /\ jobs[j].attempts < MaxAttempts
    /\ \/ jobs[j].status = "pending"
       \/ jobs[j].status = "failed" /\ ~jobs[j].backoff

Claimable(j) ==
    /\ Exists(j)
    /\ jobs[j].type = "create" => tenants[jobs[j].tenant].status # "active"
    /\ jobs[j].attempts < MaxAttempts
    /\ \/ jobs[j].status = "pending"
       \/ jobs[j].status = "failed" /\ ~jobs[j].backoff
       \/ jobs[j].status = "running" /\ jobs[j].lease = "over"

Oldest(S) == {j \in S : Cardinality({i \in S : i < j}) < BatchSize}

At(w, label) == worker[w].pc = label
Goto(w, label) == worker' = [worker EXCEPT ![w].pc = label]

\* One statement: two workers never claim a job at the same time.
ClaimJobs(w) ==
    LET claimed == Oldest({j \in JobId : Claimable(j)})
    IN  /\ At(w, "idle") /\ claimed # {}
        /\ jobs' = [j \in JobId |->
                      IF j \in claimed THEN [jobs[j] EXCEPT !.status = "running", !.attempts = @ + 1,
                                                            !.lease = "running", !.backoff = FALSE]
                      ELSE jobs[j]]
        /\ worker' = [worker EXCEPT ![w].pc = "load", ![w].todo = claimed]
        /\ UNCHANGED <<tenants, host, faults>>

LoadJobs(w) ==
    LET todo == worker[w].todo
    IN  /\ At(w, "load")
        /\ worker' = [worker EXCEPT
              ![w].pc = "next",
              ![w].jobs = [j \in JobId |-> IF j \in todo THEN jobs[j] ELSE NoJob],
              ![w].tenants = [t \in Tenant |-> IF \E j \in todo : jobs[j].tenant = t
                                               THEN tenants[t] ELSE NoTenant]]
        /\ UNCHANGED <<tenants, jobs, host, faults>>

\* The next job of the batch, or the end of it.
TakeJob(w) ==
    LET todo == worker[w].todo
        j    == Min(todo)
    IN  /\ At(w, "next")
        /\ worker' = IF todo = {} THEN [worker EXCEPT ![w] = Idle]
                     ELSE [worker EXCEPT ![w].pc = IF jobs[j].type = "create" THEN "allocate"
                                                   ELSE "readConfig",
                                         ![w].todo = @ \ {j}, ![w].job = j]
        /\ UNCHANGED <<tenants, jobs, host, faults>>

-----------------------------------------------------------------------------
(* The steps of a job. *)

Target(w)  == jobs[worker[w].job].tenant
Creates(w) == jobs[worker[w].job].type = "create"

Listening(p) == p # 0 /\ \E t \in Tenant : host[t].service.port = p

\* Ports in the results of create jobs, and ports something listens on.
UsedPorts == {jobs[j].port : j \in {i \in JobId : jobs[i].type = "create"}} \ {0}
FreePorts == {p \in Port : p \notin UsedPorts /\ ~Listening(p)}

AllocateRuntime(w) ==
    /\ At(w, "allocate")
    /\ FreePorts # {}   \* bound: MaxPort
    /\ worker' = [worker EXCEPT ![w].pc = "artifacts", ![w].port = Min(FreePorts)]
    /\ UNCHANGED <<tenants, jobs, host, faults>>

\* Mutant: a retry keeps the configuration an earlier attempt has written.
WriteArtifactsOnce(w) ==
    /\ At(w, "artifacts")
    /\ host' = [host EXCEPT ![Target(w)].config = IF @ = 0 THEN worker[w].port ELSE @]
    /\ Goto(w, "environment")
    /\ UNCHANGED <<tenants, jobs, faults>>

WriteArtifacts(w) ==
    /\ At(w, "artifacts")
    /\ host' = [host EXCEPT ![Target(w)].config = worker[w].port]
    /\ Goto(w, "environment")
    /\ UNCHANGED <<tenants, jobs, faults>>

ReadExistingRuntime(w) ==
    LET p == host[Target(w)].config
    IN  /\ At(w, "readConfig")
        /\ worker' = [worker EXCEPT ![w].pc = IF p = 0 THEN "fail" ELSE "environment", ![w].port = p]
        /\ UNCHANGED <<tenants, jobs, host, faults>>

\* The settings are those of the tenant row the worker loaded.
WriteEnvironment(w) ==
    LET t == Target(w)
    IN  /\ At(w, "environment")
        /\ host' = [host EXCEPT ![t].database = @ \/ Creates(w),
                                ![t].env = [port |-> worker[w].port,
                                            settings |-> worker[w].tenants[t].settings]]
        /\ Goto(w, IF Creates(w) THEN "site" ELSE "restart")
        /\ UNCHANGED <<tenants, jobs, faults>>

EnsureNginxSite(w) ==
    /\ At(w, "site")
    /\ host' = [host EXCEPT ![Target(w)].site = worker[w].port]
    /\ Goto(w, "start")
    /\ UNCHANGED <<tenants, jobs, faults>>

\* "enable --now": a service that runs already is left alone.
EnableServices(w) ==
    /\ At(w, "start")
    /\ host' = [host EXCEPT ![Target(w)].started = TRUE]
    /\ Goto(w, "certificate")
    /\ UNCHANGED <<tenants, jobs, faults>>

EnsureCertificate(w) ==
    /\ At(w, "certificate")
    /\ host' = [host EXCEPT ![Target(w)].certificate = TRUE]
    /\ Goto(w, "health")
    /\ UNCHANGED <<tenants, jobs, faults>>

\* Mutant: the services are enabled, not restarted.
EnableInsteadOfRestart(w) ==
    /\ At(w, "restart")
    /\ host' = [host EXCEPT ![Target(w)].started = TRUE]
    /\ Goto(w, "health")
    /\ UNCHANGED <<tenants, jobs, faults>>

RestartServices(w) ==
    /\ At(w, "restart")
    /\ host' = [host EXCEPT ![Target(w)].started = TRUE, ![Target(w)].service = Down]
    /\ Goto(w, "health")
    /\ UNCHANGED <<tenants, jobs, faults>>

\* The probes reach whatever listens on the port, and the site over HTTPS.
VerifyRuntimeHealth(w) ==
    LET h == host[Target(w)]
    IN  /\ At(w, "health")
        /\ Goto(w, IF Listening(worker[w].port) /\ Listening(h.site) /\ h.certificate
                   THEN "succeed" ELSE "fail")
        /\ UNCHANGED <<tenants, jobs, host, faults>>

\* A column is written only if it differs from the tracked value.
Written(loaded, new, stored) == IF new = loaded THEN stored ELSE new

\* The outcome of a job, as its row and the row of its tenant are saved.
SaveOutcome(w, status, backoff, port, tenantStatus) ==
    LET j == worker[w].job
        t == Target(w)
        loaded == worker[w].jobs[j]
    IN  /\ jobs' = [jobs EXCEPT ![j].status  = Written(loaded.status, status, @),
                                ![j].lease   = Written(loaded.lease, "none", @),
                                ![j].backoff = Written(loaded.backoff, backoff, @),
                                ![j].port    = Written(loaded.port, port, @)]
        /\ tenants' = [tenants EXCEPT ![t].status =
                          Written(worker[w].tenants[t].status, tenantStatus, @)]
        /\ worker' = [worker EXCEPT ![w].pc = "next", ![w].job = 0, ![w].port = 0,
                                    ![w].jobs[j] = NoJob, ![w].tenants[t].status = tenantStatus]
        /\ UNCHANGED <<host, faults>>

TrackedStatus(w) == worker[w].tenants[Target(w)].status

Succeed(w) ==
    /\ At(w, "succeed")
    /\ SaveOutcome(w, "succeeded", FALSE, IF Creates(w) THEN worker[w].port ELSE 0,
                   IF Creates(w) THEN "active" ELSE TrackedStatus(w))

Tracked(w)     == worker[w].jobs[worker[w].job]
LastAttempt(w) == Tracked(w).attempts >= MaxAttempts

\* Mutant: the tenant of a create job that has failed for good is not suspended.
FailWithoutSuspending(w) ==
    /\ At(w, "fail")
    /\ SaveOutcome(w, "failed", ~LastAttempt(w), Tracked(w).port,
                   IF Creates(w) THEN "provisioning" ELSE TrackedStatus(w))

Fail(w) ==
    /\ At(w, "fail")
    /\ SaveOutcome(w, "failed", ~LastAttempt(w), Tracked(w).port,
                   IF ~Creates(w) THEN TrackedStatus(w)
                   ELSE IF LastAttempt(w) THEN "suspended" ELSE "provisioning")

-----------------------------------------------------------------------------
(* The host and the clock. *)

Fault == faults < MaxFaults /\ faults' = faults + 1   \* bound: MaxFaults

\* A command fails, a file cannot be written, a probe times out.
HostFault(w) ==
    /\ worker[w].pc \in {"allocate", "artifacts", "environment", "site", "start", "certificate",
                         "readConfig", "restart", "health"}
    /\ Fault /\ Goto(w, "fail")
    /\ UNCHANGED <<tenants, jobs, host>>

\* The process stops, or a save fails and ends the tick: the batch is dropped.
WorkerStops(w) ==
    /\ ~At(w, "idle")
    /\ Fault /\ worker' = [worker EXCEPT ![w] = Idle]
    /\ UNCHANGED <<tenants, jobs, host>>

\* The service manager starts a service until it has its port, and again when it stops.
ServiceStarts(t) ==
    /\ host[t].started /\ host[t].database
    /\ host[t].service = Down /\ ~Listening(host[t].env.port)
    /\ host' = [host EXCEPT ![t].service = host[t].env]
    /\ UNCHANGED <<tenants, jobs, worker, faults>>

ServiceStops(t) ==
    /\ host[t].service # Down
    /\ Fault /\ host' = [host EXCEPT ![t].service = Down]
    /\ UNCHANGED <<tenants, jobs, worker>>

LeaseRunsOut(j) ==
    /\ jobs[j].lease = "running"
    /\ jobs' = [jobs EXCEPT ![j].lease = "over"]
    /\ UNCHANGED <<tenants, host, worker, faults>>

BackoffPasses(j) ==
    /\ jobs[j].backoff
    /\ jobs' = [jobs EXCEPT ![j].backoff = FALSE]
    /\ UNCHANGED <<tenants, host, worker, faults>>

-----------------------------------------------------------------------------
Work(w) ==
    \/ ClaimJobs(w) \/ LoadJobs(w) \/ TakeJob(w)
    \/ AllocateRuntime(w) \/ WriteArtifacts(w) \/ ReadExistingRuntime(w) \/ WriteEnvironment(w)
    \/ EnsureNginxSite(w) \/ EnableServices(w) \/ EnsureCertificate(w) \/ RestartServices(w)
    \/ VerifyRuntimeHealth(w) \/ Succeed(w) \/ Fail(w)

Next ==
    \/ \E t \in Tenant, j \in JobId : CreateTenant(t, j) \/ UpdateRegionalSettings(t, j)
    \/ \E t \in Tenant, s \in AdminStatus : UpdateStatus(t, s)
    \/ \E w \in Worker : Work(w) \/ HostFault(w) \/ WorkerStops(w)
    \/ \E t \in Tenant : ServiceStarts(t) \/ ServiceStops(t)
    \/ \E j \in JobId : LeaseRunsOut(j) \/ BackoffPasses(j)

Spec == Init /\ [][Next]_vars

\* Workers poll, clocks advance, and the service manager restarts what stopped.
FairSpec ==
    /\ Spec
    /\ \A w \in Worker : WF_vars(Work(w))
    /\ \A t \in Tenant : WF_vars(ServiceStarts(t))
    /\ \A j \in JobId : WF_vars(LeaseRunsOut(j)) /\ WF_vars(BackoffPasses(j))

-----------------------------------------------------------------------------
(* Properties. *)

\* The tenant's status is the one the outcome of its create job asks for, or what
\* the operator set: the two rows are saved together (ProcessTenantCreateJobAsync), and
\* no retry, restart or settings job parts them.
TenantFollowsJob ==
    \A j \in JobId : jobs[j].type = "create" =>
        tenants[jobs[j].tenant].status \in AdminStatus \cup
            {CASE jobs[j].status = "succeeded" -> "active"
               [] jobs[j].status = "failed" /\ jobs[j].attempts = MaxAttempts -> "suspended"
               [] OTHER -> "provisioning"}

\* When a create job has succeeded, everything it left on the host is for the port
\* in its result, although every attempt chooses a port again and settings jobs
\* rewrite the environment in between.
RuntimeIsConsistent ==
    \A j \in JobId : jobs[j].type = "create" /\ jobs[j].status = "succeeded" =>
        LET h == host[jobs[j].tenant]
        IN  h.config = jobs[j].port /\ h.env.port = jobs[j].port /\ h.site = jobs[j].port

LatestSettingsJob(t) ==
    LET S == {j \in JobId : jobs[j].type = "settings" /\ jobs[j].tenant = t}
    IN  IF S = {} THEN 0 ELSE Max(S)

\* Once the latest settings job of a tenant has succeeded its service runs with
\* the settings the tenant has now, whatever was retried in between.
SettingsReachRuntime ==
    \A t \in Tenant : LatestSettingsJob(t) # 0 /\ jobs[LatestSettingsJob(t)].status = "succeeded"
        => /\ host[t].env.settings = tenants[t].settings
           /\ host[t].service = Down \/ host[t].service.settings = tenants[t].settings

\* When a job verifies the health of a runtime, the service that runs is the
\* one the job has configured: an earlier attempt has left none behind.
RetryReachesService ==
    \A w \in Worker : At(w, "health") => host[Target(w)].service.port \in {0, worker[w].port}

Settled(j) ==
    \/ jobs[j].status = "succeeded"
    \/ jobs[j].status = "failed" /\ jobs[j].attempts = MaxAttempts

\* The worker stopped during the last attempt: the job stays as it is.
Stranded(j) ==
    jobs[j].status = "running" /\ jobs[j].lease = "over" /\ jobs[j].attempts = MaxAttempts

\* Every job comes to an end, if its worker does not stop in the last attempt.
JobsSettle == \A j \in JobId : Exists(j) ~> Settled(j) \/ Stranded(j)
=============================================================================
