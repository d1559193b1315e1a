# PVE Master: TLA+ verification

TLA+ specifications of PVE Master (`src/`), the service that manages Proxmox VE
(PVE) clusters for administrators and customers: a FastAPI backend over
PostgreSQL, Celery workers fed through Redis, and a Next.js frontend. The
specifications are checked by TLC on small instances and, for the results listed
below, proved by TLAPS for all instances. Paths are relative to
`src/backend/app/` unless they start with `docs/` or `frontend/`.

## 1. Inventory

| Component | State | Operations | Talks to |
|---|---|---|---|
| Operation requests (`services/operations.py`, `customer_portal.py`, `backups.py`) | `operations`, `backup_runs`, `restore_runs` | power actions by staff and customers, specification change, delete, backup, restore; each with an `Idempotency-Key` | inserts a row, then publishes a Celery message |
| Operation workers (`services/power_runner.py`, `backup_runner.py`, `restore_runner.py`) | the same rows, `pve_tasks`, `heartbeat_at` as a lease | claim, observe, submit with retries, store the UPID, poll, finish | PVE; the database; three task modules |
| Delivery and recovery (`worker.py`, `tasks/*.py`) | the broker's queue | `acks_late` delivery, redelivery, republication at `worker_ready` | both kinds of runner |
| Workload assignment (`services/workloads.py`) | `workloads.organization_id`, `is_present` | assign, unassign | read by operations, provisioning, console |
| Provisioning (`services/provisioning.py`, `provisioning_runner.py`) | `provisioning_requests` with 15 steps, node capacity, encrypted passwords | create request, claim, one commit per step, failure path with separate commits | IPAM, PVE, workloads |
| IPAM (`services/ipam.py`) | pools, address rows, allocations, exclusions | pools: create, update, delete; addresses: exclude, allocate, reserve, confirm, quarantine, release, approve | provisioning |
| Accounts and sessions (`services/auth.py`, `accounts.py`, `dependencies.py`) | users with `session_epoch`, refresh token families, organizations, memberships, login throttle | login, refresh, logout, password changes, user and organization administration | every request is authenticated against it |
| Console (`services/console.py`, `api/console.py`) | one-time grants, slots and rate counters in Redis | create, consume, relay, release | accounts, workloads, PVE |
| Clusters (`services/clusters.py`) | clusters, credentials, the workload inventory | create, update, delete, test, import | everything that opens a PVE client |
| Observability (`services/observability.py`) | none of its own | counts, alerts | reads all tables |
| Browser session (`frontend/app/api/auth/session/route.ts`, `frontend/lib/browser-session.ts`) | the refresh token in a cookie that all tabs share | persist after login, restore (rotate), end | a proxy in front of accounts and sessions |
| Audit, HTTP routers, schemas, migrations, other views of the frontend | audit rows; none; none; DDL; none | | |

What is hard in this system:

- **No lock is held across a PVE call.** A worker reads a row, calls PVE, and
  writes the row; another worker, an administrator or a recovery may have acted
  in between. `_finish` does not compare what it overwrites.
- **The broker delivers at least once**, and a worker start publishes every
  unfinished row again, so several messages of one operation coexist.
- **Every submission to PVE may be lost or accepted with its answer lost**, and
  a worker may die between acceptance and the commit of the UPID.
- **One request is many commits** (provisioning steps, `_fail_request`), with a
  crash possible after each.
- **Rules over several rows** (one active operation per workload, disjoint
  pools, one super administrator at least) rest on partial unique indexes, an
  advisory lock, or on nothing but a count.
- **Sessions are state in three places**: refresh tokens in the database,
  access tokens that only `session_epoch` can invalidate, and a cookie that every
  answer overwrites in the order of arrival.
- **Read, ask PVE, write later**: cluster updates, imports, connection tests and
  backup targets check a cluster, wait for PVE and write without another check.
- **Lifetimes that do not start together**: the slot of a console is counted from
  its acquisition, the relay it protects from its own start.

What makes each component correct: an operation acts on PVE no more often than
its action tolerates, ends, and reports success only if it happened; a
provisioning request neither leaks nor doubles what it reserves and hands over
only its own guest; an address has one holder and rests between two holders; a
stolen or revoked token stays useless and a deleted account stays deleted; a
console belongs to one authorised user; a cluster has one credential, which is
sent only to the endpoint it was entered for, and a removed cluster stays
removed; a browser neither presents a token that was rotated away nor leaves a
session behind unnoticed; the hazards in `PROJECT.json` say where
each of these could fail, at the line where it would.

## 2. Modules

| Module | Models | Kind |
|---|---|---|
| `Operations` | requests, queue, workers, PVE tasks, ownership | specification |
| `OperationContract` | what callers of the operation API are promised | abstract specification |
| `OperationsInvariant` | the inductive invariant `IInv` of `Operations` | invariant |
| `OperationsProofs` | 12 theorems about `Operations` | proofs |
| `Ipam` | pools, addresses, allocations | specification |
| `IpamProofs` | 6 theorems about `Ipam` | proofs |
| `Provisioning` | requests, steps, capacity, VMIDs, clones; extends `Ipam` | specification (composition) |
| `ProvisioningProofs` | 11 theorems about `Provisioning` | proofs |
| `FirstFree` | search for a free address and count of free addresses, loop by loop | specification (algorithm) |
| `FirstFreeProofs` | 5 theorems about `FirstFree` | proofs |
| `Accounts` | users, token families, access tokens | specification |
| `AccountsProofs` | 6 theorems about `Accounts` | proofs |
| `BrowserSession` | the cookie and the requests that rotate it; extends `Accounts` | specification (composition) |
| `BrowserProofs` | 5 theorems: the cookie, and that `BrowserSession` implements `Accounts` | proofs |
| `Organizations` | organizations, members, owners of workloads; extends `Accounts` | specification |
| `Console` | grants, slots, relays; extends `Organizations` | specification (composition) |
| `ConsoleProofs` | 5 theorems about `Console` and `Organizations` | proofs |
| `Clusters` | clusters, credentials, inventory and what refers to a cluster; extends `Ipam` | specification (composition) |
| `ClustersProofs` | 7 theorems about `Clusters` | proofs |
| `MCOperations`, `MCProvisioning`, `MCConsole`, `MCClusters`, `MCBrowser` | constants, symmetry and constraints for TLC | instances |

Each specification is a set of rows (variables) and one action per transaction
or per PVE call; the comment at the top of a module names its source files, and
the `map` of `PROJECT.json` gives the lines behind every definition.

**Operations.** An element of `Ops` is one API request with its parameters.
`Validate` is the read-only part of a service method, `Insert` and `Reject` its
commit under the unique indexes (`KeyFree`, `WorkloadFree`, `VmidFree`); a
publication may fail (`Lossy`). A worker takes a message (`Claim*`), goes through
`observe`, `submit`, `record` and `poll`, and releases the message on return.
The three runners share these actions and differ in `StillAllowed`,
`FirstStage`, `Unknown` and `FinishRun`. The lease is one of none, fresh or
expired; a worker's own progress renews it, time expires it. `Crash` loses the
worker's memory and returns its message, `Restart` is `worker_ready` with both
recovery queries, `Redeliver` the visibility timeout of the Redis broker. A
PVE call is accepted or not independently of whether the caller learns it. Requesters keep
their role: of a customer who became staff after the request, `power_runner.py:138` no longer compares the
owner of the workload, and the model does.

**Ipam and Provisioning.** An address row is a pair of pool and address. All
operations that take an address hold the pool row, those that change pools hold
an advisory lock, so each is one step. `Provisioning` adds requests whose steps
each commit on their own; consecutive steps that have the same outcomes are one
(`Steps` says which). `_reserve_vmid` and `_reserve_ip` are two steps each, because
they commit twice; so is the failure path, whose three commits `FailQuarantines`,
`FailReleases` and `FailEnds` may be cut by a crash. Outsiders create guests in
PVE at any time. A lease may run out while its worker lives, since the wait for an advisory lock and
some PVE calls do not renew it; the histories `overrun` and `doubled` record for which requests that
happened, and which of them a second worker then claimed. What two workers of one request write
over each other, each from its own session's copy of the row, is not followed: the model lets the
second claim, and all properties but `SoleRunner` are stated until then (`Undoubled`).

**FirstFree** has one step for each turn of the loops of `_first_free_offset` (sort, clip, merge,
two passes) and of `_available_address_count` (merge, sum); what they find is compared with a
search of every offset. The two queries of `_automatic_candidate`, for an AVAILABLE row and
for all rows, are two steps. The first skips rows that another request has locked (`skip_locked`), so it may
find none though there are some (`skipped` is the history of those). Whoever takes an address holds the pool row, so one search is under way
at a time; `approve_release` does not, and `GiveBack` may come between any two steps (`since` is the
history of what came back). The count works on what it has read, so that steps of takers during it
would change nothing it computes; they are left out while it runs. Local variables are reset on
return (`Return`).

**Accounts.** `refresh`, password changes and user administration lock the user
row and are one step; `login` and `logout` read without a lock and are two, and the
removal of an administrator counts before it writes. A refresh token is
live, expired or revoked and belongs to the family of the login it descends from.
Passwords and e-mail addresses are left out; OPERATOR and CUSTOMER are one role.
A request of an administrator may take effect after the administrator lost the
role, since rights are checked when the request is authenticated.

**BrowserSession** is the client of `Accounts`: one cookie and a set of requests
(`Trips`) that tabs and console windows make at any time. A request is `sent` to the
proxy, `late` when the proxy has given up on it, `handed` to a logout, or `back` on its
way to the browser; every answer that arrives sets or clears the cookie, whatever it has
become meanwhile. A login's tokens are in the memory of the tab until `Persist`. The
variable `stray` is a history: the tokens that the browser lost sight of, because an answer did
not arrive or an overlapping request overwrote the cookie.

**Organizations.** `add_member` and `assign` read the organization without a lock and
insert later, so they are two steps; deleting an organization or a user locks its
row first and an insert that refers to it waits, so it is one. `Unlocked` and `RowUnlocked`
say what a lock keeps out. `lateJoins` and `lateAssigns` are histories: the calls that were under way when what
they refer to was deleted. That an organization is not deleted while it has provisioning requests is left out: it
may be deleted more often than in the code.

**Console.** A session goes from `asked` (the rate counter passed, PVE is asked for a
ticket) over `granted`, `consumed`, `held` (it has the slot) and `loaded` (rights and guest
checked again) to `relay`. Every call to Redis or PVE and every read of the rights is a
step. Time is a `Tick`: the slot lives `Lifetime` ticks, the relay as many from its own
start, and the time limits of the set-up bound the rest by `Setup`. `Close` releases the
slot or, when Redis or the process fails, does not; `AskDies` leaves the rate counter
without a lifetime. Accounts, members, owners and guests change under the sessions
(`Administration`), and users log out (`SessionEnds`).

**Clusters.** A caller (an element of `Callers`) reads a cluster, asks PVE where the code does,
and writes later: update, removal, connection test, import, backup target, node and
template. `update` reads twice, and its record keeps both; with a token identifier alone it encrypts again the
secret of its first read (`Renewals`, `Insert`). `assign`
locks workload and cluster and is one step. A cluster has one guest; an endpoint stands for
URL, CA and token identifier, which the code changes under one rule. Three variables are histories: `home`, the
endpoint a secret was entered for, `entry`, the credential it was entered with, and `overtaken`, the updates under
way while another changed the cluster. That no operation or provisioning request
is active is left open in `Blocked`: removal may happen more often than in the code.
Pools and addresses are those of `Ipam`, taken with the guards a cluster adds.

## 3. Runs

| Run | Instance | Shows |
|---|---|---|
| `careful` | a customer's reboot on its own, or two backups with one key and a restore; 2 workers, 2 attempts, 3 tasks, 2 crashes, 2 organizations | at most `pve_action_max_attempts` reboots; one vzdump or restore per key; one submitter; none after a stored UPID; run rows agree; the workload stays the customer's while the operation runs; nothing ended is reopened; refinement of `OperationContract` |
| `live` | a delete, a specification change and a backup, 1 worker, 1 crash, fairness | one active operation per workload; a delete SUCCEEDED only if PVE did it; every operation ends if no worker dies; a recorded one ends even then |
| `final` (violation) | two backups with one key and a restore, 2 workers, 1 crash | a terminal status is overwritten by a second poller |
| `stranded` (violation) | one reboot, 1 worker, fairness | an operation whose worker died before the UPID was stored stays RUNNING |
| `rebooted` (violation) | one reboot, 1 worker, 2 attempts, no crash | a reboot whose answer was lost is submitted again by `_submit` |
| `vmidheld` (violation) | as `final` | a restore ended by the power runner keeps its target VMID |
| `provision` | 2 requests (one free, one with node, VMID and password), 2 workers, 1 node share, 1 VMID, 1 address, 1 crash or lease that runs out under its worker, administrators | capacity conserved; only own clones are assigned; FAILED leaves nothing; passwords erased; two runners of one request only after such a lease |
| `quarantined` (violation) | 1 request, 1 worker, 1 crash | a recovered request configures its guest with a quarantined address |
| `firstfree` | all pools of 1 to 5 addresses, any gateway, up to 2 excluded ranges | the scan is right; exhaustion is answered only if every AVAILABLE row was locked or came late; the count is exact |
| `access` | 2 users, 2 tokens, epochs up to 3, 2 logins or logouts in flight, 3 requests of a browser | token families; what can revive an access token; the cookie is not a token whose successor is in use; every usable session is accounted for |
| `console` | 3 sessions of one customer and one guest, 1 organization, 5 administrative changes, 1 logout in flight, `Lifetime` 2, `Setup` 1 | relays overlap by the time of a set-up at most; an outdated grant opens only after a logout wrote the epoch back; what a deleted organization or user still has came from a call under way at the deletion |
| `clusters` | 1 cluster, 2 endpoints, 3 credentials, 3 callers, 2 pools, 2 addresses | no active cluster without a credential; a secret leaves its endpoint, or comes back after it was replaced, only by an overtaken update; a removed cluster stays empty; addresses exclusive per scope, rows and allocations agree, no change of holder without an elapsed quarantine |

**Why these bounds.** The properties of operations relate at most two workers and
two or three requests for one workload; a third worker repeats the role of the
second. One crash suffices for each crash hazard (a crash at every step is
tried); `careful` takes two, so that a recovery itself is interrupted. Retries
are bounded by `MaxActionAttempts` of the code; `MaxSubmits` is one above it in `careful`,
so that a submission too many is representable. Provisioning makes everything
scarce: one share, one VMID, one address for two requests. In `firstfree`
5 addresses leave room for two separate ranges, a gap between them, the network
address and the broadcast address; sizes 1 and 2 are the /32 and /31 cases. In
`access` two tokens are enough for a rotation, whose predecessor is then reused,
and for two families; with epochs 0 to 3 and two logouts at once a stale logout can write an epoch back below
a token that a later end of sessions then revives, and of three
requests one can overtake a second that was sent before a third. In `console` three sessions
allow one with an expired slot, a second that takes it and a third that meets
a late release; with `Lifetime` 2 and `Setup` 1 the slot may expire before, at and after
the start of a relay. In `clusters` three callers are an update that is overtaken by an update
and by a removal, and three credentials a secret, its replacement and its return; with one cluster the uniqueness of endpoints (`Taken`) is not exercised,
which the proofs cover.

Five runs are cut by a `CONSTRAINT`, each spending a common budget in several ways. `Apart` (`careful`): the reboot or
the backups and the restore. `Few` of `access`: two ends of sessions in all and one login or logout at a time, or one user
with three and two. `Few` of `console`: up to three sessions and the administrators' requests, four in sum, without
logouts; one session beside logouts and two requests about users; or no session and all requests. `Few` of
`provision`: one crash or one lease that runs out, of the request that names no VMID while the other is not yet claimed;
after a crash administrators release and approve but take no address themselves; and no request with two workers (`quarantined` has the last part too). `Effort` of `clusters`: many callers with few pools and addresses or the reverse, four
in sum. Every action fires within them, and what they cut off is covered by the
theorems, except two workers on one request of `Provisioning`.
Workers, sessions, callers, trips, tokens, pools and addresses are symmetric where `SYMMETRY` is used,
and no run with symmetry checks liveness.

**Deadlock** is not checked where the system may rest: users ask for nothing more,
PVE ends no task, or a bound is reached. `firstfree` checks it.

**Fairness** (`FairSpec` of `Operations`). Weak fairness of a worker's steps: every PVE
call has a timeout and Celery runs what it has taken. Weak fairness of `Ending`:
the poll loops have a deadline and an attempt limit, whatever PVE answers. Weak
fairness of `Restart`: `compose.yaml` says `restart: unless-stopped`. Weak fairness of
`LeaseExpires`: clocks advance. Nothing is assumed of users, of PVE, or of the
broker's redelivery.

Every property of a passing run has a mutant in `PROJECT.json`: a definition with
a plausible bug (a missing guard, a forgotten reset) under which TLC finds the
property violated. The mutants stand before the definitions they alter.

## 4. What the violations show

- `final`: `power_runner.py:591` writes the final status without comparing the
  stored one; `docs/database-model.md:389` and `docs/architecture.md:111` promise
  compare-and-set.
- `stranded`: the message redelivered after a worker's death meets the dead
  worker's fresh lease (`power_runner.py:183`) and is acknowledged;
  `docs/architecture.md:196` says redelivery is handled.
- `rebooted`: `_submit` (`power_runner.py:441`) sends a power action again after CLUSTER_UNREACHABLE and
  PVE_UPSTREAM_ERROR, though PVE may have accepted the first; `docs/api-design.md:355` says that only polling is
  retried. `RebootBounded` shows that these retries are all: crashes, redeliveries and recoveries add none.
- `vmidheld`: `recover_power_operations` (`tasks/power.py:38`) does not exclude restores.
- `quarantined`: the three commits of `_fail_request` (`provisioning_runner.py:757`)
  and the recovery that skips SUCCEEDED steps.

The models exhibit further behaviour that a document excludes. It follows
from the guards of the actions named here and has no run of its own:

- A delete that is delivered again is submitted again: its path
  (`power_runner.py:289`, `FirstStage`) looks at neither lease nor UPID;
  `docs/api-design.md:355` excludes a second submission. The retries of `_submit` repeat a start, shutdown or
  stop as they do a reboot (`SubmitRetries`), and a recovered one is submitted again after a look at the guest.
- A delete waits in the queue while the workload is assigned to a customer, and is
  then executed (`power_runner.py:251`, `AdminAllowed`, `Assign`;
  `docs/api-design.md:284`).
- A backup ends as TIMEOUT while vzdump runs on, beside the next operation of the
  workload (`backup_runner.py:369`, `PollEnds`; `docs/pbs-backup-plan.md:38`).
- A row whose publication failed stays QUEUED until some worker starts
  (`operations.py:179`, `Insert`; `docs/architecture.md:195`).
- A crash in `_fail_request` after the capacity was returned lets the recovered
  request succeed without a share (`FailReleases`; `CapacityConserved` still holds,
  because the flag is cleared with the share).
- Two administrators who demote or delete each other at once leave no active super
  administrator: each counts under the lock of one row only (`accounts.py:128`,
  `CountAdmins`); `docs/database-model.md:70` says transaction locks prevent it.
- A refresh token that a rotation inserts while a logout is under way survives
  the logout (`auth.py:181`, `LogoutReads`); so does one issued by a login that
  verified the old password before a password change (`auth.py:61`, `LoginReads`);
  compare `docs/security-model.md:29`.
- A console may be opened while another of the same user and guest is still relaying, for
  no longer than a set-up takes (`console.py:227`, `OverlapIsShort`);
  `docs/api-design.md:304` speaks of one active console. A relay is not cut when the account or
  the owner of the guest changes: rights are read once, before it begins (`Load`).
- A process that dies between INCR and EXPIRE leaves a rate counter that never goes
  back (`AskDies`); once it reaches the limit the user is refused for good.
- An `add_member` or `assign` that overlaps the deletion of its organization leaves a member
  or a guest with an inactive organization (`accounts.py:448`, `AddMember`, `Assign`), and one that overlaps the
  deletion of the user a deleted member. `LeftoversOverlapped` says that there is no other way.
- `IP_POOL_EXHAUSTED` is answered although an AVAILABLE row exists when a release or an approval holds
  its lock (`ipam.py:743`, `BeginSearch`); `ExhaustedOnlyWhenFull` says that no address without a row is ever missed.
- A worker that waits for the advisory lock of `_reserve_vmid`, or for PVE before the clone, does not renew its lease; another
  may claim its request (`provisioning_runner.py:464`, `LeaseExpires`; compare `docs/architecture.md:196`). `SoleRunner` says that
  nothing else gives a request two workers.
- `update` of a cluster compares the version before its probe only, reads the row again after it,
  and writes back the endpoint it found by its first read: of two overlapping updates one may
  pair the new secret of the other with the old endpoint (`clusters.py:475`, `UpdateWrites`;
  `docs/database-model.md:111` calls the version an optimistic lock). One that brings a token identifier alone puts the
  secret it decrypted before its probe over the one the other has just committed, and that renewal is lost (`Insert`).
  `SecretStaysHome` and `SecretsGoForward` name these overlaps as their exceptions, and show that there are no others.
- The removal of a cluster counts what refers to it before it writes and does not count again
  (`clusters.py:585`, `DeleteWrites`; `docs/database-model.md:376`), so an import, a node, a
  template, a target or an owner may come in between, the guests of the import being present again
  (`docs/admin-dashboard.md:46`); a credential that an overlapping
  update inserted stays active, and with it the disabled cluster may be updated. Pools may be
  created for a disabled cluster, and deleted pools still block a removal (`Blocked`).
- A browser whose proxy timed out keeps the cookie that the backend has already rotated; its next
  refresh is taken for reuse and ends the session (`route.ts:67`, `TimesOut`). A late answer
  or refusal overwrites or clears the cookie of a newer login (`route.ts:78`, `RestoreReturns`).
- `session_epoch` can go back: logout writes the epoch it read plus 1 (`auth.py:183`, `LogoutWrites`). An access token
  or console grant from before then becomes valid again, at once or, when it is ahead of the epoch now, by any later end of
  sessions. `RevivedAfterSetbackOnly` and `OutdatedUnlessSetback` say that no other user's tokens and grants do (`setback` is the
  history of the users concerned).

## 5. Proofs

The theorems hold for all values of the constants under the `ASSUME`s of the modules,
which say only that parameters have their types and that the "none" values are
no members of the sets beside them. One says more: `PoolNetAssumption`, that the pools of
`Provisioning`, which exist before the first request and serve every cluster, do not overlap;
`create_pool` refuses an overlap, and `IpamExclusive` is proved of pools that are created and
changed. The theorems are checked by tlapm with Z3, Zenon and LS4; liveness and `ENABLED` are outside its reach and stay with TLC.

**Operations** (`OperationsProofs`). The safety properties are not inductive by
themselves. `IInv` adds what ties a worker's memory to the database:
`WorkersCoherent` (a worker that records or polls holds the number of an accepted
task), `QueueCoherent` (only restores are sent to two runners), `RowsCoherent`
(a queued careful operation left no trace in PVE), `KeysUnique`, and above all
`SoleSubmitter`: between claim and stored UPID of a backup, restore, reboot or reset no
second worker submits, and PVE has accepted no more than this worker's attempts.
It is what makes "once per key" and the bound on reboots inductive although
leases expire under living workers: whoever claims a RUNNING row without a UPID
gives up or only observes. The proof that `Next` preserves `IInv` goes action by
action. From it follow `TypeCorrect`, `OneActiveOperation`, `AtMostOnce`, `OneSubmitter`, `RebootsBounded`,
`SuccessCorrect`, `BackupRunCorrect`, `OwnershipCorrect`, the action properties
`EndedStaysEnded` and `NoResubmission`, and `Refinement`: `Operations` implements
`OperationContract`, with `status` mapped to phases and accepted tasks to effects.

**Ipam** (`IpamProofs`). `ScopeExclusive` needs `PoolsDisjoint` (active pools of one
scope do not overlap) and `RowsInPool` (an address in use lies in an active pool),
which join the pool operations to the address operations; with the agreement
of rows and allocations they form `IpamInv`. `IpamHandedOver` is an action
property that follows from the same invariant.

**Accounts** (`AccountsProofs`). `OneUnspentPerFamily` is inductive only with
`TokensTyped` and `FamiliesRooted` (a family is named after a token that was
issued: a new login cannot enter an old family), and `ReusedFamilyIsDead` needs both,
since a rotation must not add a live token to a family that was given up.
`RevivedAfterSetback` rests on `ClaimsBehind`: the tokens, logins and logouts of a user whose epoch was never written
back are not ahead of it. Then no end of sessions can meet them again, and an account that becomes
active again has a new epoch.

`DeletionIsFinal` has no run: a deleted account keeps its state under every action,
for which no bound is needed.

**Provisioning** (`ProvisioningProofs`). `ProvInv` ties three places together that the code
keeps in step only by the order of its commits. `ClaimFits`: a busy worker's request is RUNNING
under its name until that worker ends it. `StageFits`: what a
worker is doing determines how many steps of the request are recorded and what it holds; in
particular the failure path without review is entered only without a clone, and its three commits
leave first no address, then no share. `RowFits` and `WorldFits`: the row's own fields agree
(a step recorded as done has left its VMID, its clone, its erased password) and with the
guest, the clone task and the address behind it. `CapacityInv` says that free shares and held shares
add up; its proof counts the finite set `Shares` of requests with the capacity flag, with the
theorems on cardinality. The invariant of `Ipam` is a part of `ProvInv`: `AddressesAreIpams` shows that
every step is a step of `Ipam` or leaves the addresses alone, so that `ProvisionedAddresses` and
`ProvisionedHandedOver` state the theorems of `IpamProofs` for addresses that requests reserve,
confirm and roll back. `AssignedCorrect`, `FailedIsClean` and `SecretsErased` read off
the invariant. They are stated as long as no request has two workers (`Undoubled`); a lease that runs out under its
worker alone does not disturb them. `OneRunner` needs no such premise: `RunInv` ties every worker to the row that names it, until
the lease of its request has run out in its hands (`RunStep`). So do the theorems on addresses, because a step of any
worker, the second of a request included, is a step of `Ipam` (`IpamStep`).

**BrowserSession** (`BrowserProofs`). `BrowserUsesAccounts` is a refinement: whatever the browser
and its proxy do, a step is one of `Accounts` or leaves it alone, so that the theorems of
`AccountsProofs` hold of the composition. It needs `BrowserInv`, that a restore under
way always carries a token: the proxy never presents an empty cookie. `CookieStaysCurrent` and
`NothingHidden` need `CookieInv`. Its core is `GotFits`: a token that an answer carries is known to no
other request, is not the cookie, and is the one unspent token of its family, hence it cannot have been
rotated before it arrives. With it `NotBehind` is inductive: when an answer sets the cookie, no
other token of that family is usable. `TripFits` says that a restore on its way back carries a token
that is dead, and that a logout handed to the backend has its token among those it
will revoke. `Ages` is the lemma about the backend they rest on: an issued token keeps user and
family and never becomes usable again, because an account that is switched on or off has all its
tokens revoked, and a deleted one stays deleted. `Turn` collects what an action has to show; it is
shown for each action and preserves `CookieInv` by itself.

**Console** (`ConsoleProofs`). `ConsoleInv` relates three clocks: while the slot names a live session,
the slot is as old as the session (`SlotAsOld`), or the session is older than the slot's lifetime; a session
is set up within `Setup`, and a relay ends `Lifetime` after it began (`TimesFit`). Two live
sessions of a pair then differ by a lifetime, of which only a set-up may remain: `OverlapsAreShort`.
`OutdatedStaysOut` follows from `GrantFits`: a grant's epoch is never ahead of the account's unless a logout wrote that
back, and an account that becomes active again has a new one; `ClaimsBehind` of `AccountsProofs` says the same of the
logouts under way. `LeftoversAreLate` needs `CallsOverlapped`: an `add_member` or `assign` still under way after
the deletion of what it read is among the late ones.

**Clusters** (`ClustersProofs`). `ClustersUseIpam` is the refinement of `Ipam`, whose theorems
then hold for pools of clusters that are updated and removed meanwhile. `ClustersInv` has four parts beside
the types and `OneCredential`. `Entered`: a credential in use has been inserted. `Numbered`: credentials are numbered as they
come, and the secret of each was entered no later than itself. `Begun`: an update names an endpoint and has read a
credential. `Current` is the core: what an update has read is still so unless it is `overtaken`, so that an update that is not
puts its secret beside the endpoint it checked (`SecretsStay`) and encrypts again only the secret in use
(`SecretsForward`). `RemovedEmpty` follows action by action: the lemma `SettledStep` shows that no caller can
begin on a removed cluster, and that those left are updates and removals.

**FirstFree** (`FirstFreeProofs`). `IInv` consists of the invariants of the loops. `MergeInv`: the merged
ranges lie in order with a gap between them, those left start after them, and both together cover
what was blocked when the rows were read; `JoinEffect` shows it for one turn. That an address
comes back meanwhile does not disturb it, because `Blocked` counts such an address as still
taken. `ScanInv`: every offset of the pass before the cursor is covered, the ranges passed over end
before it, and the second pass begins only when the first one is covered to the end of the pool. `InGap`
is the lemma behind both ways to find an offset. `SumInv`: the total is the number of offsets
in the ranges added up so far, with the theorems on cardinality, since the ranges are disjoint. `RowsApart`
relates the rows: taken, DISABLED and AVAILABLE ones are different, and only DISABLED ones may lie in an excluded
range. From these follow `FindsFirst`, `FullWhenExhausted` and `CountExact`, for pools of every size.

Only model-checked: the liveness properties `EndsUnlessStranded` and `RecordedOperationEnds`.
The five violations are behaviours of an instance and need no proof.

## 6. Not modelled

- The login throttle: counters by address and account, which delay a login and decide nothing else.
- `authenticated-fetch.ts`: a tab has one refresh under way at a time. `BrowserSession` allows more,
  since tabs do not know of each other.
- Products, and the figures that `upsert_node` writes over a node's capacity: they redefine
  the total from which `CapacityConserved` counts. The update of a backup target.
- The database's row locks as such; their deadlocks end one transaction with an error.
- Audit rows, which no decision reads; HTTP routers and schemas, which keep no state; the
  queries behind lists, dashboards and most alerts.
- The encryption of secrets and passwords, TLS pinning, the parsing of PVE's answers and
  the check of URLs.
- Migrations and deployment; the frontend, apart from its session.

`PROJECT.json` lists the hazards of these parts with their lines.

## 7. Plan

1. Done: `Operations` with contract and proofs; `Ipam` and `FirstFree`;
   `Provisioning` over `Ipam`; `Accounts`; `Organizations` and `Console` over it;
   `BrowserSession` over `Accounts`; `Clusters` over `Ipam`; proofs of every safety property of
   these, and that `BrowserSession`, `Clusters` and `Provisioning` implement what they extend.
2. `Console` implements `Organizations`, and both implement `Accounts`.
3. `Provisioning` with two workers on one request: each worker with its own copy of
   the request; the configuration of guests (`_apply_spec`, partial failure).
