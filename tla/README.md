# A TLA+ verification of mcpgate

mcpgate is a governed MCP server: a ticketing store behind five tools, each call
of which goes through a guard pipeline (authenticate, rate limit, authorize,
validate, filter rows, audit). This directory models the server, its pipeline and
what they stand on, checks the models with TLC on small instances, and proves the
most important results for every instance with TLAPS. Paths below are relative to
the repository; short names such as `gateway.py` are files of `src/mcpgate/`.

## 1. The system

One server is one Python process with one event loop. None of the functions
modelled here awaits anything that gives way to the loop, so **inside a process a
tool call or a request of the token endpoint runs from start to end alone**. What
interleaves is processes: several servers, or a server and the CLI, share one
SQLite file, and each SQL statement with its commit is a transaction of its own.
Processes may die between any two statements. The buckets and the policy are in
the memory of each process.

| Component | State | Operations | Talks to | What is hard |
|---|---|---|---|---|
| Rate limiter, `rate_limit.py` | a bucket per identity: tokens, time of last touch | `allow` | guard pipeline | reading the clock outside the lock; caps, refusals and refills at the boundary; a client that must not starve |
| Audit trail, `audit.py` | the `audit_events` table | `record`, `verify_chain`, `reconstruct` | store | tail read and insert are two transactions; verification of edited, truncated and very long tables |
| Authorization server, `auth.py` | the `oauth_artifacts` table, the policy in memory | `authorize`, `load_*`, `exchange_*`, `issue_for_client`, `revoke_token` | policy, store, the SDK's endpoints | select-then-consume across processes, crashes mid-exchange, scopes that outlive the policy, revocation racing exchange |
| Policy, `policy.py`, `policy.yaml` | clients, tools; read once | `authorize_scopes`, `require_tool` | everyone | edits take effect at restart only |
| Guard pipeline, `gateway.py` | a call in progress | `invoke` | all of the above | subject tag, scope check and write are separate transactions; faults at any statement; evidence on every path |
| MCP server, `server.py` | none | five tools, `audited_call_tool` | SDK, pipeline, audit | exactly one event per call over two layers that can both record it, or both fail to |
| Store, `store.py` | one connection, three tables | one function per statement | SQLite | one write lock, busy timeouts, a failed write that leaves its transaction open; a commit followed by a SELECT; seeding twice |
| Runtime, settings, CLI, benchmark | none | construction, commands | all | two processes starting on one empty file |

What makes each part correct:

- *Limiter*: no window of time sees more than a full bucket plus the window's
  refill granted; nobody is refused without cause; `retry_after` is exact; a
  client that goes on calling is granted a call.
- *Audit trail*: an untouched table verifies; a table that verifies is one that
  `record` alone has made.
- *Authorization server*: codes and refresh tokens are single-use on any number
  of processes; no exchange gains a scope; a scope withdrawn by a policy edit
  dies out; a revoked grant issues nothing. In short, it implements a register of
  grants each of which is spent once, for one pair.
- *Pipeline*: rows are read and changed only within the token's teams and
  scopes; a denial has no side effect; a revoked token gets nothing more done;
  audit reads are scoped by team.
- *MCP server*: every call that ends leaves one event, the event agrees with what
  the caller was told, and a change is on record under the client that made it.
  In short, however its processes and statements interleave and fail, it behaves
  like a gateway that handles a call in a change, an event and an answer.
- *Store*: a process left with an old version of the database lets no revoked
  token through; every call ends, whoever holds the write lock; an empty file is
  seeded a bounded number of times.

## 2. The modules

| Module | Models | Read with |
|---|---|---|
| `RateLimiter` | `TokenBucketLimiter.allow` as two steps (clock, locked section) per thread | `rate_limit.py` |
| `WindowQuota` | what the limiter promises: a quota for every window of time, without buckets | `RateLimiter` |
| `AuditLog` | `record` as read of the tail and insert, `verify_chain`, edits of the file | `audit.py`, `store.py:205-260` |
| `OAuth` | the provider: grant, exchange, issue, revoke, expire; restarts that reread the policy | `auth.py`, `store.py:149-203`, `policy.py` |
| `GrantRegister` | what the provider promises: a register of grants, without processes, statements or time | `OAuth` |
| `Gateway` | `invoke` with each guard, dispatch, fault and crash, on the shared tables | `gateway.py`, `store.py:105-143`, `policy.py:56-62`, `policy.yaml` |
| `Server` | extends `Gateway`: the SDK's rejections, the tools, `audited_call_tool`, over HTTP and stdio | `server.py`, `auth.py:169-170` |
| `CallContract` | what the gateway promises of a tool call, without processes, statements or failures | `Server` |
| `StoreConnection` | the SQLite connection under the calls: versions, the write lock, timeouts, `seed` | `store.py`, `runtime.py`, `gateway.py:48-107` |
| `MC*` | constants and symmetry for TLC | |
| `*Proofs`, `OAuthRefinement`, `ServerRefinement` | the theorems and their lemmas | |

`Server` composes the pipeline with the transport by extending it: its actions are
`Gateway`'s, conjoined with what the wrapper does. `Gateway` carries its own view
of the tables that `AuditLog`, `OAuth` and `StoreConnection` model in depth: an
audit row is its fields and the length of the table its `record` had seen, a
token is usable or not, a statement succeeds or fails as a whole.

Each module also holds the seeded faults (`\* Seeded fault: ...`): variants of a
definition with a plausible bug. They are no part of `Next`; each property has one
that TLC finds to break it.

### RateLimiter

`clock` is `time.monotonic`, `buckets` is `_buckets`, and `pending` holds the
calls that have read the clock (line 33) and not yet taken the lock (34). `Grant`
and `Deny` are the two ends of the locked section. Tokens are integer units so
that fractions of a token are units; float rounding is not modelled. `spent` and
`hints` are history: what was granted in every window, and the first
`retry_after` a waiting identity was given.

`WindowQuota` is the abstract specification: no bucket, only what each window of
time has left (`Room`). A call is granted when every open window has room for it,
and otherwise told what the tightest of them lacks. `KeepsQuota` says that the
limiter is that quota, under a mapping that keeps `spent` and `hints` and takes as
the time the instant a call is judged by (`Moment`): the clock, or the reading of
the call that has read it and waits for the lock. It is stronger than the bound on
windows and the absence of needless refusals together: it ties each grant, each
refusal and each number a refusal gives to the same windows.

### AuditLog

`log` is the table in order of `sequence`. A row has its content (the twelve
fields the HMAC covers besides the previous hash, as one value), `previous_hash`
and `event_hash`. `Mac` is a constant operator: TLC gets an injective one (a
number with a digit per covered row), the theorems state what they need of it.
`EditRow`, `InsertRow` and `DropRow` are what `tests/test_audit.py` and someone with
the file but without the key can do: rewrite any column of a row, insert one
anywhere, delete one. What they write is any event under any two digests that
`record` has ever made (`Forgeries`), so rows can be copied, moved and put back; a
digest that `record` never made is left out, since no row would be accepted with
it. `history` collects every honest table, one made by `record` alone.

### OAuth and GrantRegister

`artifacts` is the table in order of insertion; a code or token is known by its
row, because the code draws 32 random bytes or more and never the same twice; so the
`INSERT OR REPLACE` of `put_artifact` (`store.py:159`) replaces nothing and `Put`
appends. `now` is `time.time()`, taken not to step back: if the host's clock did,
an artifact that had expired would be good again, against `NoRevival`.
`request` is the request each process serves, with a `pc` between the statements:
`select`, `consume`, `put access`, `put refresh`. `Load` is the SDK's call of
`load_authorization_code` or `load_refresh_token` before the exchange; PKCE and
redirect checks are the SDK's and are pure. `Restart` covers both death at any
statement and a restart after an edit of `policy.yaml`. `grant` (the row another
was exchanged for) and `allowed` (when a scope was last allowed) are history.

`GrantRegister` is the abstract specification. An item of its register is a code
or token that was handed out; `Spend` takes in a code or refresh token once and
for good, `YieldAccess` and `YieldRefresh` hand out the pair for it, within its
scopes and never again, `Issue` is what a client gets on its own authority. The
mapping (`Register` in `OAuth`) takes each row to its kind, client, scopes,
whether it is consumed, and what it was issued for; requests in flight, expiry,
revocation, restarts and the policy are invisible. `KeepsPromise` is the register's
specification under that mapping.

`NoRevival` is about single rows: one that is no longer good never becomes good
again. It is what lets `Gateway` keep its tokens in a set `usable` that only
shrinks.

### Gateway

`tickets` and `audit` are the tables, `usable` the tokens whose artifact is valid,
`budget` the buckets in whole calls: a refill between two calls is folded into the
level `Check` is given, any level from the one left up to the capacity. `call` is
the call each process runs; its `pc` names the next statement:

    idle -Arrive-> tag -Tag-> guard -Check-> dispatch [-> update] [-> readback]
                                 \                \
                                  Deny             Deny / Allow -> tail -> append -> reply -> idle

`TagFault`, `DispatchFault` and `RecordFault` are a failing statement at each of
the places the code treats differently: swallowed, caught and recorded, or
escaping; `ArriveFault` is the lookup of the token, which is outside the `try`.
Which of them may fail is the constant `Faulty`. `Crash` is the death of a
process at any point, its successor starting with full buckets. `writes`,
`answers`, `lost`, `arrived` and `revokedAt` are history. The field `blind` marks
a call whose subject lookup failed and was swallowed.

Of the arguments a call keeps what the pipeline tells apart: the tool, the ticket
id (0, existing, absent), the team, the status, and whether the rest is well
formed.

### Server

A call comes to a process that is `Free`. The SDK either rejects it, for an
unknown tool or arguments of the wrong type (`Reject`: a request outside
`Accepted`), or runs the tool, whose `invoke()` finds no access token over stdio
(`NoAccess`, an `AuditedToolError` and no event) or hands the call to the pipeline
(`Dispatch`, and `LoadFails` when the pipeline's lookup of the token raises).
`Guard` is every step of the pipeline, `Return` its end in a result or an audited
error, `GuardRaises` its end in an exception because `record` failed. What is not
marked as audited goes to `audited_call_tool`: `wrapping` is the call it is
recording, `WrapTail` and `WrapAppend` its `record`, `WrapFault` the failure of
that too. `Die` is the death of the process in either layer. `unrecorded` is
history: the calls for which the code leaves no event in any way it could. The
`tickets` of a call in `wrapping` are history too: what it had been given or had
changed before `record` failed over it, of which the arguments in the wrapper's
row tell.

`CallContract` is the abstract specification of the whole: calls come in, tokens
are revoked, and a call makes at most one change of the tickets, within the scope
and the teams of a token that was not revoked before it came; it leaves at most
one event, after its change and under the client the change was made for; and its
caller is told what is on record, once. `KeepsContract` says that the server is
that gateway. The mapping keeps `tickets`, `arrived`, `writes` and `answers`,
takes the tokens that are no longer usable with the time they went
(`Revocations`), and of each row of the trail what callers and auditors go by
(`Trail`). Which process runs a call and how far it has come, buckets, tags, both
layers' reads of the tail, faults and deaths are invisible.

### StoreConnection

`log` is the sequence of committed transactions, and a version of the database is
a length of it. `conn` is the transaction of each process's connection: none, open
with nothing seen yet, or pinned to the version of its first SELECT, as in WAL
mode with Python's implicit BEGIN before an INSERT or UPDATE. `writer` holds the
write lock. `Insert` gets it only on top of the newest version; `Locked` is the
write that does not, at once from an old version or after the busy timeout
otherwise, and **leaves the transaction open**, for the store ends one with
`commit()` and in no other way. `Fail` routes that error as `gateway.py:81-95` and
`server.py:98-120` do. A call is cut down to the SELECT of its token, one write of
its own, and the SELECT and INSERT of `record`; `wrapped` says that the wrapper is
recording it. `Boot`, `Count` and the write at `seed` are `create_runtime` and
`Store.seed`. `late` and `quiet` are history: the call began after a committed
revocation of its token; no other process has held the lock during it.

## 3. What the runs check

| Run | Instance | Shows |
|---|---|---|
| `RateLimiter_loop` | 1 caller, 2 identities, bucket of 2 calls, clock to 5 | `TypeOK`, `WindowBound`, `NoNeedlessThrottle`, `RetryHintExact`, the liveness property `NoStarvation`, and the refinement `KeepsQuota` |
| `RateLimiter_threads` | 2 callers, 1 identity | *violates* `WindowBound` |
| `AuditLog_one` | 1 writer, 3 rows recorded, 2 rows rewritten, inserted or deleted | `TypeOK`, `IntactChainVerifies`, `TamperEvident` |
| `AuditLog_race` | 2 writers, 4 rows | `RaceLeavesSiblings` |
| `AuditLog_fork` | 2 writers, 4 rows | *violates* `IntactChainVerifies` |
| `OAuth_race` | 2 processes, 3 artifacts, clock to 1 | `TypeOK`, `SingleUse`, `NoEscalation`, and the refinement `KeepsPromise` |
| `OAuth_edit` | 1 process, two policies, 4 artifacts, clock to 5 | `EditedPolicyHolds`, and of what a step may never do `RevokedNotRedeemed` and `NoRevival` |
| `Gateway_one` | 1 process, 2 calls out of all tools and refusals, faults everywhere but at the SELECT after a write, 1 crash | `TypeOK`, `RowScoped`, `DeniedLeavesNoTrace`, `AuditReadScoped` |
| `Gateway_blind` | 2 processes, 3 calls | *violates* `AuditReadScoped` |
| `Server_three` | 2 processes over HTTP and 1 over stdio, 2 calls that race or that the SDK rejects, faults of the token's lookup, the tag, the read-back, the guard's INSERT and the wrapper's record, 1 crash | `RowScoped`, `EvidenceOnce`, `RevocationCutsOff`, `ServerTypeOK`, `EveryCallOnRecord`, `ChangesTraced`, and the refinement `KeepsContract` |
| `StoreConnection_two` | 2 processes, one of which may stop for good anywhere, 3 calls, 1 crash | `TypeOK`, `RevokedStaysOut`, `SeedsBounded`, `LossesExplained`, and the liveness property `CallsEnd` |
| `StoreConnection_stuck` | the same | *violates* `QuietCallsRecorded` |

Deadlock is checked in the limiter only: elsewhere the bounds on calls, rows and
time end a behaviour.

**Bounds.** Every counter that the code leaves unbounded has a named bound:
`MaxTime`, `MaxRows`, `MaxEdits`, `MaxArtifacts`, `RequestTicks`, `MaxCalls`,
`MaxCrashes`. They are large enough for the cases that matter: in the limiter an
identity is refused, waits, overfills its bucket and bursts again; in the audit
log rows are rewritten, inserted and removed at the head, inside and at the tail,
with rows before and after; in OAuth two processes hold the same grant between SELECT and UPDATE and
three artifacts are a grant and the pair it yields (a fourth, with five ticks, a
refresh of a refresh after an edit); in Gateway two calls are a write and the
audit read of it, and the violation of `Gateway_blind` needs a third; in Server
two calls are in each other's way on two processes while a third rejects one; in
StoreConnection three calls are a revocation, the call that is late for it, and
the write that got in between and left the transaction stuck. That each property
can fail within them is shown by its seeded fault.

**Fairness.** Two runs check liveness. `NoStarvation` (a client that goes on
calling is granted a call, however early and often it retries) assumes weak
fairness of `Tick` and `Serve`: time goes on, and the lock is never held across a
wait, so a caller that has come to it gets it; and strong fairness of `ReadClock`
per identity: the client keeps calling, and the event loop takes ready requests
in turn, so one that is ready again and again is taken. It speaks of refusals
whose `retry_after` ends within `MaxTime`. `CallsEnd` (whatever a running process
begins it ends) assumes weak fairness of the process's own steps, and nothing of
any other process, which may stop for good with the write lock held: a write that
does not get the lock fails after the busy timeout, which is a step of the process
that waits. No fairness is assumed of `Boot`, `Begin` or `Crash`.

## 4. What the code does otherwise than it says

Each of these is a run that TLC finds violated, and is listed in `PROJECT.json`.

1. *Clock outside the lock* (`rate_limit.py:33`, "Thread-safe token bucket",
   line 16). A thread that waits for the lock refills with an old reading and
   moves `updated_at` back; the same interval is paid twice. The server's own use
   is single-threaded.
2. *Forked chain* (`audit.py:46`; README.md:72). Two processes chain to one row,
   and `verify_chain` reports tampering on an untouched table. `RaceLeavesSiblings`
   says what is found in such a table: two rows share a `previous_hash`.
3. *Null subject* (`gateway.py:55`; `store.py:245-247`). The tag is read before
   the dispatch; a ticket that another process creates in between is read by its
   team and the event is shown to every auditor.
4. *Stuck connection* (`store.py:128`; `gateway.py:82`). A write that runs into
   the busy timeout raises with its transaction open. The next SELECT pins its
   version, every later write of the process fails at once, `record` among them,
   and its calls leave no event though nobody else holds the lock. What the
   process reads is stale, revocations included; `RevokedStaysOut` shows that no
   harm comes of that, because its writes fail and no call is answered before its
   event is written. `LossesExplained` shows that this is the one way an undisturbed
   call is lost, and `OnlyRestartFrees` that nothing the process does ends it.

Observed while modelling, and stated in a property's exception or hypothesis:

- A lookup of the subject that fails is swallowed (`gateway.py:137`), with the
  effect of 3 on one server: `AuditReadScoped` excepts the calls marked `blind`.
- A fault of the SELECT after a committed write (`store.py:133`) is answered and
  recorded as a denial though the change was made: `DeniedLeavesNoTrace` needs
  `"readback"` out of `Faulty`; `ChangesTraced` holds all the same.
- A fault of the SELECT after a committed audit row (`store.py:214`) makes the
  wrapper record the call again: `EvidenceOnce` and `KeepsContract` need `"reply"`
  out of `Faulty`. When it is the guard's INSERT that fails after a committed
  write, the wrapper's event calls the change `rejected_before_dispatch`: for
  `DeniedLeavesNoTrace` to hold of the whole server no statement of the pipeline's
  `record` may fail.
- The wrapper's event has no `subject_team` but has the arguments of the call
  (`server.py:107-119`). When `record` failed over a call that the pipeline had
  carried out, those name a ticket, and every auditor is given the row, against
  `store.py:245-247`. TLC refutes `AuditReadScoped` of one server that an auditor
  reads from and whose `record` may fail; the theorem `ServerAuditReadsAreScoped`
  excepts these rows by name and says that they are the only ones of the wrapper.
- A call over stdio leaves no event (`server.py:51-53`), against README.md:24 "a
  structured audit event for every call": `EveryCallOnRecord` excepts it by name.
  Requests the SDK's bearer check turns away with a 401 never come to the server
  and leave none either.
- A code outlives the policy (`auth.py:110`): an exchange does not ask the policy
  again. `EditedPolicyHolds` bounds how long that matters: one code lifetime and
  one access token lifetime after the last process has reread the policy.
- A revocation that falls between another process's SELECT and UPDATE of the same
  refresh token is lost on the exchange (`store.py:187`): `RevokedNotRedeemed` is
  about one process.

## 5. What is proved

Every theorem holds for all values of the constants that satisfy the module's
`ASSUME`, and under the hypotheses in its statement.

| Module | Theorem | Hypotheses | Argument |
|---|---|---|---|
| `RateLimiterProofs` | `TypeCorrect` | none | any number of threads: a reading older than the bucket refills nothing, the refill is capped, and a call is charged only what is there |
| | `WindowContract`, `ThrottleOnlyWhenDue` | `OneCaller` | tokens in a bucket never exceed what any window has left (`TokensWithinWindows`), and some window has no more left than that (`TightWindow`); readings enter in clock order (`ReadingsInOrder`), which is what a second thread breaks |
| | `HintContract` | `OneCaller` | what a bucket lacks is what its first hint lacked less the refill since (`HintsFit`) |
| | `QuotaKept` | `OneCaller` | the level `allow` computes for its reading is what the tightest open window has left (`LevelIsTightest`): a bucket that is full has a window that opens now, any other one that was tight at its last touch. So `Grant` and `Deny` map to a grant and a refusal of the quota, and `ReadClock` and `Tick` let its time stand still or go on (`MomentAdvances`) |
| `AuditLogProofs` | `TypeCorrect` | `MacIsHash` | any number of writers that race, die, or append to an edited table |
| | `UntouchedTableVerifies` | `OneWriter`, `MacIsHash`, `AllRowsRead` | while nothing was edited the rows are chained (`Chained`) and the hash a writer holds is still the tail's (`ReadingIsTail`) |
| | `ForksLeaveSiblings` | `MacIsHash` | any number of writers: what each of them has read is the hash of some row or the genesis value, and the rows stay chained until two share one (`RaceInv`) |
| | `VerifiedTablesAreHonest` | `MacIsHash`, `CollisionFree` | the honest tables grow by one row (`HonestGrowth`), a digest determines the table it was computed on (`DigestsDetermine`), and whatever was rewritten or inserted, a row carries the digest of an honest table (`DigestsAreHonest`); then a verifying table is honest by induction on its length |
| `OAuthProofs` | `GrantsAreSingleUse`, `ExchangesNeverEscalate` | none | at most one process is past the UPDATE of a grant (`ClaimedOnce`), and what it has put so far is all that the grant has yielded; what it is about to issue is backed by the grant's row (`Backs`) |
| | `TypeCorrect` | `CodeTTL > 0` | rows and requests date from the past and refer to rows that exist |
| | `WithdrawnScopesDieOut` | `CodeTTL > 0` | any number of processes: what a code, a pair or a request in flight carries was allowed no longer ago than it can have lived (`DatedInv`) |
| | `RevokedIssuesNothing` | `OneInstance` | what is about to be exchanged is not revoked (`InHandUnrevoked`) |
| | `NothingRevives` | none | rows are only added, each keeps its kind and expiry, and what is consumed or revoked stays so (`RowsKept`); time goes on |
| `OAuthRefinement` | `RegisterPromiseKept` | none | the initial table maps to the empty register, and each of the provider's actions to `Spend`, `HandOut` or a stutter, under the invariant of `OAuthProofs` |
| `GatewayProofs` | `RowsAreScoped` | none | a call at the store has passed the checks, and what it holds is in scope (`Cleared`); tickets never change their team (`TicketsKept`), so what a SELECT found stays true until the UPDATE |
| | `RevocationIsEffective` | none | who goes on past the guard was usable when it arrived, and a revocation is later (`RevokedInv`) |
| | `DenialsAreHarmless` | `"readback"` not in `Faulty` | a call that has written is on its way to an allowed answer, and no recorded denial is its (`TraceInv`) |
| | `AuditReadsAreScoped` | `OneInstance` | an event about a ticket carries the ticket's team, as the tag of the call did (`TaggedInv`) |
| | `TypeCorrect` | none | calls are numbered as they come in (`Numbered`); what one holds of the audit table is there, for rows are only added, and it is decided before its event (`CallsFit`) |
| `ServerProofs` | `ServerRowsAreScoped`, `ServerRevocationIsEffective` | none | the pipeline's invariants, which the wrapper leaves alone (`Guarded`, `RevokedInv`) |
| | `EveryCallIsOnRecord` | none | each call so far is in the pipeline, in the wrapper, on record or excepted (`OnRecordInv`) |
| | `ServerTypeCorrect` | none | the pipeline's numbering, which the wrapper takes its calls from (`WrapInv`) |
| | `ServerDenialsAreHarmless` | `"readback"` not in `Faulty`, `RecordSure` | the pipeline's `TraceInv`, and what the wrapper is recording has never come to the pipeline (`WrapUntried`) |
| | `ServerAuditReadsAreScoped` | `OneInstance` | the pipeline's rows carry the team of the ticket they tell of (`RowsTagged`, which is `TaggedInv` of all rows but the wrapper's), and what the wrapper has in hand or on record tells of a ticket only if `record` had failed over the call (`WrapperHolds`) |
| | `EvidenceIsSingle` | `"reply"` not in `Faulty` | a call that either layer has yet to record has no event (`OnceInv`) |
| | `ChangesAreTraced` | none | each change is on record, excepted, or in hand in a layer that will sign it with the client of its token (`TracedInv`) |
| `ServerRefinement` | `ContractKept` | `"reply"` not in `Faulty` | the initial state maps to the contract's, and each action of either layer to `Arrive`, `Revoke`, `Change`, `Record`, `Tell` or a stutter, under the invariants of `ServerProofs` and one more: a call that has changed a ticket, in hand or on record, goes on under the token it came with (`AuthorInv`) |
| `StoreConnectionProofs` | `TypeCorrect`, `StaleNeverAnswers` | none | a late call whose token was accepted is pinned to a version older than the newest, so it never gets the lock (`StaleStays`) |
| | `LossesHaveACause` | none | while a call is quiet nobody but its own process has the lock (`QuietAlone`), so a write of it fails for the version it sees or not at all |
| | `OnlyRestartFrees` | none | a process tied to an old version is not the writer, so it never comes to the one `commit()` that would end its transaction (`TiedTillRestart`) |
| | `SeedingIsBounded` | finitely many `Instances` | a process counts outside any transaction (`FreshStart`), so it comes to the INSERT only while nobody has seeded; the seeds committed and those on their way leave room for one another (`SeedRoom`) |

The properties themselves are seldom inductive: they say nothing of a call that
has passed its check and not yet written, or of a process between the UPDATE and
its INSERTs. The named invariants add exactly that.

The hypotheses are where the code's guarantee ends. `OneCaller`, `OneWriter`
(`AuditLog`) and `OneInstance` (`Gateway`) fail in the runs
`RateLimiter_threads`, `AuditLog_fork` and `Gateway_blind`; those about `Faulty`
(`RecordSure` is that none of `"tail"`, `"append"` and `"reply"` is in it) and
`OneInstance` (`OAuth`) are the observations of section 4. `AllRowsRead`, and
`Len(log) <= VerifyLimit` in the statements of the two later audit theorems, fail
in a table of more than a million rows: `verify_chain` (`audit.py:86`) then starts
in the middle, expects the genesis value there, and reports an untouched table as
edited. `MacIsHash` and `CollisionFree` are what HMAC-SHA256 is trusted for, and
`CodeTTL > 0` is a constant of `auth.py`. The theorems say that nothing else is
needed.

`VerifiedTablesAreHonest` needs an induction over a table's length. It is made
from the well-foundedness of strict inclusion of finite sets, which the library
states without an operator parameter: a nonempty set of lengths has a least
element (lemma `Least`), and the shortest prefix that is not honest gives the
contradiction.

The three refinements say the most. `ContractKept` has no hypothesis on the number
of processes: what two servers do to one file between the statements of a call is
the business of neither callers nor auditors, with the exceptions of section 4.
`QuotaKept` and `RegisterPromiseKept` do the same for the limiter and the
authorization server, so that each of them could be read as its abstract module
alone.

Every safety property that a passing run checks, and every refinement, is the
subject of a theorem. Only model-checked: the liveness properties `NoStarvation` and `CallsEnd`, since
liveness and `ENABLED` are beyond the proof system, as is what a recursive
definition computes.

## 6. What is not modelled

- *The SDK*: its bearer check (a call may bring any token that has been usable,
  and the pipeline looks it up again), its endpoints, PKCE, redirect and resource
  checks, and the JSON schema of the tools, which is the set `Accepted`.
- *Cryptography*: JWT signatures, digests, secret comparison and HMAC are what
  they promise.
- *Session ids and `reconstruct`*: a session id is `mcp-` and the id the client
  chose for its request; no step reads it, it only says which events are printed
  together. `audit.py:128` limits how many.
- *Data*: the types, lengths and control characters of `_validate_inputs` are one
  field of a request; float rounding, JSON encoding, redaction, wording of errors.
- *A commit that fails, and the creation of the schema*: a transaction that has
  its lock is taken to commit.
- `config.py` is read before anything runs; `cli.py` calls one modelled operation
  per command and keeps no state; `benchmark.py` and `Gateway.direct` measure
  latencies; the demos and tests are drivers, read for what they promise.

## 7. What is left

`Server` and `StoreConnection` meet in the faults: a statement that `Faulty` lets
fail is one that `StoreConnection` shows failing for a reason. A composition in
which every statement of `Gateway` goes through a connection would remove the
constant, at the price of a state space an order of magnitude larger. A rollback
in the store, and one transaction around the tail read and the insert, would make
`QuietCallsRecorded` and `IntactChainVerifies` hold; the models are where to try
such a change first.

Of proofs, what would say most next is that `Gateway`'s own view of the store is
the one `StoreConnection` and `OAuth` have: that a set of usable tokens that only
shrinks (`NothingRevives` is the half of it that concerns single rows), and
statements that succeed or fail as a whole, are refinements of those modules under
a mapping, instead of an agreement a reader checks.

## 8. Running it

    tlc -config Server_three.cfg MCServer.tla
    tlapm ServerRefinement.tla

`PROJECT.json` lists for each run its module, configuration and properties, for
each property a seeded fault, and for each definition the lines it translates.
