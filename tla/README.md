# A TLA+ model of the Inference Exchange

Inference Exchange is a market for model inference: consumers send chat requests
to a coordinator (FastAPI, `src/inference_exchange/coordinator`), which relays
each request over a WebSocket to one of the connected providers
(`ocip_agent`, `inference_exchange/provider`), charges the consumer and credits
the provider in a SQLite store. Coordinator and agents are asyncio event loops:
handlers and socket tasks interleave only at their awaits, and what happens
between two awaits is atomic. The specifications here are cut at exactly those
awaits, at the commits of the database, and where a process can stop.

## Inventory

| component | state | operations | hard behaviour | correct when |
|---|---|---|---|---|
| Provider hub (`provider_hub.py`) | providers with load and quarantine, response queues, request-to-provider map, billing callbacks, pending queue, affinity | register, disconnect, quarantine, select, enqueue, dispatch, clear, send, Done/Error/chunk, heartbeat | dispatch tasks race fresh requests, clears, timeouts; late or repeated answers; heartbeats overwrite the load | no waiter is lost, order is kept, at most the response queue of a failed encryption is left behind, one charge at most |
| Chat relay (`routes_inference.py`) | one coroutine per request, its `request_outcomes` row | balance check, route or fail fast or queue, encrypt, send, retry, stream or collect, time out | four awaits, each of which another task may use; a client that leaves a stream before or after its first iteration; a send that fails after it reached the provider; a key that cannot be encrypted to | every accepted request ends; refused is never charged; completed means charged |
| Confidential relay (`routes_confidential.py`) | one coroutine per request on the same hub | route or refuse, send, stream or collect, charge at the end | the handler charges, not the Done; a cancellation, an error or a timeout just before the charge | a collected response is charged if it was served, a stream if it came to any end its consumer was told of; nobody else is |
| Socket task (`main.provider_websocket`, `provider_registration.py`) | handshake phase, guard count | authenticate, register, loop, clean up | revocation, claim or suspension during the handshake; many exits from the handshake | nobody with a dead credential is routable, no place in the guard is lost |
| Operator controls (`operator_controls.py`) | pause, limit, slots per account, sign-up switch | acquire, release, update, `run_guarded` | release in a generator that may not run or run early | counters are the held slots, admissions obey the limit in force |
| Ledger (`store.py`) | accounts, transactions | sign-up, grant, charge, delete, development reset | post-pay: checked before, charged after; payer deleted in flight; rounding | accounts agree with transactions, overdraft is bounded |
| Provider accounts (`store.py`, `routes_provider.py`, `routes_admin.py`) | users, suspensions, tokens, nodes | create, claim, enroll, revoke, suspend, delete | caps over sliding windows, deletion against claims, sweeps over several sockets with awaits in between | nodes have owners, caps hold, revoked connections leave |
| Sessions and keys (`routes_auth.py`, `oauth_github.py`, `store.py`) | users, session versions, tokens, API keys, OAuth state, allowlist | sign up, in and out, GitHub callback, suspend, ban, delete, create and revoke keys | a version raised while a request runs or a sign-in is at GitHub; deletion to be rid of a ban; restarts that change secret and allowlist | a dead session never revives, a suspended account starts nothing, only administrators operate |
| Attestation (hub, `main.attestation_challenge_loop`) | open challenge, its time, status; position of the loop in its round | challenge, answer, time-out | late answers, a send that stalls the loop and the checks with it | a passed status has recent evidence, an honest provider is not degraded, nobody escapes a round |
| Request outcomes (`store.py`, `dependencies.py`) | status of each request's row | save, amend, interrupt at restart, prune, delete with the account | restart between charge and completion; retention by age and by count; rows that outlive their owner | completed means charged, nothing stays open over a restart, settled rows stay as they are |
| Routing and reputation (hub, `matching/`, `reputation.py`) | affinity table, outcomes per connection | score, select, explain, remember, record | a remembered connection that is gone, full or too dear; three ways of choosing; averages | constraints are hard, refusals right, the winner undominated, streaks decide |
| Matching strategies (`matching/strategy.py`) | orders, offers, remaining slots of a round | greedy, batch | slots that run out, orders with few choices | nobody is overdrawn, nobody waits in vain |
| Throttles (`rate_limiter.py`, `routes_auth.py`, `routes_provider.py`, `provider_registration.py`) | token buckets, sliding windows | allow, note, drop the old | bursts at a boundary, refusals that must not count, full tables | bursts and windows are bounded, a refusal costs nothing |
| Throughput (`tps_tracker.py`) | estimate, moving average, extremes | create, measure | the first measurements, hardware names that match several rows | speeds are plausible |
| Event bus, audit log, country counts (`event_bus.py`, `audit_log.py`, `country_activity.py`, `main.py`) | history, feeds, hash chain, two days of counts | publish, subscribe, log, record, expire | browsers that go, lines that fail, repeated completions at midnight, restarts | feeds have no gap, a lost line shows, small counts do not |
| Price collection (`price_collector.py`, `store.py`, `routes_exchange.py`) | cache, table of snapshots, due times | fetch, store, prune, sleep, show | each part of a cycle may fail, jitter, restarts | current prices are in the table, old ones leave, known ones stay |
| Model capabilities (`capability_resolver.py`) | cache of the hub's answers and failures | look up, merge | the hub is down or answers by half | known facts stay, an outage is forgotten, the hub is not hammered |
| End-to-end sessions (`shared/e2e.py`, `handshake.py`) | keys, sequence numbers | handshake, encrypt, decrypt | lost, repeated, reordered, damaged messages | read as said, a refused message leaves no trace |
| Client libraries (`confidential_sdk.py`, `ie_sdk.py`, `shared/crypto.py`) | cached agent key, call counter | discover, seal, post, fall back, open | an agent restarts with a new key while a client holds the old one; lines in pieces | only the discovered agent serves, the reply is readable and in order |
| Managed agent (`ocip_agent/agent.py`) | connection, request tasks, heartbeat count, server process, health monitor | connect, serve, cancel, beat, restart, exit | tasks and monitor against losses of connection and server, kicks, revocation, interrupts | answers or is silent for good, reports its real load, recovers, leaves nothing behind; only restarts that start nothing add up |
| Legacy agent (`provider/agent.py`) | connection, thread-pool requests, counter | connect, serve, beat | requests outlive the connection | the counter is what runs, stale load fades |
| Deployment and maintenance (`scripts/`, `Store._migrate`) | database, launcher, backups, service | deploy, migrate, rehearse, roll back, consolidate | everything can stop between two steps; the coordinator goes on charging | the service comes up, identities stay apart, books reconcile |

Interactions: a handler of the relays calls the hub synchronously, waits on
an event (queue) or a response queue (relay), and awaits one WebSocket send. The
socket task calls the hub for every message of its provider. Done messages run the billing
callback, which calls the Store, and schedule a dispatch task. Operators' handlers
change the hub, the controls and the accounts, and await the close of each
socket they disconnect. All of it shares memory; the Store has a lock and one
transaction per operation, and other processes (scripts, the agents' hosts) share
only the database file or the wire.

### Not modelled

* Web frontend: a client of the API; it keeps no state the coordinator relies on.
* Infrastructure files, the native launcher and hardening, certificate parsing and
  App Attest: configuration and pure cryptography.
* Notebooks: analyses of exported or simulated data, nothing the program runs.
* Metrics: independent counters that nothing reads.
* The model catalogue and most of the exchange's read API: tables, string
  normalisation and projections of state that is modelled elsewhere. The
  reference-price views are in `ReferencePrices`.
* The in-memory billing and authentication: test doubles of the Store.
* Inference servers and model files: the managed agent sees a process that is
  loading, up, hung or dead.
* Handshake routes: today they list nothing and change no state.

## Modules

```
ProviderHub --> InferenceRelay --> MCInferenceRelay                     ChatContract
                  \--> ConfidentialRelay --> MCConfidentialRelay        (abstract)

AccountIds --> OperatorControls, Ledger --> Spending --> MCSpending

ProviderAccounts --> ProviderAdmission, Sessions --> MCAccounts

Attestation --> MCAttestation

RequestOutcomes, Deployment, Consolidation --> MCStore

ProviderAgent, LegacyAgent --> MCAgents

MatchScore --> Matching, Routing \
Throttles, Throughput, Telemetry, CountryActivity, EndToEnd,
ConsumerSdk, ReferencePrices, ModelCapabilities ------------> MCMarket
```

The theorems about a module are in

```
Relay_proofs         InferenceRelay, ConfidentialRelay
Spending_proofs      Spending, CountryActivity
Accounts_proofs      ProviderAdmission, Sessions
Attestation_proofs   Attestation
Store_proofs         RequestOutcomes, Deployment, Consolidation, ReferencePrices
Agents_proofs        ProviderAgent, LegacyAgent, Telemetry, EndToEnd, ConsumerSdk, Throttles
Market_proofs        Throughput, ModelCapabilities, MatchScore, Routing, Matching
FoldLemmas           numbers, sets, folds and sums, for all of them
```

`ProviderHub` has the hub's variables and one action operator per method; it has
no specification of its own, because a method runs inside a handler's step.
`InferenceRelay` adds the handlers' program counters and composes them:

| action | code |
|---|---|
| RefuseUnfunded, RouteDirect, EncryptionFails, FailFast, Enqueue, RefuseQueueFull | `_route_and_dispatch` up to its first await |
| QueueTimeout, ResumeCleared, ResumeAssigned, AssignedEncryptionFails | the end of `wait_for(pending.event.wait())` |
| Deliver, SendCompletes, RetryElsewhere, RetryEncryptionFails, SendFails | `await hub.send_to_provider` and both of its ends |
| StartBody, AbandonBody, ConsumeChunk, Consume, RelayTimeout, CloseStream, CancelStream | `_stream_response`, `_collect_response` |
| HandleDone, HandleError, IgnoreError, HandleChunk, HandleHeartbeat, ConnectProvider, DropProvider | `provider_websocket` |
| ForceDisconnect, Quarantine, ClearPending | operators' handlers |
| TryDispatch | the `_try_dispatch_queued` tasks |

`Serves` stands for the hard constraints (model, price, trust level): a provider
that meets them and has a free slot may win, because the soft score can favour
any of them; `Routing` has the score. The balance check is a
possible refusal here; `Spending` has the balance. Providers that claim the
confidential level and are not admitted are never selected and are left out.

A dispatch is its loop: `Examine` is one turn of it, `Rounds` what is back in the
queue after so many, `DispatchQueued` the whole task. A chunk is a message like the
others, because each restarts the wait of 120 s. A provider in `BadKeys` registered a
key of the right length that `encrypt_json` cannot use. The exception leaves
`_route_and_dispatch` in three places: before the first send and before the retry the
response queue exists already and stays for ever (`EncryptionFails`,
`RetryEncryptionFails`), after the wait in the queue it does not exist yet
(`AssignedEncryptionFails`). A client of a collected response that leaves is
not modelled, since the handler runs on, nor is a shutdown of the server.

`ConfidentialRelay` puts the requests of `/v1/confidential/infer` on the same hub:
RouteConfidential and NoProviderAvailable are `_relay_confidential` up to its await
(no queue, no retry), ConfidentialSent the end of the send (no callback),
StreamWaits and SettleStream `_stream_confidential`, Collect
`_collect_confidential`, HandleFinish a chunk with a finish_reason, which ends this
relay and not the chat relay. Everything else is shared with `InferenceRelay`, whose
invariants are proved again with both kinds of requests on the same providers. The
agents in this repository never send a finish_reason; the handler accepts it from
any provider. The coordinator encrypts nothing here, so `BadKeys` concerns chat
requests only.

`ChatContract` is what the relays promise about money: a request is refused,
concluded or left alone, charged at most once, and never charged when refused.
`ImplementsContract` is the refinement; `Told` maps verdicts to what the consumer
was told.

`OperatorControls` and `Ledger` are the two halves of what an account may do;
`Spending` composes them with the stages of a request in `run_guarded`. It
sees the relay through what the relay is shown to do: at most one charge, and none after the
generator was closed. Money is in micro-USD with the real constants (minimum
charge 100, fee 10 percent, grant 10 USD).

`ProviderAccounts` has the users, tokens and nodes; `ProviderAdmission` adds the
sockets, the registration guard and the handlers that sweep over sockets. A
credential, its billing account and its node are created together and are one
name. `Sessions` has the accounts from the other side: session versions, tokens,
keys, the GitHub callback cut at its await, suspensions with their audit trail,
bans kept by identity, the allowlist, and restarts that may change secret and
allowlist. Throttles are refusals that may happen at any time in both.

`Attestation` is the challenge loop, the three attestation methods of the hub and the
agent's side. Instead of stamps it keeps ages, which `Tick`
increases. A wake-up or an answer that is due happens before the next tick. Taken
as given: `time.time()` does not jump, a sleep ends on time, and the
hub's methods do not raise. `Honest` providers run `ocip_agent` and
have what they claim; `provider/agent.py` never answers a challenge and is
among those that are not `Honest`.

`RequestOutcomes` sees the relay through its calls of the Store: a row and a charge
per request, the process that may stop between a charge and the amendment, the
start that marks open rows as interrupted, and retention by age and by count.

`Deployment` has `deploy_pinned_coordinator.py` step by step, the launcher,
launchd, the schema migration of a starting Store (an ALTER commits by itself,
the assignment of principals is a transaction) and the two scripts that rehearse
it. A process may stop between any two steps. `Consolidation` has the script that
moves the legacy accounts into one, from the plan over backup and rehearsal to
the commit, with the coordinator charging, issuing and revoking in between.

`ProviderAgent` is the managed agent: `Closes` with every kind of close and
`AfterClose` with what the run loop makes of it, one task per request with its
finally clause, the health monitor with restart, backoff and the limit on
restarts, and `Exits` and `Interrupt`. A server that was killed and is not reaped yet
("dying") counts as running for `stop` and `start`, whichever restart killed it:
`RestartStops` may then start nothing, and `futile` counts how often in a row it did. `LegacyAgent` is the other one.

`MatchScore` is `compute_score`; `Matching` the two strategies on rounds of orders;
`Routing` the hub's choice: the greedy strategy with one order, the affinity table,
the three ways a request comes by, `explain_no_match` and the reputations. A request
from the queue is given a connection by one step (`Dequeue`) and sent by a later one
(`SendQueued`), as the event of the code is set by one task and waited for by another.
Scores and averages are fixed-point numbers that are exact for the values and the
number of steps the bounds allow, so no rounding decides a comparison.

`Throttles`, `Throughput`, `Telemetry`, `CountryActivity`, `ReferencePrices` and
`ModelCapabilities` are each one file of the coordinator (with its table or its
handler); `EndToEnd` is `shared/e2e.py` and the handshake with symbolic cryptography
over a relay that may lose, repeat, reorder, damage and mislabel; `ConsumerSdk`
is both client libraries against agents that come, go and restart.

Operators named "Variant of ..." are never used by a specification: each is the definition
it precedes with a plausible bug, to see that a property notices it.

## Runs

Twelve runs; each cfg says its bounds. `CHECK_DEADLOCK FALSE` throughout: a
finite set of requests, sockets or ticks ends, and then the system stops.

Components that share no state are checked together with a variable that says
which one moves (`scenario`, `focus`, `agentFocus`, `marketFocus`), chosen at the
start: the state space is the sum of theirs. A property with a name of its own in
such a run is a conjunction of the parts stated in the component's module.

| run | bounds | properties |
|---|---|---|
| relay_contention | 3 collected requests, 1 provider with 1 slot and one with a bad key that comes while somebody waits, queue of 2; the agent may report one task of an earlier connection | NoLostWaiter, ClearedIsNeverServed, FifoDispatch |
| relay_retry | 1 streamed request, two providers out of two with good keys and one with a bad one, 2 answers each, 1 unread chunk, 3 unread messages, charges may fail | NothingIsLost (TypeOK, NoStrandedRelay, NoResidue, CompletedIsBilled), ImplementsContract |
| relay_liveness | 2 requests (1 streamed), 1 provider, 1 unread chunk of the collected one | EveryRequestEnds, LoadRecovers |
| confidential | a streamed and a collected confidential request, 1 provider, 1 unread chunk of the streamed one | ChargedAtTheEnd, EveryRequestEnds |
| spending | 3 requests of one account, limits 1 and 2, prices 7 and 10,000,009 micro-USD, development | LimitsHold (TypeOK, SlotsAreHeld, AdmissionObeysControls), AccountsReconcile, BalancesAddUp, OverdraftIsBounded |
| accounts | revocation: 1 owner, 3 sockets on 1 credential, 2 sweeping handlers, guard of 2, 1 tick; enrollment: no sockets, 2 owners of whom one may be suspended, 3 credentials, 2 a day, a day of 2, 2 ticks; sign-in (no requests) and requests (no GitHub): 2 users, 2 e-mails, 1 identity, 2 tokens, 2 versions, 1 key, 1 browser, 1 request, 2 ticks | AdmissionIsTidy (TypeOK, PendingIsCounted, RevokedAreSwept), OwnershipHolds (NodesHaveOwners, EnrollmentIsCapped), RevokedLeave, AccountsAreInOrder (types, SuspensionEndsSessions, KeysHaveOwners, BanIsNotShed, AuditTellsSuspension), OperatorsDecide (RevokedStayRevoked, SuspendedStartNothing, PausedCreatesNobody, OnlyAdminsOperate) |
| attestation | an honest, an arbitrary and a confidential provider; interval 6, check 2, timeout 3, a send stalls 1, evidence takes 2 | HonestIsNotDegraded, EvidenceIsFresh, RoundSkipsNobody, EveryoneIsJudged |
| store | history: 3 requests in order, one at a time started and not yet recorded, 2 rows, retention of 1, 2 ticks, 1 restart; deployment: 2 credentials, 3 principals, 1 deployment, 1 stop; consolidation: 2 legacy and 2 stable accounts, 3 transactions, 2 runs of the script | HistoryIsTrue, DeploymentIsSafe, ConsolidationIsExact, StoreProgresses |
| agents | managed: 1 request id, 2 connections, 3 crashes, a limit of 3 restarts (5 in the code); legacy: 3 jobs, 3 connections | AgentIsTidy, LegacyLoadIsTrue, AgentsRecover |
| market | rounds of 3 orders and 2 offers; 2 connections, one with up to 3 outcomes, or 1 with 5; windows and buckets of 2, at most 4 to 7 attempts let through; 5 measurements; 3 events, 2 runs; 3 completions in order over 3 days; 2 sessions of 2 messages, read in one; 1 agent of each kind with 2 keys, 2 calls of 2 tokens; 4 models, 5 ticks, 1 restart; 2 repositories, 3 ticks | MatchingIsFair, RoutingIsSound, SpeedIsPlausible, ThrottlesHold, TelemetryIsComplete, CountsStayPrivate, ChannelIsFaithful, CallsAreFaithful, PricesAreKept, CapabilitiesAreFound, NothingLingers |
| relay_done_after_cleanup, confidential_failed_charge | as small as the case allows | BilledAfterCleanup, FailedIsNotBilled: the code does not do what a comment or a doc says (below) |

What the named conjunctions of the new modules say:

* HistoryIsTrue: CompletedIsCharged, OpenRowsAreOfThisRun, SettledStaySettled,
  HistoryIsBounded, OldestLeaveFirst.
* DeploymentIsSafe: PrincipalsAreSeparate, ServesMigrated, BackupPrecedesMigration,
  RehearsedRowsSurvive, IdentitiesAreStable, VerdictsAreTrue.
* StoreProgresses: OldRowsLeave of the history and ServiceComesUp of the deployment.
* ConsolidationIsExact: BooksReconcile, AttributionIsRecoverable, BackupIsExact,
  AppliedAsApproved.
* AgentIsTidy: ExitIsClean, ReportedLoadIsReal, RestartsNeverAddUp,
  CancelledStaySilent. AgentsRecover: AgentRecovers (EveryRequestIsAnswered, Reconnects,
  RevokedAgentExits, ServerRecovers) and StaleLoadFades of the legacy agent.
  LegacyLoadIsTrue: LegacyTypeOK, CounterIsExact.
* MatchingIsFair: SlotsAreNotOverdrawn, NobodyWaitsInVain, EarlierChooseFirst,
  ConstrainedAreNotSqueezedOut. RoutingIsSound: ConstraintsAreHard,
  RefusalIsRight, WinnerIsUndominated, SessionIsRemembered, StreaksDecide.
* ThrottlesHold: BurstIsBounded, WindowsAreKept, RefusalsCostNothing,
  OnlyTheOldestIsForgotten. TelemetryIsComplete: FeedsAreGapless, LostLinesShow.
  CountsStayPrivate: SmallCountsAreSuppressed, NothingCountsTwice,
  PublishedStandsStill. NothingLingers: GoneFeedsEnd, OldDaysLeave.
* ChannelIsFaithful: NumbersAreNotReused, RefusedLeaveNoTrace, ReadAsSaid.
  CallsAreFaithful: NumbersAreFresh, OnlyTheDiscoveredServes, PlacesAreKept,
  RepliesAreReadable.
* PricesAreKept: HistoryHoldsCurrent, HistoryShowsTheLatest, KnownPricesStay,
  CheapestIsNamed, OldPricesLeave, PricesAreRefreshed. CapabilitiesAreFound:
  HubIsNotHammered, OutageIsForgotten.

Why the bounds are enough: a race in the relay needs a request, the request that
takes its slot and one more to see the order; a billing race needs one request
and the two providers that may both have it; a slot race needs two requests of one
account and a third that finds the limit lowered; a sweep needs two sockets to
have a rest list, and a third to arrive meanwhile. The prices are one below the
minimum charge and one a little above the grant, whose fee is rounded. The
attestation's times keep the order of the real ones (10 s < 30 s < 300 s) with the
timeout off the grid of the checks; they meet Stall + Reply = timeout exactly,
where an honest agent is only just in time. Retention needs one row more than the
table holds and two of one age; a migration needs two credentials to mix up their
principals, and a stop anywhere; a consolidation needs a transaction before,
between and after the steps of the script. The agent's server may crash three
times, which is more than one round of the monitor's restarts counts, and a limit of
three is reached by restarts that start nothing; a second
connection meets the tasks of the first. A window or a bucket needs to fill, to
refuse and to slide; a batch needs an order with one choice, an order with several
and one that is left over; a reputation needs five outcomes before it can degrade.

Bounds that the program does not have: `MaxAnswers`, `MaxChunks`, `Leftover`, `MaxClock`,
`MaxTime`, `MaxSessionTime`, `MaxPriceTime`, `MaxHubTime`, `MaxDay`, `Sweeps`,
`MaxEpoch`, `MaxRuns`, `MaxDeploys`, `MaxStops`, `MaxScriptRuns`, `MaxConns`,
`MaxCrashes`, `MaxLinks`, `MaxTokens`, `MaxVersion`, `MaxOrders`, `MaxOffers`, `MaxSent`,
`MaxOutcomes`, `MaxMeasured`, `MaxEvents`, `MaxCompletions`, `MaxSaid`, `MaxDamaged`,
`MaxKeys`, `MaxCalls` and the sizes of the sets. The MC modules restrict further
what they say they do (order of interchangeable names, number of outcomes, one failing
step per price cycle). The confidential run has
no chat request next to its two: three requests are within TLC's reach (11 million states,
no error) but not in minutes, and the theorems cover the mix. Symmetry is
used in two safety runs: over the requests of relay_contention, of which none is
streamed, and over the providers of relay_retry with good keys, which are alike. Both
have a CONSTRAINT, stated in `MCInferenceRelay`: `BadKeyComesLate` lets the provider
with the bad key come while somebody waits, and leaves it idle and in routing;
`TwoConnect` lets two of the three providers connect, runs a dispatch before the next
is scheduled (nothing waits in that run), and stops at three unread messages.

`LongestFetch` is an assumption rather than a bound of the search: the code gives each
operation of httpx 15 s and tries twice, which limits no fetch as a whole, so the ages
of `PricesAreRefreshed` hold while no fetch takes longer than it. The lengths of
sleeps are those of `run_loop`. A fetch of the live source keeps the whole cycle
waiting, the prices of the code with it.

Fairness. `FairSpec` of the relay is weak fairness of the steps the event
loop owes: timers (`wait_for` in the queue and in the relay), a send that ends
(the WebSocket keepalive closes a dead socket, so the send raises), the body of a
response that was returned, the end of a stream, and scheduled dispatch tasks. The
wait of a relay is one step with two faces: what is in the response queue is read, or
120 s pass with nothing in it. Each chunk starts it anew, so a provider that
sends chunks for ever keeps its request open for ever, and that is what
`EveryRequestEnds` says: a request that was accepted ends, or its provider goes on sending it
chunks. Nothing is assumed of providers, operators, or of a consumer beyond that a write to
it ends. `HeartbeatSpec` adds that a connected agent, which reports
its load every ten seconds, reports it accurately when its work does not
change. `ConfidentialFairSpec` owes the confidential handlers the same. The
sweeping handlers of `ProviderAdmission` continue, since a close
ends at the latest when the keepalive fails. `FairSpec` of the
attestation is weak fairness of time, of the loop, of the end of a send
and of an honest agent's answer. In `RequestOutcomes` the cleanup loop prunes and a started
charge completes; in `Deployment` a started process goes on and launchd starts a
service that is down (an assumption about launchd's KeepAlive, which the plist
asks for). `AgentFairness` is the event loop, timers of httpx and websockets, a
server that loads or breaks, and a coordinator that closes a connection with a
revoked credential; that the process itself is restarted after it ends is launchd's
and is not assumed. Of the legacy agent: its heartbeat and the end of its thread-pool
requests, which have timeouts. Feeds forward what is in their queue, and the loop of the counts expires
old days. Prices and capabilities are judged by when something is due, without fairness.

`HonestIsNotDegraded` has the premise Stall + Reply <= CHALLENGE_TIMEOUT, because
`send_attestation_challenge` starts the clock before it awaits the send. The
code does not enforce it: a send on a stalled socket may hang until the keepalive
gives up (20 s and 20 s by default), and `_handle_attestation` runs up to four
subprocesses of 5 s each, so an honest agent behind a slow link can be degraded
until the next round. The property says what holds when it is met.

### What the runs found

* `relay_done_after_cleanup`: "InferenceDone billing must fire even after the
  response queue is cleaned up" (`provider_hub.py:410`), but
  `remove_response_queue` drops the billing callback with the queue, so a
  request whose consumer left is served and not charged.
* `confidential_failed_charge`: "A failed request is not billed" (`docs/status.md:78`);
  a confidential stream that ended with an error or a timeout is charged like
  any other, because the charge follows the loop whatever ended it
  (`routes_confidential.py:229`). The collected form is not. The sentence before, "If
  the consumer cancels a stream, the request is billed in full when the provider
  finishes", is true of neither path: a cancelled confidential stream never reaches its
  charge (`ChargedAtTheEnd`), and a cancelled chat stream is the case above, as
  `docs/design-review.md:405` knows.

Met on the way, visible in the models and without a run of their own:

Relay, billing and accounts
* "A balance can go below zero by the cost of one request"
  (`docs/requirements/billing.md:43`): it is one request per slot, and more in the
  window after a slot's release. `OverdraftIsBounded` is the true bound.
* A charge to an account that was deleted meanwhile credits the provider and
  debits nobody (`billing.md:5`, `store.py:543`).
* A request whose wait timed out stays in the queue, so a provider that frees up can be
  given to it and that dispatch serves nobody (`provider_hub.py:390`). A queued request can be
  sent to a provider that was quarantined (`routes_inference.py:392`) or whose last slot was
  taken (`provider_hub.py:398`) after the dispatch.
* A provider may register a key that only has the right length
  (`provider_registration.py:136`). A request routed to it, at once or on the retry, ends in
  an error and leaves its response queue in the hub for ever
  (`routes_inference.py:528`, `routes_inference.py:568`); nothing else is left.
  `NoResidue` has this one exception.
* A provider that sends a chunk every two minutes keeps a request open as long as it likes
  (`routes_inference.py:670`, `routes_confidential.py:187`).
* A slot is not released if the client is gone before the stream's first iteration
  (`operator_controls.py:116`); a Done handled while the send is still awaited finds
  no callback and is not charged (`routes_inference.py:629`).
* A late error of a first provider can leave a row "failed" whose request is charged
  later; in-flight requests of a deleted user record their rows again.
* A development coordinator mints a funded account with an anonymous key even
  while sign-ups are paused; a connection without a token that is in its handshake when
  the first token is created still registers (`main.py:419`). Runtime controls are
  back to the environment's after a restart.

Routing
* A dispatch from the queue and a retry choose without reputations, and a retry without
  the session; reputations belong to a connection and are lost when it reconnects; a
  disconnect can raise a score (`reputation.py:54`, against
  `docs/requirements/providers.md:77`).
* The batch strategy is neither globally optimal nor Hungarian, as its docstring
  says; it can match an expired order. Rounds of several orders are not on the live path:
  the hub gives the greedy strategy one order at a time, and MatchingIsFair is about the
  strategies as the functions they are.
* The hardware table gives an apple-m4-pro the row of the apple-m4, because the
  first prefix that matches decides; nothing reads the tracked speed for scoring.

Agents and clients
* The health monitor of the managed agent ends silently on httpx errors it does
  not name; its limit of restarts is reached only by restarts that find a killed server
  not reaped yet and start nothing (`agent.py:127`), since a start that works resets the
  count and one that fails ends the monitor; after giving up it serves until the
  connection closes. A server status other than 200 is answered with an empty Done.
* The late finally clause of a request can remove the entry of the same request id of
  a newer connection.
* Requests of the legacy agent outlive the connection and are reported to the next
  one; it takes no close code as final, and never seals tokens, so the confidential
  relay drops them.
* The confidential client keeps the agent key it got first and falls back on
  exceptions only; a request that failed half-way may be served twice.
  `ie_sdk.chat` hands over an empty text for a sealed collected reply.

Around
* The bundled price list is stamped with the time of each fetch that failed and then
  counts as fresh; jitter below the time to live makes a wake-up fetch nothing; withdrawn
  models stay in the cache.
* Looking up capabilities blocks the event loop at a registration; an answer by
  halves is kept for the life of the process.
* The chain of the audit log starts again at each start, and only attestations are
  logged. A browser that has gone is noticed at the next event.
* Comments in two scripts say that a start replaces the default key; it keeps it.

## Proofs

TLAPS checks, for every value of the constants that meets the named assumptions
(TLC evaluates them in every run). Where a property is not inductive it follows from
an invariant that is (`...IInv`), in three steps: Init implies it, every step keeps it, it
implies the property.

The relays (`Relay_proofs`)

* `Invariance` (RelayIInv); `NothingLost` (from `NobodyStranded`,
  `NothingLeftBehind`, `CompletedBilled`), `RelayImplementsContract`, and of the
  queue `NobodyLost`, `ClearedNeverServed`, `DispatchIsFifo`. A single conjunct is
  not inductive: that a waiting consumer is
  reachable needs to know that its request stays mapped until the first message that is
  no chunk (RelayInv), which needs that a woken request has a provider (WokenInv); that a
  charge happens once needs that a callback exists only between the send's end and
  the cleanup (BillingInv, ResidueInv); that a refusal is not charged needs when
  verdicts are given (VerdictInv). The queue has an invariant of its own, QueueInv:
  a request is in the queue once, unwoken and not on its way, or it is woken; only
  the woken are assigned or cleared. `DispatchInOrder` says what the loop of a dispatch
  comes to, by induction on its turns: the first request that can be taken leaves the
  queue, the others stay in order, and if there is none the queue is as it was; that is
  `DispatchIsFifo`, and `WithoutElements` says what it leaves in the queue.
  Every other step moves a request in one of four ways (`Moves`) that keep the invariant.
* `ConfidentialInvariance`, `ConfidentialCharges`,
  `ConfidentialImplementsContract`. A step that a confidential
  request shares is a step of `InferenceRelay` and its lemmas apply (`SharedOrOwn`);
  the six steps of its own are looked at one by one. That a Done cannot charge
  needs that no confidential request ever has a callback, and that one is charged when
  due and no other that it has none before its handler ends (UnchargedInv).

Money and counts (`Spending_proofs`)

* `SpendingInvariance`, `LimitsAlwaysHold` (from `SlotsCounted`,
  `AdmissionsObey`), `BooksBalance`, `OverdraftBounded`. The bound is not inductive: a
  charge needs the credit that was there at the admission. `CreditLeft` carries it:
  balance + MaxCost * Spare > 0, where Spare is what the limit leaves beyond the
  requests that hold a slot and are not charged. An admission needs a positive balance
  and takes one from Spare; a charge moves one unit from the balance to Spare; a
  charge after the release of the slot is counted by `late`.
* `AccountsReconciled`: the fold over the transactions that an account's balance is compared
  with grows by what each operation appends, and forgets what a deletion removes.
* `CountsAlwaysPrivate` (ActivityIInv): the counters of a day say no more than
  the history of completions does, so a published route has its requests and its
  consumers; a completion of today or yesterday is in the set that catches repetitions,
  so none counts twice, over midnight too; while the day lasts the counters are not
  what is published.

Accounts and providers (`Accounts_proofs`)

* `AdmissionTidy` (from `RevokedNeverStay`, `PlacesCounted`) and
  `OwnershipAlwaysHolds` (from `OwnersStay`, `EnrollmentCapped`).
  `RevokedAreSwept` is inductive with the type invariant, because the handler that
  makes a credential bad takes the list of its sockets in the same step and
  skips only those that left (`SweepForgets`). The cap on 24 hours holds for every
  window: one that the new credential falls into has only others that `IssuedToday`
  counted (`EnrollKeeps`).
* `AccountsAreInOrderHolds`, `OperatorsDecideHolds` (with
  `RevokedStayRevokedHolds`). SessionsIInv adds that no token has a higher version
  than its user (TokensAreOld), that rows carry their e-mail and share no identity
  (RowsAreUnique), and that the audit trail is silent on ids not given out yet.

The attestation (`Attestation_proofs`)

* `Invariance` (AttestationIInv), `NobodySkipped`, `HonestStay`,
  `EvidenceFresh`. That a round finds no open
  challenge needs that whatever is open while the loop sleeps is at least as old as
  the sleep (RoundInv), and that the interval is longer than the timeout. The
  bound on the age of evidence needs to know in which round it was given
  (EvidenceInv), and how many sends a round has behind it, which is a fact on
  cardinalities (`Counting`, `StallMonotone`).

The database (`Store_proofs`)

* `HistoryIsTrueHolds`. That a completed row is charged
  needs that the charge comes first (ChargeComesFirst) in the same handler. Its
  parts `HistoryAlwaysBounded` and `OldestAlwaysLeaveFirst`: a step leaves the table alone,
  prunes what it has extended, or deletes an owner (TableStep); the rows are totally
  ordered by age and id, so the oldest of those that are kept has all the others
  before it, which are fewer than the cap, and what goes has as many before it as the
  cap.
* `DeploymentAlwaysSafe`, with `IdentitiesAlwaysStable` and `VerdictsAlwaysTrue`
  (DeploymentIInv): principals are separate and kept in the database as
  processes see it, open transaction included, and a migration at its n-th step has
  done the ones before (MigrationIInv); until there is a backup nothing of the new
  release is in the launcher or runs (BackupInv); each stage of the script knows what it
  wrote (StageInv); a rehearsal passes only with a principal for every credential and
  with the anonymous account, which stay (RehearsedInv).
* `ConsolidationAlwaysExact` (ConsolidationIInv): what the script has read at each of
  its stages (ScriptKnows) ends with a database that is the one of the plan, under
  the write lock; an account that was wrong goes on being wrong by the same amount
  (WrongStayWrong) and the principals' accounts are what their transactions say
  (StableAddUp), whatever the coordinator charges, issues and revokes between. The sums
  are over sets of transactions, by induction on their cardinality.
* `PricesAlwaysKept` (PricesIInv): nothing is due when a cycle of the collector
  ends, no sleep is longer than the longest and no fetch than the longest
  (CyclesInOrder), which bounds the
  age of what is shown and of what is kept; the prices of the code have the time of the
  last reading of theirs (StaticStamps); the cache is in the table; the fold over the history keeps for each
  day the last row up to each time.

Agents and clients (`Agents_proofs`)

* `AgentIsTidyHolds`, from AgentIInv, which adds the
  relation of the monitor's count of restarts to those that started nothing, and that
  open requests are unanswered.
* `LegacyLoadAlwaysTrue` (LegacyIInv): the counter is the number of running requests,
  of which there are finitely many, whichever connection they came by.
* `TelemetryAlwaysComplete` (TelemetryIInv): what a browser got, and then what is in its
  queue, is what was published since it came (Follows), also when the history it
  begins with was cut to its length (`LastOfNext`); the next line of the audit log carries
  the hash of the last line counted in this run (LinesAreCounted), so a line that is
  missing or changed breaks the chain.
* `ChannelsAreFaithful` (ChannelIInv): whatever became of its labels, a message carries
  what an end sealed under a transcript the provider signed (SealedByAnEnd), and an end
  has read the first numbers of its peer, in order (ReadInOrder); anything else on
  the wire does not open.
* `CallsAlwaysFaithful` (SdkIInv): the box of a call is for the cached key and only an
  agent that is listed with that key serves it (ServedIsDiscovered); lines are numbered
  and sealed as the agent that says them does it (LinesAreTheAgents).
* `ThrottlesAlwaysHold` (ThrottlesIInv): a list of attempts holds those of its window
  (Watched), a bucket has at most what the time since its last attempt gave
  (Covers), so what was let through in any window is bounded; a table of rows that are
  full forgets the oldest of them (`MoreThanPlaces`).

Routing and matching (`Market_proofs`)

* `SpeedsArePlausible`: the average stays between the extremes, whatever the estimate.
* `CapabilitiesAlwaysFound` (CapabilitiesIInv): a repository that was looked up is known
  or its failure is remembered, and a remembered failure is that of the last lookup.
* `RoutingAlwaysSound` (RoutingIInv): connections are in the hub once, scores are
  numbers, so there is a greatest and the winner has it, and each failure or success
  in a row takes a connection's rate by a fifth to its end (StreaksShow).
* `MatchingAlwaysFair` (MatchingIInv): the arrangement of the orders exists and
  has every order once, by induction on the set; a round is the fold of its steps,
  and what is fair so far (FairSoFar) stays so with the next order: what an order
  left free it did not want, and no later order gives a slot back.

`FoldLemmas` has what these proofs share. The provers cannot instantiate an induction
theorem with a predicate, but they can with a set: SetInduction says that a set of
numbers with 0 and the successor of each of its members has them all, and the other
lemmas (a least and a greatest member, a fold as a function of how much was folded,
sums over sets) follow from it, so folds and sums are proved about here and
not taken from TLC.

What some properties leave out. `RepliesAreReadable` exempts the streams of the
transport client, which passes a sealed line that it gets in two pieces through
unopened. `HubIsNotHammered` counts what is asked for a repository's config, not for its
base model and its vision files. `AccountsReconcile` and `BalancesAddUp` compare
balances with transactions, so a charge that debits nobody and credits the provider, or
a fee that is rounded wrongly in both, does not show in them.

Only model-checked: liveness, since fairness and ENABLED are out of the prover's
reach (EveryRequestEnds, LoadRecovers, RevokedLeave, EveryoneIsJudged,
AgentsRecover, NothingLingers, StoreProgresses).

## Plan

1. Done: relay, confidential relay, spending, admission, attestation, each with its
   theorems; the queue's three properties are proved.
2. Done: sessions, request outcomes, managed agent, legacy agent,
   consolidation, matching, routing, throttles, throughput, telemetry,
   country counts, end-to-end sessions, client libraries, prices, capabilities,
   deployment, each with its theorems.
3. Every safety property that a run checks is a theorem; what is left is liveness, which
   stays with TLC.
4. Left to model: the retrying inside httpx, the read-only API beyond prices.
