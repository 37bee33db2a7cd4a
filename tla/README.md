# Verification of the StockFlow ERP mock

TLA+ specifications of the ERP mock: a Go service that takes reservation and
release requests of a marketplace from RabbitMQ, keeps stock and reservations
in memory, publishes an outcome for every request, and can be told over HTTP to
misbehave. TLC checks the specifications on small instances; TLAPS proves
the safety invariants and action properties of the passing runs for all instances,
some of them under a named condition that a finding makes necessary.

## The system

| Part | State | Operations | Works with |
| --- | --- | --- | --- |
| Inventory domain and repository (`internal/domain/inventory`, `internal/storage/memory`) | map of stock items (available, reserved), map of reservations (SKU, quantity, status), one lock | `SetStock`, `Reserve`, `Release`, reads | called by the handlers (consumer goroutine), HTTP handlers and the metrics scrape |
| Idempotency store (`internal/storage/memory`) | results by key, calls in flight by key, one lock | `Execute` | three instances, wrapped around the handlers |
| Handlers (`internal/app`) | none of their own | reservation, release, failure simulation around both | repository, stores, failure mode |
| Failure mode (`internal/app`) | the current settings, one lock | `Get`, `Set` | read by the handlers before their delay and by the publisher wrapper again |
| Consumer (`internal/messaging/rabbitmq`) | the unacknowledged delivery | decode, handle, publish, ack, retry, dead-letter, nack | handlers, publisher, broker |
| Publisher and its failure simulation | AMQP channel, channel of confirmations | publish an outcome, a retry, a dead letter, and wait for the confirmation | broker |
| Dead-letter admin | AMQP channel, confirmations, a mutex | requeue, depth | called by HTTP requests and scrapes, shares the broker's queues with the consumer |
| HTTP API, metrics, configuration, `main` | ready flag, counters | routes, scrape, start, shutdown | all of the above |

What is hard to test here: steps of the consumer goroutine between which an
HTTP request changes stock or failure mode; callers of one idempotency key that
wait for each other outside the lock; an inventory change whose outcome cannot
be published; confirmations that arrive late, are refused or never come; a crash
or SIGTERM between any two of reserve, publish and ack; HTTP requests that work on
the dead-letter queue while the consumer refills it; a channel of confirmations
with room for one; retry counts; and Go's wrapping `int`. `PROJECT.json` lists each hazard at its line with the properties
that would notice it going wrong.

What makes each part correct: the counters of an item agree with its
reservations and every active reservation can be released (inventory); one
effective operation per key and nobody left waiting (store); one decision per
key, backed by the inventory (handlers); no request lost, no contradicting
outcome, retries counted, every request settled (consumer, publisher, process);
dead letters moved and neither lost nor copied, calls that return (admin);
counters that match what was published and reserved (metrics).

## Modules

```
Inventory ---- InventoryCapacity
    |
 Handlers ----------------+            OnceStore  <== implemented by ==  IdempotencyStore
                          +-- ErpService ----+
 Messaging ---------------+                  +-- Operations
    |  |                                     |
    |  +------------------ DeadLetterAdmin --+
 ConfirmChannel (INSTANCE) -------+

Proofs (each extends the one to its left and the component it is about):
 InventoryProofs -- HandlersProofs -- OperationsProofs -- OutcomesProofs --+-- DeliveryProofs -- AccountingProofs
 IdempotencyStoreProofs                                                    +-- CountersProofs
```

* **Inventory** - `stock` and `reservations` are the two maps of
  `InventoryRepository`. Each repository method holds the lock from its first
  look at a map to its last write, so each is one action. `SetStockError`,
  `ReserveError` and `ReleaseError` give the error a call returns, with the
  checks in the code's order; a call that fails changes nothing. Texts are
  trimmed by the function `TrimSpace`, as `normalizedIdentifier` does, so two
  spellings of an ID meet in one key. `AddInt` wraps at `MaxInt`.
* **InventoryCapacity** - adds the assumption under which no addition wraps, and
  the inductive invariant.
* **OnceStore** - what an idempotency store promises: per key one operation takes
  effect and every successful caller gets its result.
* **IdempotencyStore** - `Execute`, step by step: the first critical section
  (`Refuse`, `Hit`, `Join`, `Own`), the unlocked operation, the second critical
  section (`Finish`), and the two arms of the waiting select (`WaitDone`,
  `WaitCancelled`). A result is named by the caller whose operation made it. The
  mapping to OnceStore is `winner <- entries, asked <- key`.
* **Handlers** - the reservation handler inside the failure simulation, and the
  release handler, each with its store. There is one consumer goroutine and only
  it calls the handlers, so `Execute` never waits here and a call has one
  access to state others may change, the repository call: a handler call is one
  step. Decoding is modelled by which messages it lets through.
* **ConfirmChannel** - an AMQP channel in confirm mode. Publisher and Admin have
  one each, with the same `publishWithConfirmation`, so each is an instance.
  Publications travel on `wire` in order and are confirmed in order; the waiting
  select takes the next confirmation, whichever publication it belongs to, as the
  code does. `Responsive` is the consequence of `NotifyPublish(make(chan, 1))`:
  the client library delivers confirmations and replies from one goroutine, which
  blocks on the second confirmation that nobody reads.
* **Messaging** - RabbitMQ (external) with the topology the consumer declares.
  Queues are bags, because redelivery, TTL and two inbound queues leave no order
  to rely on.
* **ErpService** - consumer, handlers, publisher, market, HTTP changes and the
  process: the consumer's program counter `pc` has one value per place where the
  goroutine waits (`idle`, `handling`, `publishing`, `confirming`, `forwarding`)
  and `stopped` when `Consume` has returned. `settings` is the mode read before
  the delay, `failureMode` the current one. `Shutdown` cancels the context,
  `CloseConsumer` closes the consumer's connection under the goroutine's feet
  (its delivery is redelivered while it goes on), `Exit` closes the rest, which
  needs a responsive channel, and starts the next process; `ConsumerLost` loses
  the connection, so that ack and nack fail, `Consume` returns and `run` with it.
  `life` counts restarts: memory is empty after each.
* **DeadLetterAdmin** - `RequeueDeadLetters` and `DLQDepth` for several HTTP
  requests: one program counter per caller, the mutex, the dead letter `held`
  between `Get` and its ack or nack, the limit. A client that goes away during a
  wait is a timeout; between two rounds it is `ClientGone`.
* **Operations** - ErpService and DeadLetterAdmin over the same queues, in one
  process that exits or crashes as a whole, with the counters the consumer
  increments (`CountHit` when a handler has answered from its store,
  `CountProcessed` when the outcome is confirmed). The properties count the
  messages of a queue as the set of their `Items`, `<<message, i>>` for the i-th
  copy, of which `Depth` is the cardinality; `Copies` adds up the messages and
  outcomes of one request in all queues, on both wires and in the consumer's
  hands, and `TimesSent` is how often the market has sent it (`requested` is a
  bag).

Definitions such as `ReserveBeyondStock` or `CacheNothing`, each marked as a
variant in its comment, are not part of any specification: they are the plausible
mistakes the properties were tried against (`mutants` in `PROJECT.json`).

## Runs

`tlc -config <cfg> <module>` for each line.

| Run | Module, configuration | What it shows |
| --- | --- | --- |
| inventory | `MCInventory` | `ReservedMatchesActive`, `StockNonNegative`, `ActiveIsReleasable`, `ReservationsAreFinal`, `TransfersConserveStock` and the inductive `CapacityInv` under all sequences of the three operations |
| inventory_overflow | `MCInventoryOverflow` | without the capacity assumption `StockNonNegative` fails (finding) |
| idempotency | `MCIdempotencyStore` | `OneRunningPerKey`, `WaitersAreServed`, the refinement `KeepsPromise`, and `EveryCallReturns` |
| handlers | `MCHandlers` | `ReservationsConfirmedOnce`, `ReleasesAnsweredOnce`, `StoresAgree`, `OnlyClientErrors`, `DecisionsAreFinal` |
| service_delays | `MCOperations`, `OperationsDelays.cfg` | `NoRequestLost`, `OutcomesAgree`, `RetriesAreCounted`, `RequestsSettle` with late confirmations, publish failures, duplicate responses, rejections, a stock change and a message that does not decode; nobody calls the admin |
| operations_faults | `MCOperations`, `OperationsFaults.cfg` | `NothingLost`, `MessagesAreMoved`, `OutcomesBacked`, `NeverOversold`, `CountedIsPublished` with refusals of consumer and admin, loss of either connection and a crash |
| operations_shutdown | `MCOperations`, `OperationsShutdown.cfg` | `OperationsTypeOK`, `NothingLost`, `MessagesAreMoved`, `CountersBacked`, `GetIsAnswered`, `CallsReturn` with SIGTERM, loss of the consumer's connection, publish failures, late requeue confirmations and two callers of the admin |
| stale_confirmation | `MCErpService`, `StaleConfirmation.cfg` | `NoRequestLost` fails (finding) |
| discarded | `MCErpService`, `Discarded.cfg` | the documents' "the message is discarded after logging" (`RejectedAreDiscarded`) fails (finding) |
| publisher_lost | `MCErpService`, `PublisherLost.cfg` | `RequestsSettle` fails (finding) |
| shutdown_hangs | `MCErpService`, `ShutdownHangs.cfg` | `ShutdownCompletes` fails (finding) |
| dlq_depth | `MCOperations`, `DlqDepth.cfg` | `DepthIsReported` fails (finding) |

### Findings

1. **Overflow.** `POST /stock` accepts any level and `Service.Release` adds to it
   unchecked: reserve, set the level to the largest int, release, and the item is
   negative; `validate` then refuses every `Reserve` and `Release` of the SKU until
   its stock is set again.
2. **Stale confirmation.** After a timeout the late ack of one publication is
   taken for the next. In the run an outcome is given up and its request retried;
   the wait for the retry takes the ack of the outcome, which leaves the ack of the
   retry for the outcome of the next request. If the broker refuses that outcome,
   the next request is acknowledged although neither its outcome nor a retry
   exists. A wait that is given up (timeouts, a cancelled context) without
   refusals, and refusals, losses and crashes without one, lose nothing
   (service_delays, operations_shutdown, operations_faults): it takes both. A
   SIGTERM together with a refusal loses a request in the same way, so the passing
   runs keep the two kinds apart. `NothingLostHolds` proves that either kind
   alone, any number of times, is harmless. The admin's `publishWithConfirmation`
   is the same code on a channel of its own: a requeue that is given up leaves its
   ack behind, the next requeue takes it, acknowledges its dead letter and counts
   it as requeued, and the refusal of its own publication goes unread
   (`NothingLost` fails with `MaxAdminTimeouts = 1` and `MaxAdminRejects = 1`).
3. **Lost publisher.** Nothing reopens the publisher's connection. The consumer,
   whose connection is its own, keeps requeueing the same delivery; requeueing is
   not counted as a retry, so the DLQ is never reached.
4. **Shutdown hangs.** SIGTERM while an outcome waits for its confirmation: the
   wait ends at once, so does the wait for the retry that follows, and the broker
   confirms both. The second confirmation blocks the client's reader, the reply to
   `channel.close` is never read and `Publisher.Close` does not return.
   `Admin` has the same buffer: two requeues that were given up make the next
   `Get` hang with the mutex held. `CallsReturn` leaves this case open
   (`~Admin!Responsive`); `GetIsAnswered` says that fewer never do.
5. **Depth always 0.** `DLQDepth` declares the queue with `noWait`, so no reply is
   read and `Messages` is 0.
6. **Rejected, not discarded.** `docs/integration-flow.md` says a message with a
   permanent handler error "is discarded after logging", and its state diagram
   says so of a message that does not decode. Both are nacked without requeue from
   a queue with a dead-letter exchange and reach the DLQ (`NackReject`); a requeue
   brings them back. `NothingLost` counts them as kept.

Seen while modelling and not a run of its own: `docs/failure-modes.md` says
"Release outcomes are not duplicated.", while in mode `duplicate_response`
`publishResult` serves release outcomes too and publishes them twice
(`CopiesInMode`).

### Bounds

* MCInventory: three reservation IDs, one with a second spelling, a seeded and an
  unseeded SKU, blank texts, quantities -1..2 and levels -1..2. Three reservations
  are enough for one SKU to have an active, a released and a new one at once.
  `MaxInt = 8` is the smallest value that meets the capacity assumption.
* MCIdempotencyStore: four callers, two keys, one with a second spelling: an
  owner that fails while two wait and a fourth starts anew.
* MCHandlers: eleven messages, among them one key with two payloads, one
  reservation ID under two keys, releases before, after and twice, an unknown SKU,
  messages that do not decode. No bound on their number or order.
* MCErpService: two reservations compete for one unit and one is released; a
  conflicting and an undecodable message where noted (service_delays has the
  undecodable one). `MaxSends`, `MaxTimeouts`,
  `MaxRejects`, `MaxLosses`, `MaxCrashes`, `MaxShutdowns`, `MaxModeChanges` and
  `MaxStockChanges` bound the environment, never the service.
  `MaxRetryCount = 1` gives a message that is retried and one that is exhausted.
  `MaxLateDeliveries = 1` bounds how many deliveries the loop's select picks up
  although its context is done.
* MCOperations, faults: two messages out of two reservations, a conflicting one, a
  release and an undecodable one, one refusal and one loss on either channel and
  one crash; dead letters come from the last and from the conflict, and after the
  crash the requeued conflict may succeed. One caller, limits within and beyond
  `MaxRequeueLimit`, either queue. Shutdown: one
  reservation that publish failures drive through its retry into the DLQ, two
  callers (a requeue that refills, a second requeue or a scrape that waits), a late
  confirmation, and one SIGTERM or lost connection; a late confirmation puts the
  reservation into two queues, so that it is decided twice and `MaxCount = 2`
  tells the repetition from the original.

Deadlock is not checked where the system may stop: when all calls of `Execute`
have returned, and when the market sends no more.

### Fairness

`IdempotencyStore!FairSpec`: a goroutine that can take a step of `Execute` does,
and the operation handed to it returns (the repository never blocks for long).
No context is assumed to be cancelled. `ErpService!FairSpec`: the consumer
goroutine runs, the broker takes what is on the wire, the retry queue's TTL
expires, a process told to stop exits; `Operations!FairService` says the same of
the consumer and the broker in the composition. Nothing is assumed of the market,
the HTTP clients or faults. `Operations!FairOperations`: the goroutine of a call runs,
the broker takes what the admin sends, and a caller that waits for the admin's
mutex is not overtaken for ever (strong fairness: `sync.Mutex` hands over to a
waiter that has starved for a millisecond). Nothing is assumed of the consumer
there: calls return whatever it does. In service_delays timeouts are bounded, since a
publisher whose every confirmation is late requeues for ever.

## Proofs

`tlapm <module>` for each of the eight proof modules. The theorems hold for every
value of the constants that meets the named assumptions: every set of messages,
callers and texts, every `TrimSpace`, retry limit and width of int, and every
bound on faults, since no proof uses one of the `Max...` bounds on the
environment. Each follows the same pattern: an inductive invariant, one lemma per
kind of step, and the property as a consequence.

| Module | Inductive invariant | Theorems |
| --- | --- | --- |
| InventoryProofs | `TypeOK`, `CapacityInv` | `TypeCorrect`, `CapacityInductive`, `ReservedMatchesActiveHolds`, `StockNonNegativeHolds`, `ActiveIsReleasableHolds`, `ReservationsAreFinalHolds`, `TransfersConserveStockHolds` |
| IdempotencyStoreProofs | `StoreInv` | `StoreTypeCorrect`, `OneRunningPerKeyHolds`, `WaitersAreServedHolds`, `KeepsPromiseHolds` |
| HandlersProofs | `HandlersInv` | `HandlersTypeCorrect`, `StoresAgreeHolds`, `ReservationsConfirmedOnceHolds`, `ReleasesAnsweredOnceHolds`, `DecisionsAreFinalHolds`, `OnlyClientErrorsHold`, and the refinement `HandlersImplementInventory` |
| OperationsProofs | `OperationsInv` | `OperationsTypeCorrect`, `ServiceTypeCorrect`, `RetriesAreCountedHolds` |
| OutcomesProofs | `OutcomesInv`, `StockInv` | `OutcomesAgreeHolds`, `OutcomesBackedHolds`, `NeverOversoldHolds`, `InventoryExactInProcess`, `AnsweredOnceInProcess`, `OnlyRestartsForget`, `HandlersRetryOnlyWhenStopping` |
| DeliveryProofs | `SafeInv`, `KeptInv` | `NothingLostHolds`, `NoRequestLostHolds` |
| CountersProofs | `BackedInv` | `CountersBackedHolds` |
| AccountingProofs | `QueuesTyped`, `OwnInv`, `SingleInv`, `MovedInv`; `UnreadInv`; `CountedInv` | `MessagesAreMovedHolds`, `NoMessageMissing`, `GetIsAnsweredHolds`, `CountedIsPublishedHolds` |

The assumptions are those of the modules: `InventoryAssumption` (texts can be
trimmed, quantities and levels are ints), `HandlersAssumption` (a message is a
reservation or a release over those texts), `StoreAssumption` and
`AdminAssumption` (the name for nobody is no caller), `ServiceAssumption` (the
retry limit is positive, as `config.Load` requires), `OperationsAssumption`.
`CapacityAssumption` (finitely many reservation IDs; the largest level plus
`MaxQuantity` per ID fits into an int) is used only where finding 1 makes it
necessary: `CapacityInductive`, `ReservedMatchesActiveHolds`,
`StockNonNegativeHolds`, `ActiveIsReleasableHolds`,
`TransfersConserveStockHolds`, `OnlyClientErrorsHold`, `NeverOversoldHolds`,
`InventoryExactInProcess` and `HandlersRetryOnlyWhenStopping`.
The rest holds with overflow, too.

* **Inventory.** `StockNonNegative` is not inductive: a release adds to
  `available`, and nothing in the property bounds the sum. `CapacityInv` adds that
  `reserved` is the number of units of the active reservations and that
  `available` is at most a level that was set plus the units of the released ones;
  a released ID is never used again, so each ID contributes once and the capacity
  assumption bounds the sum. The sum over reservations is the cardinality of a
  set of tokens `<<reservation, i>>` (`Units`), so the proof needs no induction:
  reserving adds a block of tokens, releasing moves one (`UnitsAfterReserve`,
  `UnitsAfterRelease`).
* **Idempotency store.** `StoreInv` ties the calls in flight to their owners'
  program counters in both directions and says that whoever has not entered has
  touched nothing. The refinement of OnceStore then needs one step per action:
  owning or joining a call is `Ask`, `Finish` of a success is `Commit`, hits and
  waiters that wake to a success are `Replay`, errors are `Fail`.
* **Handlers.** A handler call is reduced to one of six effects (`StepEffect`).
  `ReservationsConfirmedOnce` speaks of cardinalities; the invariant says the same
  with sets of keys (`ConfirmedUnderOneKey`, `ReleasedUnderOneKey`), which a `Put`
  changes in one place (`AnsweredAfterPut`). That the outer store knows every key
  of the inner one is what makes the repository be asked once. The effects are
  also what the refinement needs: with stores and replies hidden each is a step of
  `InventoryNext` or a stutter, so the handlers implement the inventory.
* **Process.** `OperationsInv` types queues and wires by protocol: the retry count
  of a queued message is within the limit and a dead letter marked exhausted has
  reached it, so `RetriesAreCounted` holds although the admin feeds dead letters
  back. Every step of the process is seen by the handlers as a step of theirs, a
  stutter or a restart (`HandlersInProcess`), so their invariant carries over.
* **Outcomes.** `OutcomesAgree` is about what the broker has, the stores are what
  decides: `OutcomesInv` says that each outcome of this life, those on the wire
  included, and the result that is being published equal the entry under their
  key. `NeverOversold` adds `StockInv`: while stock is not set over HTTP available
  plus reserved is the seed, and the tokens of the confirmed outcomes are tokens
  of active reservations. The two invariants also carry what was proved of the
  inventory and of the handlers on their own over to the running process:
  counters and stores are exact there, too, only the end of the process forgets,
  and a handler error is retried only when the context is done
  (`AnswerErrors`: every other error is one the consumer takes for permanent).
* **Delivery.** `NothingLost` is false in general (finding 2) and the theorem says
  when it holds: if nothing was dropped (`NothingDropped`) or no wait was given up
  (`NoGiveUps`). The two cases have different reasons. If nothing is dropped,
  whatever was put on a wire arrives, so it does not matter which confirmation a
  wait takes: `SafeInv` counts the publication and never the delivery that waits.
  If no wait is given up there is at most one publication or confirmation under
  way and it belongs to the wait (`Paced`), so an ack is the ack of this very
  publication: `KeptInv` counts the delivery until that ack. A connection or
  process that goes takes at most the publication with it.
* **Counters.** A decision is counted after the repository has changed, so
  `CountersBacked` needs the slack the handler left in between: `BackedInv` counts
  the decision that is being published already. `MaxCount` bounds the counters
  for TLC only; the theorem is about states in which the hits have not reached it
  and holds for every `MaxCount`.
* **Accounting.** How many messages of a request there are is the cardinality of a
  set of items, or of places on a wire, so a step adds or removes one
  (`QueuedCopies`, `SentCopies`), again without induction. A delivery or dead
  letter whose copy is published is not counted any more, the copy is: then
  retrying, dead-lettering, requeueing and answering move a message
  (`HandsBackMoves`, `OutcomeMoves`, `RouteMoves`, `AdminMoves`) and only the market
  adds one (`SendMoves`). `MessagesAreMoved` alone is not inductive. Undisturbed, no
  confirmation is a refusal and both connections are there (`Unfaulted`), and with
  `KeptInv` each confirmation belongs to the wait that takes it, so an
  acknowledgement never comes without its copy nor a copy without its
  acknowledgement; `SingleInv` says that a mode that was never asked for owes no
  second answer. The other part of `MovedInv` needs none of that: as long as
  nothing is dropped a given-up wait or a shutdown can only add copies, so a
  request that was sent n times is there at least n times (`NoMessageMissing`),
  which `NothingLost`, being about sets, does not say.
  For `GetIsAnswered` `UnreadInv` counts the admin's confirmations that came and
  the publications of this process that are on the wire: taking a confirmation
  removes one, giving up moves one to the account of `adminFaults.timeouts`, and
  what an earlier process left on the wire is not confirmed to this one.
  `CountedIsPublished` fails like `NothingLost` when a wait was given up and a
  later publication dropped (TLC finds it with one late confirmation and one
  refusal: the refused outcome is counted on the strength of the stale ack), and
  the theorem has the same condition. `CountedInv` keeps one outcome in reserve for
  the count to come. If nothing is dropped, it is there from the publication on
  (`Pending`), whichever confirmation the wait takes. If no wait is given up, it is
  there as long as the publication is on the wire or the next confirmation is an
  ack (`Backed`), and what is on the wire is the consumer's own publication
  (`OwnInv`); a refusal or a lost connection takes an outcome away, but it is
  the one in reserve and the consumer is not told that it was published
  (`DroppedIsNotBacked`).

Only model-checked:

* liveness (`EveryCallReturns`, `RequestsSettle`, `CallsReturn`): TLAPS does not
  reason about fairness and ENABLED;
* the six findings, which are counterexamples.

Every other property of a passing run is stated by a theorem.

No module declares a RECURSIVE operator.

## Not modelled

Configuration parsing, JSON and AMQP encoding, UUIDs, timestamps, logging, the
read-only HTTP routes and the failure counters and durations of the metrics: pure
input and output, or data no decision depends on. `SetReady(false)` comes
immediately before the context is cancelled and only `GET /ready` reads the flag.
A scrape reads stock and reservations in two critical sections; no document
promises that its gauges are one snapshot, so there is nothing to check. A failing
start (no broker, bad configuration) ends the process before it has any state.
