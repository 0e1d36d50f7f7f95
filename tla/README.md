# A verification development for DarkStop

DarkStop executes confidential stop-loss orders. An owner deposits native
tokens in a vault contract together with an encrypted policy (a fixed trigger
price or a trailing distance). A TEE enclave decrypts the policy, watches the
FTSO price feed and, once the price crosses the trigger, sends a transaction in
which the vault verifies the price again and pays the owner in USDT0.

This directory holds TLA+ modules translated from the code, the TLC
configurations that check them on small instances, and TLAPS proofs of the
properties that matter most for every value of the parameters.

## 1. Inventory of the system

| part | code | state | operations | status |
|---|---|---|---|---|
| vault | `contracts/DarkStopVault.sol`, `MockUSDT0.sol` | orders, `nextOrderId`, executor, extension id, balances | `placeOrder`, `settle`, `cancel`, `setTeeExecutor`, `setExtensionId`, `mint` | modelled |
| TEE registries, FTSO feed | `contracts/dev/Mocks.sol` (deployed ones are external) | extensions, machines, price and timestamp | register, machine up/down, publish | as the vault sees them |
| order store | `internal/extension/store.go` | order map, last sample and its time | `Put`, `Delete`, `MarkExecuted`, `ObservePrice`, `TriggeredOrders` and readers | modelled |
| instruction handlers | `internal/extension/extension.go`, `utils.go` | the enclave's key | `PLACE_ORDER`, `CANCEL_ORDER`, `/state` | modelled |
| policy parser | `internal/extension/crypto.go` | none | strict JSON to policy | modelled |
| settlement watcher | `internal/extension/watcher.go` | pending broadcasts, nonce reservations, nonce floor | `tick` and everything it calls | modelled |
| browser order list | `frontend/components/useOrders.ts` | rows folded from events, history query, subscription | history, live events, remount | modelled |
| browser order entry | rest of `frontend` | form state | read the TEE's state, parse the policy, seal, place | policy and payload |
| registration tools | `tools/pkg/fccutils`, `cmd/allow-tee-version`, `cmd/register-tee` | `register-tee.state`, on-chain machine, versions, instructions | the four registration steps and what precedes them | modelled, see 5 |
| set-up tools and scripts | `cmd/deploy-contract`, `register-extension`, `run-test`, `scripts/` | `extension.env`, running TEE, on-chain extension and vault | pre-build, start, stop, post-build, test | control modelled |
| validation tools | `tools/pkg/validate`, `cmd/verify-deploy` | none | checks, report, exit status | modelled |
| wire types, decoders | `pkg/types`, `pkg/decoder` | a registry filled at start | ABI and JSON decoding | no |
| shell, support tools | `cmd`, `internal/config`, `internal/typesserver`, `pkg/server`, rest of `tools` | environment | HTTP routes, queries, process start | no: I/O |
| vendored, tests | `lib`, `testing` | | | no |

How they interact:

- `placeOrder` and `cancel` send an instruction (PLACE_ORDER with the
  ciphertext, CANCEL_ORDER) through the extension registry in the same
  transaction. The TEE infrastructure delivers them as HTTP calls: nothing
  orders two deliveries, and one may be repeated.
- Handlers run on HTTP goroutines and the watcher on one goroutine; they share
  only the store, whose mutex makes each method atomic and no sequence of them.
- The watcher talks to the chain by RPC: contract reads, nonce, gas estimate,
  broadcast, receipt and transaction lookup. Each may fail, lag, or fail after
  having worked.
- `settle` reads the feed again and trusts the executor with nothing but the
  moment; `cancel` calls the owner's code with the refund.

What is hard, and what makes each part correct:

- **vault**: `settle` against `cancel`; the refund hands control to the
  owner's code before `cancel` is over; a refused refund rolls back nested calls
  that succeeded. Correct when each order moves money once, as its status says,
  deposits stay covered, and the instructions tell the same story.
- **store**: a sample is recorded and scanned in two critical sections, with
  orders added and dropped between; integer division decides when a trail is
  reached. Correct when a trailing stop fires exactly at its distance from the
  highest sample of its life and never loosens.
- **watcher**: a broadcast may be uncertain, stuck, lost, replaced, mined
  without a receipt, reverted; the order book changes under a tick in progress;
  one executor nonce sequence serves all orders. Correct when no settlement is
  left in the mempool that nobody tracks, except those let go of on purpose,
  nonces are neither shared nor leaked, the enclave believes only the vault, no
  trigger is revealed that the price does not cross, and a crossed order is
  eventually settled.

- **the flow of an order**: the policy is typed as a decimal, sealed as JSON for
  a key that changes with each start of the enclave, delivered late, twice or
  after its cancellation, compared with a feed the watcher scales, and judged
  again by a vault that scales it itself. Correct when the policy armed is the one
  typed and has only one reading, an order is executed at a price its owner asked
  for, and the enclave forgets an order that was cancelled (it does not always).
- **browser list**: history and subscription run side by side. Correct when a
  final row stays final, no row shows an end that did not happen, and the two
  sources together lose nothing.
- **set-up and registration**: eight transactions and one file, then a version
  and up to four transactions with another file; tools die or give up on
  transactions that are mined later, and others use the same registries. Correct
  when a reported success is one, when a report without failures means what later
  steps need, and when running the script again ends well.

`PROJECT.json` lists every hazard at its line with the properties that watch it.

## 2. Modules

| module | what it is |
|---|---|
| `OrderLifecycle` | abstract specification: an order is placed once, ends at most once, and moves exactly the money its stage stands for |
| `DarkStopVault` | the vault with token, feed and registries; implements `OrderLifecycle` |
| `OrderBook` | what each `Store` method does to the order map, as operators |
| `EnclaveStore` | the store over time, called by the watcher and by handlers |
| `SettlementWatcher` | the watcher with the handlers, the executor's mempool, the vault's statuses and the feed; composes `OrderBook` |
| `InstructionHandlers` | the pure functions of the flow: the form's basis points and payload, the strict JSON reading, the two price conversions |
| `DarkStop` | form, vault, instruction channel, enclave, executor and feed in one module; composes `OrderBook` and `InstructionHandlers` |
| `OrdersView` | the browser's list of orders |
| `DeploymentChecks` | verify-deploy: every check as an operator from what it reads to its results |
| `ExtensionSetup` | the life of a deployment around those checks, from pre-build.sh to test.sh |
| `RegisterNode` | post-build.sh: allow-tee-version and register-tee with its state file |
| `MC...` | the instances for TLC |
| `Lemmas` | lemmas several proofs cite: least elements, induction and free places among the naturals; trails, policies, and what each operator of `OrderBook` makes of an entry |
| `...Proofs` | the theorems about the module of that name |

### DarkStopVault

Every external function is an action with the guards of its `require`s in
`world'`; a call that reverts is no step. `cancel` stops where line 221 calls the
owner: it pushes a frame with the world before the call. While `frames` is not
empty the code of the owner being refunded runs, and through it any contract, an
owner's or the executor's included, may call any function of the vault and the
token. `cancelReturns` pops the frame,
`cancelReverts` pops it and restores the saved world: the EVM's rollback.
`world` holds contract storage, the two balances, the instructions sent and, as
history, the transfers made for each order; all of it is undone together.
Registries, machine availability, feed and clock change between transactions.
Prices are already at payout decimals and 1e18 wei is `Unit`, so that payouts
are truncated as on line 200. An attached cancel fee passes through the vault.

`OrderLifecycle` sees *committed* states: what the outermost running call would
restore. A `cancel` whose callback places and cancels further orders is one
abstract transaction.

### OrderBook and EnclaveStore

An entry has a status (`absent` for a missing key), a fixed trigger, a trail in
basis points and a watermark; nil prices are 0, which no valid price is.
`ObservePrice` and `TriggeredOrders` are two steps (`phase`), because the store
is unlocked between them and handlers run there. `since` and `fired` are history
variables: the samples recorded since an order was activated, and the orders ever
returned as triggered. Order id 0, a payload with both policies, repeated
deliveries and samples that truncate to 0 are among the inputs.

### SettlementWatcher

One program counter follows the goroutine; each RPC is a step, so the chain, the
owners and the handlers act between any two:

    idle -> observe -> scan -> reconcile -> lookup -> status -> decide -> reestimate -> resend
                                  |                                (back to reconcile)
                                  v
                                 next -> estimate -> reserve -> send -> confirm -> next ...
                                            ^ retry ----------------------'     giveUp

An instruction stays on the `wire` for good: it is handled at any time, in any
order and as often as the infrastructure delivers it, so that an order may be
cancelled and put anew, with another watermark, in the middle of a tick.

`txs` lists the executor's transactions, the hash being the index; a transaction
is in the pool, mined, reverted, or void (evicted, refused or beaten to its
nonce). `Mine` executes `settle` against the vault's status and feed; transactions
with the same nonce become void. Until the network is `calm`, any RPC may fail,
receipts and lookups may lag, the vault's status may be one it had earlier,
`PendingNonceAt` may be behind by `MaxLag` or not see the mempool, a failed send
may still have reached the network, and the mempool may forget. `pending[o].old`
says that `pendingReplacementAge` has passed. `Restart` keeps the chain and the
wire and forgets the enclave. `letGo` is history: the transactions in the mempool
that the watcher has stopped to track because they were lost to a node and
inactive, or closed in the vault, or because it restarted. Gas prices and ABI
packing are left out; the bump of 9/8 plus one always exceeds the tracked price,
and whether the node accepts it over another transaction of the same nonce is its
choice.

Two simplifications are worth knowing. The watcher's prices are positive here: a
feed value that truncates to 0 is an input of `EnclaveStore` and `DarkStop`, where
such a tick scans nothing and may still replace (watcher.go, line 306). And
a fixed trigger wider than 256 bits, which `Put` refuses, is refused by
`ParseOrderPlaintext` before.

### InstructionHandlers and DarkStop

A plaintext is a sequence of fields with a name, whether the name is written
exactly, and a value (null, string, number); text after the object and the
length are flags. `ParseOrderPlaintext` checks the names, decodes as Go does
(case ignored, null for missing, last one wins) and applies the policy rules.
`OneReading` compares with two other JSON readers. `toPayoutDecimals` has the
width of the vault's integers, `normalizePrice` has not; a feed that overflows
the vault is left to the definitions, the run's feeds do not reach it.

`DarkStop` keeps of the vault the orders' statuses and prices, of the watcher one
action for a tick (sample, watermarks, the first crossed order revealed when
nothing of this run is in flight) and one each for block, revert, confirmation
(`Confirm`), letting go (`LetGo`) and replacement (`Replace`). A settlement that
is forgotten before it was mined stays in `flight` without a run, and may be
mined. `orders[id].asked` and `.payload`, and `feed.top`, the highest sample, are
history. A ciphertext carries the key read with `ReadState`; with
`ENCLAVE_PRIVATE_KEY` set all runs share one. Instructions stay in `channel` until
handled, in any order, and `HandleTwice` leaves them there.

### OrdersView

`history` is the query with the events `from .. to` of its answer, which is
applied some time after it was read, or never if the effect ran again; `live` is
the subscription, from the event after those of the moment it began. A node may
forget the filter of the subscription (`FilterLost`); viem makes another one,
which starts from then. A window that starts late is `from > 1`. Owner,
transactions and block of a row follow its status and are left out.

### DeploymentChecks and ExtensionSetup

The checks read an `extension.env` that is missing, there but not readable, or
whose values are unset, malformed or numbers, the registry, the queries the node
answers and the process environment. They return sets of (step, check, status):
the order and the wording of the report are left out. An unreadable file is
skipped by D7 and the registration checks, as if it were missing, and failed by
S2, V4 and E1. `ExtensionSetup` has one program counter for the tool that runs:
`token, deploy, mint, executor, register, owner, project, key`, then the file is
truncated and written. `Mined` is a transaction seen mined, `GivenUp` one left in
the mempool (`late`) by a tool that stops. `Crash` during the write leaves any
part of the file. What a TEE started with a value that is no extension id does is
left open (`TeesFor`), because `start-services.sh` only looks whether the value is
empty. Each start is another TEE, with a key and an id of its own; the machine of
one that is gone stays registered (`old`), and the registry may choose it.
`KeepServices` is a start that finds a TEE running and keeps it. `LockFile` makes
the file unreadable, `DeleteFile` is the operator's answer. `phase` is history:
which of the phases ran, in order, since the last pre-build.sh, and whether the
TEE was kept. `RegisterForeign` is any other user of the registry.

### RegisterNode

The program counter follows `RegisterNode`: r, R, a, p, each a decision (asked
for? done according to the file? on chain?) and a transaction. post-build.sh runs
as committed (`rap`) or edited as the deployment guide asks (`rRap`); by hand
register-tee takes any command, and without a the instruction that `-i` names
(`GivenInstruction`), whatever it is. `Save` is
`saveState`, whose failure is only a warning, or a write cut short. `chain.instrs`
are the instruction ids: a challenge is ready until a newer one replaces it, a
check uses it up or it expires; a check is ready once answered, which needs the
machine to be the one that runs. `Accepts` is what the contracts require; the ids
nothing refers to any more are used again, and `RegisterAssumption` gives more ids
than can be referred to at once, so that a request never lacks one (`FreeInstr` in
the proofs). `file.by` and `proc.own` are history: the TEE of all the runs that
saved to the file (`Several` if they were for more than one), and whether the run
going on is for it too.

## 3. Runs

| run | configuration | question | result |
|---|---|---|---|
| `vault` | `MCDarkStopVault.cfg` | one transfer per order, solvency, instructions, freshness, refinement; a deposit can be had back once machines stay available | holds, 33 thousand states |
| `store` | `MCEnclaveStore.cfg` | policies, watermarks, firing, tightening | holds, 739 thousand states |
| `watcher_restart` | `MCWatcherRestart.cfg` | nothing left in the mempool untracked, nonces, executions backed by the vault, settling only at crossed triggers: one trailing order, three prices, unreliable RPC, a restart | holds, 6.1 million states |
| `watcher_live` | `MCWatcherLive.cfg` | two orders: nonces and the mempool again; a crossed order settles, neither starves the other; an idle watcher lets go | holds, 598 thousand states |
| `darkstop` | `MCDarkStop.cfg` | one reading, the typed policy, the asked price, agreement of the two price conversions, arming | holds, 379 thousand states |
| `orders_view` | `MCOrdersView.cfg` | the browser's list, complete but for what falls between its sources | holds, 39 thousand states |
| `setup` | `MCExtensionSetup.cfg` | the report, the file, the test after the phases in order; repair by running again | holds, 176 thousand states |
| `registration` | `MCRegisterNode.cfg` | a reported success is one; the edited post-build.sh run again converges | holds, 872 thousand states |
| `watcher_blocked` | `MCWatcherBlocked.cfg` | a broadcast cannot block an order forever | violated |
| `watcher_gap` | `MCWatcherGap.cfg` | one transaction at a time prevents nonce gaps | violated |
| `darkstop_cancelled` | `MCDarkStopCancelled.cfg` | CANCEL_ORDER drops the enclave's state | violated |
| `registration_stale` | `MCRegisterStale.cfg` | a resumed registration registers the TEE it names | violated |

The violated ones state what a comment or a document of the repository says; the
`findings` of `PROJECT.json` quote it beside the line that does otherwise. In short:

- A tracked hash whose nonce another of the watcher's own broadcasts consumed is
  fee-bumped without end while its order is crossed (`watcher_blocked`).
- Forgetting a stuck settlement of a cancelled order lets the next one queue
  behind it, and a drop then leaves a gap (`watcher_gap`).
- A CANCEL_ORDER handled before its PLACE_ORDER leaves the cancelled order armed
  (`darkstop_cancelled`). The vault refuses to settle it.
- A registration resumed after the TEE restarted puts the old machine in
  production and reports the new one (`registration_stale`).

The passing runs state what remains true, and name what does not:

- `ViewComplete` and `ViewCurrent`: an event after the last one of the history and
  before the first one of the subscription is in neither (`Missed`), because
  `useOrders.ts` starts the two side by side and viem makes a new filter when the
  node has lost one. Nothing else is lost.
- `TestServes`: not with extension 0, which the vault cannot tell from unset, nor
  with a TEE that `start-services.sh --local` found running and kept, which after
  another pre-build.sh runs for the extension before.
- `OwnStateServes`: for a state file of the TEE's own runs and a command with a and p.
- `Converges`: for the edited script and a free version name.
- `SettlesUnlessStranded`: unless the tracked nonce is stranded for good.

Two more facts of the code are built into what the passing runs ask. `cancel` sends
its instruction before it refunds, so `ReclaimWhenServed` needs machines to stay
available. A broadcast let go of may still be mined, and then `ExecutedBacked` holds
in one direction only: what the enclave believes executed is, not the other way
round; and `OneUnconfirmed` leaves these broadcasts out, so that two settlements can
be in the mempool, of which the vault executes one. After a restart the enclave
knows nothing of the nonces its earlier run has in the mempool, and may use one of
them again; `NoncesAccounted` is about what it knows.

`RevealsOnlyCrossed` has one exception, which it names (`PutAnew`): an order
cancelled, delivered again and seeded with the tick's own sample has a lower
trigger than the one already being sent for it. `ExecutedAsAsked` bounds a trailing
order by the highest price the feed ever had, not the highest since the order was
armed; the exact distance is the store's (`FiresExactly`).

Every property of a passing run is also run against a plausible bug in the code
(`mutants`); the mutated operators stand before the ones they replace.

### Bounds

- Vault: two orders let one end while the other re-enters, or its owner is called;
  two nested `cancel` calls (`MaxDepth`) include a rollback over a call that
  succeeded; two prices around a trigger; an age limit of 1 with three instants has
  fresh, stale and future feeds; a pool of 3 with payouts of 1 to 3 may be short; two
  extensions, so that id 0 and id 1 are both possible. A bound on minting
  (`MaxMinted`) only.
- Store: prices 0 to 4 with trails of 2500 and 5000 basis points contain exact
  crossings, crossings rounding decides, and near misses. Two usable ids.
- Watcher: `watcher_restart` has one order, three prices, so that a trail can be
  crossed twice, one restart, and two broadcasts before the network calms
  (`EarlyTx`), which is what it takes for a lost and a replaced one. Its loops take
  one attempt and one failed lookup. `watcher_live` has two orders and one early
  broadcast; two attempts per tick instead of three keep first and last apart, and
  so do two failed lookups. `MaxTx` bounds broadcasts and fee bumps: at 3 the early
  one can be followed by two. What two orders, two early broadcasts, several attempts
  and a restart do together is left to the proofs.
- DarkStop: one order. Orders share the executor, which `watcher_live` checks
  with two, and nothing else in this module. Two runs of the enclave give a key of
  an earlier run; seven plaintexts contain each way of having two readings; the
  feeds need scaling up, scaling down with truncation, and truncate to no price.
- OrdersView: two orders; four events suffice for a history that starts in the
  middle, ends before the subscription begins, or overlaps with it.
- ExtensionSetup: two faults, and three vaults, so that a run can still succeed
  after two wasted ones; four extensions leave room for others'. The sites differ
  from a good one in one respect each, which all checks see.
- RegisterNode: two TEEs with different images, three version names (two may be
  taken by earlier runs), two faults, nine instruction
  ids, more than can be in use (six the files and the tool name, one per transaction
  given up on). Commands `r`, `p`, `ap`, `rap` and `rRap`.
- `darkstop_cancelled` has one run of the enclave, so that no restart can hide what
  it shows.

Deadlock is checked in every run.

### Fairness

- `InsistSpec` (vault): an owner keeps asking to cancel and accepts the refund.
  Others' calls disable it again and again, hence strong fairness. Nothing is
  assumed of the registries.
- `FairSpec` (watcher): the goroutine keeps running (`Run` loops on a ticker and
  every RPC returns), minable transactions are mined, `pendingReplacementAge`
  passes. All weak. Nothing obliges the infrastructure to deliver an instruction
  nor the network to become calm: the properties speak of orders the enclave holds,
  and of what follows if it does, with the feed fresh and the price standing still.
- `FairSpec` (DarkStop): the TEE node hands over each PLACE_ORDER.
- `FairSpec` (OrdersView): the node answers a query or fails it, and the
  subscription is polled (every two seconds in the code).
- `FairSpec` (ExtensionSetup): a tool that runs goes on, the network decides about
  left-over transactions, the site is put right, a file that cannot be read is
  deleted (as S2 and V4 ask), and pre-build.sh is run whenever it is needed and can
  be (strong, as tools and other steps come between).
- `FairSpec` (RegisterNode): the tools go on, the FTDC TEE answers, and the
  operator runs post-build.sh again, edited to use `rRap`, under each version name
  of the run. Neither is what the committed script does by itself: it calls
  register-tee with its default `rap`, and `docs/deployment-steps.md`, lines
  144-158, asks for the edit; it has one version name unless TEE_VERSION is set.
  With `rap` a registered machine whose challenge is spent cannot be put in
  production by running the script again, and with one name a second image is
  never supported.

## 4. Proofs

TLAPS proves the following for all values of the constants. The assumptions are
those of the modules: `VaultAssumption`, `StoreAssumption`, `WatcherAssumption`,
`HandlersAssumption`, `FlowAssumption`, `ViewAssumption`, `RegisterAssumption` and
`SetupAssumption`. They say what kind of value each constant is (bounds and prices
are naturals; a policy is one `Put` accepts; a feed has a uint256 value and int8
decimals; a command of register-tee is any set of its four letters; there are more
instruction ids than can be referred to), and TLC evaluates them in the runs. No
bound that keeps a run small is taken as small here: any number of orders, vaults,
TEEs, transactions, restarts and faults.

Every safety invariant and every action property that a passing run checks is
the statement of a theorem, and so is the refinement of `OrderLifecycle`.

| module | theorems |
|---|---|
| `DarkStopVaultProofs` | `TypeOK`, `OneTransfer`, `VaultSolvent`, `InstructionsMatch`, `SettlesFresh`, `ImplementsLifecycle` |
| `EnclaveStoreProofs` | `TypeOK`, `OnePolicy`, `WatermarkHighest`, `FiresExactly`, `TriggerNeverLoosens` |
| `SettlementWatcherProofs` | `TypeOK`, `OneUnconfirmed`, `ExecutedBacked`, `NoncesAccounted`, `RevealsOnlyCrossed` |
| `DarkStopProofs` | `TypeOK`, `OneReading`, `AsTyped`, `ExecutedAsAsked`, `PricesAgree` |
| `OrdersViewProofs` | `EndsAreTrue`, `ViewComplete`, `ViewNeverRegresses` |
| `RegisterNodeProofs` | `TypeOK`, `AllowedIsSupported`, `OwnStateServes` |
| `ExtensionSetupProofs` | `Usable`, `PreBuiltIsComplete`, `TestServes` |

Hardly any of them is inductive. Each module has one inductive invariant
`IInv`; the theorem `...Invariant` is `Spec => []IInv`, and the others follow
from it.

**DarkStopVaultProofs.** `TypeOK`, `OneTransfer`, `VaultSolvent` and
`InstructionsMatch` fail to be inductive because `cancelReverts` makes an older
world the present one. `IInv` therefore asks of every world saved in a frame what
it asks of the present (`GoodWorld`: typed, one transfer per order, ids handed out
in order, balances covering what is owed, instructions equal to the orders'
history), and that each saved world precedes the later ones in the lifecycle
(`Later`, which composes). One lemma per calling function shows that it turns a
good world into a good later one; frames are handled once, for push
(`CancelFrames`) and pop (`PopFrames`); `StepKinds` sorts all steps into these
kinds. Solvency is about sums over the orders: `Total` is a recursive function, a
choice among the functions with its equation, so the proof first shows that there
is one and that two agree (`SumsExist`, `TotalSum`), then what changing one
summand does. `VaultSettlesFresh` is about steps, where the point is that a
rollback can never turn an open order into an executed one (`Later` again).
`VaultImplementsLifecycle`: the committed world is good and moves only forward,
and in a good world the transfers are those the stages stand for.

**EnclaveStoreProofs.** `IInv` is `TypeOK`, `OnePolicy`, `WatermarkHighest` and
`ScanPending`, which says that between the two critical sections the sample about
to be scanned is the one recorded last: without it a trailing order seeded there
could exceed what the scan will see. Arithmetic is isolated in `TrailExact`
(comparing with the truncated trigger is comparing exactly) and `TrailMonotone`.
`StoreFiresExactly` and `StoreTriggerNeverLoosens` combine them with the invariant
for the one step that can matter.

**SettlementWatcherProofs.** The goroutine's locals mean something different at
each place, and the chain, the owners and the handlers act between any two of its
steps. `AtWork` says what they mean: which places examine a tracked broadcast,
which settle an order while nothing is tracked. On it rest `OneTracked` and
`NoncesHeld` (the reserved nonces are those of the tracked broadcast or the one of
the send under way, which `NoncesAccounted` then says less of). `OneUnconfirmed` needs
`NothingLeft`: each transaction in the mempool has the nonce tracked for its order,
is the one just sent, or was let go of; what makes it true is that a failed send
tracks the transaction all the same, and that a replacement has the nonce of the one
it replaces. `ExecutedBacked` needs `TxsTrue`, that a mined settlement executed its
order and a tracked hash is of the order it is kept for. `RevealsOnlyCrossed` needs
`CrossedOnly`, that every trigger waiting to be revealed is crossed by the tick's
sample and no looser than the book's. Handlers may drop the order and put it again
any number of times: then its watermark is the sample recorded last, which during a
tick is the tick's own (`SampleLatest`), and that is the exception `PutAnew`;
otherwise watermarks only rise (`TrailMonotone`).

**DarkStopProofs.** `OneReading` is about every sequence of fields a payload can
have. `ExecutedAsAsked` follows a policy from the seal to the payout: the book
holds what the enclave reads from the payload (`ArmedAsSealed`), that is what the
form was asked (`AskedRead`, with the basis points of every percentage with two
decimals), no watermark exceeds the highest price ever published (`UnderTop`), so
no trigger in flight exceeds the owner's limit (`FlightAsAsked`), which rises with
that price. A replacement is an enclave's own trigger again, and what was
forgotten keeps the trigger it was sent with. `FlowPricesAgree` has a hypothesis
beyond the assumptions: that the feed's prices fit in a uint256 once scaled. The
watcher's integers have any size and the vault's have not, so that without it a
trail below a price that does not fit would be revealed to a vault that reverts on
computing it. No price of the network's feeds is near that limit, and the run's
satisfy it. The powers of ten are treated as the sums above.

**OrdersViewProofs.** `LogTrue` and `LogComplete` tie the vault's log to its
orders, `InLog` keeps the ranges asked for inside it, `ListTrue` says that a row
is where its order is or was, and `SeenShown` that each event already applied
shows. The list an answer leaves is a fold over its events; `apply` is treated as
a function of the number of events applied, by induction on it (`InductionSet`).
`ViewIsComplete` takes the event of `LogComplete` that made an order what it is: if
it did not fall between the two sources, it was shown, and stays shown.

**RegisterNodeProofs.** A state file whose runs were all for one TEE names an
availability check of that TEE (`GoodFile`), and so does what the tool took over
from it or carries to the chain (`GoodTool`); instructions that are referred to
keep their TEE while others come and go. New ids must exist for that: `FewLate`
counts the transactions given up on against the faults, and `FreeInstr` finds an
id nothing names by counting. Commands are any sets of letters: runs without a or p
leave a file that is as good as another, and the theorem is about the success of
those that have both.

**ExtensionSetupProofs.** `GoodTool` says which transactions each place of the
tool has behind it, for a vault and an extension that fit each other; `GoodFile`
the same of what pre-build.sh wrote, and less of a file put together by hand;
`GoodVaults` that setExtensionId chose an extension of the vault. What was done
stays done (`Grown`, `StaysGood`), so a transaction mined late can do no harm
(`ApplyDoes`). `VerifiedMeans` reads from a report without failures that the
file's extension is the only one of its vault. `SetupTestServes` has a second
invariant, `PInv`, over the same steps: while pre-build.sh runs, its vault and its
extension are its own alone (`Building`); once it has ended, the file is still its
own, its extension is the first of its vault and no TEE of an earlier start has a
machine of it, and each later phase adds what it does (`Built`). So the vault's
extension is the file's and the registry has one machine to choose.

What the proofs taught about the models, and was changed in them: the cases of
`Issue` in `RegisterNode` overlapped, so that which one applied was left to the
evaluator; `OwnStateServes` had held on the run's commands but not on all, until
the history of a state file remembered every run that saved to it, not the last;
the bound on a revealed trigger had rested on each instruction being delivered once;
results of the checks and the writes of a dying script are stated without an
order or a nesting that said nothing.

### Model-checked only

- Liveness, which the provers cannot do under fairness: `ReclaimWhenServed`,
  `SettlesUnlessStranded`, `IdleClears`, `FixedGetsArmed`, `ViewCurrent`,
  `Converges`, `Repaired`.
- The violated runs: a counterexample is TLC's.
- The values of `toPayoutDecimals`, `normalizePrice` and `percentToBps` on given
  numbers: what is proved is how they relate.


## 5. Not modelled, and why

- ECIES, ABI and JSON encodings, the decoder registry, HTTP servers and
  configuration: stateless or pure I/O. `unpackStrict` refuses non-canonical ABI;
  the vault encodes canonically. `ParseTriggerPlaintext` is used by tests only.
- User interface: layout, wallet connection, error texts.
- The HTTP results of instructions: the order form does not wait for them, and
  run-test does only for the order it placed (part of `RunTest`).
- Amounts in the form beyond six decimals, which its `step` keeps out: `AskFixed` is
  a number of millionths. Fees and gas.
- What the committed tools leave unsaid of an unreadable `extension.env`: the checks
  disagree on it (above), and no document of the repository says which is right.
- audit-deploy, query-tee, test-types-server: queries that print. start-tee and
  start-proxy: process start, seen as `StartServices`. Demonstration scripts.
- The TEE node, the proxy, the registries and the FTSO feed are external; what the
  code relies on is modelled from its calls.

## 6. Plan

1. `DarkStopVault` implementing `OrderLifecycle`, with proofs. *(done)*
2. `OrderBook`, `EnclaveStore`, with proofs. *(done)*
3. `SettlementWatcher`: safety, restart, liveness. *(done)*
4. `InstructionHandlers`, `DarkStop`: the flow of an order. *(done)*
5. `OrdersView`. *(done)*
6. `RegisterNode`; `DeploymentChecks`, `ExtensionSetup`. *(done)*
7. Proofs about `SettlementWatcher`, `DarkStop` and `OrdersView`, and of
   `VaultSolvent`. *(done)*
8. Proofs about `RegisterNode` and `ExtensionSetup`. *(done)*
9. What could be proved further: that `EnclaveStore`'s steps refine those that
   `SettlementWatcher` and `DarkStop` take on the same book; the safety halves of
   the liveness properties (a stranded nonce is the only thing that keeps
   `SettlesUnlessStranded` from its end); `TrailExact` carried from the store to
   `DarkStop`, so that `ExecutedAsAsked` names the exact distance.

Running it: `tlc -config X.cfg M`, where M is the MC module whose name the
configuration begins with; `MCWatcher*.cfg` go with `MCSettlementWatcher`,
`MCRegisterStale.cfg` with `MCRegisterNode`. `tlapm M.tla`
for `Lemmas` and the proof modules.
