# A verification of the sorostream contracts

TLA+ models of the payment-stream contracts under `src/contracts`, TLC runs that
check them on small instances, and TLAPS proofs about them for every instance.
Definitions keep the names of the Rust code; `PROJECT.json` maps each one to
the lines it models.

    tlc -workers 2 -config MCLife.cfg MCStream     # a run: config, then module
    tlapm StreamProofs.tla                         # the proofs of a module

## 1. The system

Three Soroban contracts. A *stream* locks a sender's deposit in the stream
contract and releases it to a recipient at `flow_rate = deposit / duration`
tokens per second between `start_time` and `end_time`, nothing before
`cliff_time`. Everything is computed when somebody calls; no process runs by
itself.

| component (source) | state | operations |
|---|---|---|
| vesting arithmetic (`stream/src/vesting_math.rs`) | none | `effective_now`, `compute_flow_rate`, `compute_earned`, `compute_claimable`, `compute_total_streamed`, `compute_refund` |
| stream lifecycle (`stream/src/lib.rs`, `types.rs`) | one record per stream, delegates, used nonces | `create_stream`, `withdraw`, `cancel_stream`, `recipient_terminate`, `transfer_recipient`, `partial_cancel_stream`, `top_up`, `pause_stream`, `resume_stream`, `cancel_auto_renew`, `delegate`, `revoke_delegate`, `archive_stream` |
| storage and index (`stream/src/storage.rs`) | lists of stream ids per sender, per recipient, global: a counter and numbered slots | append, swap-and-pop removal |
| queries (`lib.rs`) | none | `get_claimable`, `get_stats`, `get_all_stream_ids`, `get_streams_by_sender`, `get_streams_by_recipient`, `get_active_streams_by_sender`, `get_active_streams_by_recipient` |
| administration and pause (`lib.rs`, `storage.rs`) | admin, guardian, governance, version, migrations, `paused`, `pause_expiry` | `initialize`, `set_admin`, `set_guardian`, `set_governance`, `emergency_pause`, `emergency_resume`, `pause`, `unpause`, `is_paused`, `migrate` |
| audit log (`storage.rs`) | head, length and 20 slots | `append_audit_entry`, `get_admin_log` |
| fees (`lib.rs`, `storage.rs`) | fee, treasury, exemptions, pending change, creation fee | `set_protocol_fee`, `propose_fee_change`, `execute_fee_change`, ... |
| policy (`lib.rs`, `storage.rs`) | minimum duration, stream limits, cooldown, whitelist | one setter each; read by `create_stream` and `withdraw` |
| batch operations (`lib.rs`) | as the lifecycle, and a batch nonce per sender | `batch_create_stream`, `batch_withdraw`, `batch_cancel_stream` |
| treasury contract (`treasury/src/lib.rs`) | admin, recorded balances, pool of liquidity providers, split | `initialize`, `set_admin`, `deposit`, `withdraw_treasury`, `withdraw_all`, `set_lp_pool`, `set_treasury_split`, `distribute` |
| proxy contract (`proxy/src/lib.rs`) | admin, implementation hash, storage version | `initialize`, `set_admin`, `upgrade`, `migrate` (`upgrade_proxy` not modelled) |
| host (outside the repository) | ledger time, token balances | transfers, authorisation, transactions |

How they interact. Lifecycle operations call the vesting arithmetic, read fees
and policy, test and clear the pause, move tokens through the token contracts
and keep the lists. `withdraw` calls the recipient back
(`on_stream_withdraw`) after it has paid and before it decides how the stream
goes on; the recipient may move its own tokens in that call. Administration shares the
pause flag with every operation that is behind it. A claim pays its fee to the
treasury; `batch_withdraw` also tells the treasury contract of it (`deposit`),
`withdraw` and `transfer_recipient` do not. The stream contract forwards
`withdraw_treasury` and `withdraw_all` to the treasury, and the proxy forwards
`migrate` to the stream contract.

What is hard here, and which properties it endangers:

* **Pooled funds.** All streams of a token share one balance. A stream that
  pays too much does not fail: it pays with another stream's deposit.
  (`NoCrossSubsidy`, `Solvent`)
* **Long call sequences.** Pauses shift five times; renewals reset four fields;
  top-ups, splits, transfers and withdrawals each change some of deposit,
  rate, times and the amount withdrawn. Their relation has to survive any order
  of them. (`VestingWithinDeposit`, `CancelReturnsEverything`,
  `PauseOnlyDelays`, `SenderCannotTakeEarned`)
* **State read before and after a callback.** The renewal reads the sender's balance
  after the callback, in which it may have changed (`Forwards` in MCLife). A balance read too
  early would cost the sender only, so no property is stated for it.
* **Closed streams that stay stored**: the parent of a split and a stream whose
  renewal failed. (`NoSecondPayout`)
* **Lists kept by swap and pop**, from which the sender's limit is counted and
  which clients read page by page while streams come and go.
  (`IndexAgrees`, `StoredWithinLimit`, `StatsExact`, `PagesCoverStreams`,
  `GlobalPagesSteady`)
* **Batches**: the second turn of an id that is listed twice, an item that fails
  among others that do not, ids that come back, settlement rules that differ
  from those of the single operations. (`BatchCancelsEach`, `EarnedIsKept`,
  `CreatedWithinLimit`)
* **Two books for one balance**: the treasury's record and its tokens, written
  by different contracts, and a result that is dropped. Anybody may
  write the record, and some fees arrive that nobody records. (`RecordedIsBacked`,
  `TreasuryPaysRecorded`, `FeedsTreasury`)
* **Upgrades that arrive late or twice** at the proxy, which does not ask for a new version to be
  new. (`NoLostUpgrade`)
* **A pause that lapses by itself**, but only when a later call finds it
  expired. (`NoIndefiniteLockout`, `PauseLiftedByRight`, `PauseFreezesStreams`,
  `PauseLapses`)
* **Rounding and widths**: dust, fees that round down, times that saturate at
  `u64::MAX`, checked products. (`FormulasAgreeWithMeter`,
  `TreasuryTakesItsShare`, `TypeOK`)
* **A circular buffer.** (`AuditLogIsTrail`)

`PROJECT.json` lists every hazard at its line. There is no concurrency inside a
contract: transactions are serial, and an error undoes the whole transaction.
Interleaving means the order in which transactions of different parties and
the ledger's time come.

## 2. The modules

    HostTypes        <- Ledger, VestingMath, ProxyContract
    VestingMath      <- VestingSchedule              an independent reference
    Ledger, AuditLog <- ContractAdmin                refines AuditTrail
    ContractAdmin    <- Fees, StreamPolicy, ProxiedAdmin (with ProxyContract)
    Fees, StreamPolicy, VestingMath, StreamIndex <- StreamContract
    StreamContract   <- StreamProperties             refines Escrow
    Fees             <- TreasuryContract
    StreamProperties, TreasuryContract <- StreamBatches
    StreamProperties <- StreamClaims

    instances: MCVesting (VestingSchedule), MCAdmin (ProxiedAdmin),
               MCStream (StreamClaims), MCBatch (MCStream, StreamBatches)
    proofs:    VestingProofs, AdminProofs, ProxyProofs, TreasuryProofs,
               StreamProofs <- EscrowProofs <- IndexProofs,
               IndexProofs, TreasuryProofs, StreamBatches <- BatchProofs

An arrow points from the module that extends to the one it extends.

| module | models | how state and actions correspond |
|---|---|---|
| `HostTypes` | `i128`, `u64`, `Option` | `Checked` is `checked_mul`/`checked_add` (`None` outside i128), `Saturated` is saturating i128 arithmetic, `saturating_sub`/`saturating_add` those of u64. Widths are constants |
| `Ledger` | external: clock, token contracts | `AdvanceTime` closes a later ledger; `Move`, `PayOut`, `CanPay` and `Funded` are a transfer and its failure; `WalletTransfer` is users' own trade |
| `VestingMath` | `vesting_math.rs` | one operator per function |
| `VestingSchedule` | reference for it | a meter that adds `flow_rate` every second of the schedule; withdrawals at any time, before the cliff too, where they pay nothing and move `last_withdraw_time` |
| `AuditLog`, `AuditTrail` | `append_audit_entry`, `read_audit_log`; what they promise | head, length and slots as stored; the trail is the abstract specification: the last `CAP` entries |
| `ContractAdmin` | roles, pause, migrations | one action per entry point. `NotPaused` is the gate `is_paused_or_auto_unpause`: it refuses during a pause, clears an expired one as part of the caller's step |
| `Fees` | fee state and the fee part of a claim | one action per setter; `ProtocolFee` and `PayClaim` are what `withdraw` and `transfer_recipient` compute and pay |
| `StreamPolicy` | limits | one action per setter; `MayReceive`, `CooldownOver`, `effective_sender_limit` are the guards that read them |
| `ProxyContract` | the proxy | one action per entry point. An upgrade is *prepared* from the version its admin reads, with any new version, and the call waits in `in_flight`: it may arrive late, in any order, more than once, or be lost |
| `ProxiedAdmin` | proxy and administration together | `migrate_through_proxy`; fairness |
| `StreamIndex` | list maintenance in `storage.rs` | a list is a counter and a map from numbers to ids, as stored; `Unindexed` is swap-and-pop, `Those` a loop that keeps some of a list, `IdsBetween` the loops that read the slots |
| `StreamContract` | the lifecycle | `streams` is the map of stored records with every field of `types.rs`; one action per entry point, from its guards and early errors to its last save |
| `StreamProperties` | the queries, and the properties that sum over the stored streams or compare the two ends of a step | |
| `Escrow` | what the stream contract promises of its tokens | an account per stream; the refinement reads the accounts off the live streams (what each owes) and the pool off the contract's balance |
| `TreasuryContract` | the treasury contract | one action per entry point; `recorded` is its "balance" entries, `Held` the tokens it has. `deposit` is open to anybody and moves no tokens, as in the code; `unbacked` observes what was recorded that way |
| `StreamBatches` | the three batch operations; stream contract and treasury together | a batch works through its list item by item, see below |
| `StreamClaims` | statements of comments that the code does not meet | |
| `MCVesting`, `MCAdmin`, `MCStream`, `MCBatch` | instances | |

`withdraw` is one action with four outcomes, as in the code: the stream keeps
flowing (`KeepFlowing`), is settled and deleted with its dust returned
(`Settle`), renews (`Renew`), or cannot renew and is kept as Completed
(`FailRenewal`).

A batch is one action. `InTurn` works through its list, every item on the
state (`Present`) that the earlier ones left. That state carries a flag `ok`: an item
that reverts clears it (`Reverted`), the items after it are skipped, and `Become` is then
not enabled, which is the rollback of the whole transaction. An item of `batch_cancel_stream` that only *errs* leaves the state
alone and the batch goes on.

Four variables are not the code's. `in_flight` holds the calls to the proxy that are under way. The other
three are observers that no guard of the code reads (only the bounds of a run do): `escrow` books, for each stream id, what the
steps of that stream put into the contract and took out of it (`NoCrossSubsidy` and `NoSecondPayout` are stated with it);
`layouts` lists the storage versions of the proxy in their order; `unbacked` adds up, for each token, what was
recorded in the treasury by callers that paid nothing.

Definitions marked *Mutant* in the modules are the plausible bugs (a dropped
guard, a missing reset, an off-by-one) with which a definition is replaced to
see that each property is able to fail; no specification uses them.

### Abstractions

* An `Err` or a failing transfer rolls the transaction back, so a failing call
  is a step that is not enabled.
* `require_auth` is the choice of who calls. Where the code asks for the stored
  sender or recipient, the action has no caller argument; where it compares a
  caller with sender and delegate, `MayManage` does. Where it only asks that an
  argument sign (`set_min_duration`), or asks nobody
  (`set_protocol_fee`, `set_treasury_address`), anyone may take the action.
* A stream id is a hash of four values; here it is those four, so two ids are
  equal exactly when their preimages are. A split puts the parent's id in the place of the nonce,
  and so does the model.
* Token contracts do not run out of width when they add to a balance.
* The treasury is a user other than the stream contract. When it is the treasury
  contract, its tokens leave it only in its own operations (`ProtocolNext`).
* Anybody may call `deposit` of the treasury with any amount, negative ones included, and no tokens move. So the record
  may be ahead of the tokens by what was recorded like that (`unbacked`), and what the properties say is that the
  treasury's and the stream contract's own operations add no gap to it.
* A hash is a model value and a proxy upgrade does not change what the stream
  contract does.
* Arithmetic that the code leaves unchecked (`start_time + duration`) fails on overflow.
  The profile `release` says so (`src/Cargo.toml:7`); `release-size` switches it off (`:24`)
  and is not what is modelled.
* `CreateNext`, splits and batches stop after `MaxStreams` ids, lists in a batch are
  of at most `BatchSize` ids, a sender has at most `MaxBatches` batches, and
  `MaxUpgrades` bounds the upgrades and their versions, `MaxUnbacked` what others
  record: bounds for TLC. The proofs hold for every value of them.
* Events, error codes, metadata strings, entry lifetimes and queries that only
  read one field are left out.
* The sources do not compile as they are: `stream/src/lib.rs:36-65` imports names twice, and in
  `:1978-1980` the forwarding `get_pause_expiry` lacks its closing brace. The model is of the
  code that is meant: one import of each name, and the brace. (No definition depends on either.)

## 3. The runs

All runs fix small widths (`U64_MAX`, `I128_MAX`), so that a clock near its
maximum and saturation of a time really happen, and amounts that do not divide
by their durations, so that there is dust. Deadlock is not checked in the runs of the
stream contract: when the clock is at
`U64_MAX` and every stream is gone, a contract without callers may stop.

| run | question | properties |
|---|---|---|
| MCVesting | Do the formulas agree with a second-by-second count, whenever withdrawals come, before the cliff too? Deposits 1..14, durations 1..4, cliffs 0..3, clock to 7 | `TypeOK`, `FormulasAgreeWithMeter`, `RefundConserves`, `ClaimWithinDeposit`, `ClaimableMonotone` |
| MCAdmin | Admin, guardian, governance, two versions, pause of 2 s on a clock to 3, a log of 2 entries so that it wraps; migrations also through the proxy, whose two admins upgrade it twice, to the same version, an earlier or a new one; calls late, twice, out of order, lost | `AdminTypeOK`, `NoIndefiniteLockout`, `VersionFollowsMigrations`, `AuditLogIsTrail`, `PauseLiftedByRight`, `NoLostUpgrade`, `PauseLapses` |
| MCLife | One stream through every order of its operations: with and without cliff, lock, renewal and delegate; the sender may or may not afford the renewal; a fee of 50 % that no treasury takes may set in at any time | `TypeOK`, `VestingWithinDeposit`, `NoCrossSubsidy`, `CancelReturnsEverything`, `SenderCannotTakeEarned`, `PauseOnlyDelays`, `QuotedIsPaid` |
| MCSplit | One sender, one recipient: splits of splits (three ids), paused or not, renewals, and batches of up to two: an id twice, closed parents, ids that come back | `VestingWithinDeposit`, `NoCrossSubsidy`, `IndexAgrees`, `BatchCancelsEach`, `EarnedIsKept`, `NoSecondPayout` |
| MCPair | Three streams to two recipients, transferred, split, settled, archived | `Solvent`, `IndexAgrees`, `StatsExact`, `PagesCoverStreams`, `StoredWithinLimit`, `GlobalPagesSteady`, `StreamsAreSeparate` |
| MCFees | A fee of 50 %, treasury set or not, exemption, timelock, creation fee; single and batched claims; a treasury in which anybody records deposits nobody paid (3 or -2 tokens), that withdraws, and that distributes to a sender and a pool | `NoCrossSubsidy`, `Solvent`, `RecordedIsBacked`, `TreasuryTakesItsShare`, `TreasuryPaysRecorded`, `FeedsTreasury` |
| MCGates | Pauses, lapses and renewed pauses, limits, cooldown and whitelist changed between the single and batched operations of two streams, termination by the recipient among them | `PauseFreezesStreams`, `CreatedWithinLimit` |
| MCClaimDust, MCClaimEarned, MCClaimArchive, MCClaimNewId, MCClaimCliff | five statements of comments and documents, refuted | one each |

Why the bounds are enough. Amounts of 4 to 7 over 1 to 3 seconds give streams
with and without dust, and every combination of a time before, at and after
cliff, lock and end. Three ids let a split be split, and let a list have a first, a
middle and a last slot to remove. Lists of two let an item see what the one before
left, and hold an id twice. In MCFees the treasury starts without tokens, so that it holds nothing but fees and a record
that runs ahead of them shows. Two entries make the log wrap at once. A
clock of 2 to 5 lets a pause start, lapse and be renewed, and two cycles of a renewing stream
pass. With `I128_MAX = 29999` in MCFees the product `claimable * fee_bps` overflows for
the claim of a whole stream (6 tokens) and not for one of half of it. Two upgrades are the one that is late and the one
it would undo; an upgrade to the same version is the shortest way for a late call to pass. One hash suffices for the proxy, whose
guards compare versions only. One admin of the stream contract is enough: the guards ask whether there is
one who signs, not who it is. The main safety properties, the treasury's and all of
MCAdmin's safety do not depend on these bounds at all: they are proved for every instance (section 4).

`BatchCancelsEach` speaks of the streams of others, too; MCSplit has one sender, so that part is the theorem's (`BatchCancelsAll`).
A split after the end of a stream (`lib.rs:924` does not cap the time there) would need more dust than the amounts of the runs leave;
the theorems on `VestingWithinDeposit` and `NoCrossSubsidy` cover it.

MCPair has the two recipients as a symmetry set. No operation, property or
configuration value tells them apart, and the run checks no liveness.
`StatsExact` and the pages of the global list are checked without batches. The ids
that `batch_create_stream` makes come back when a stream of an earlier batch at the same ledger
time was cancelled; the global list, which only grows, then holds an id twice, and
both queries count it twice. `IndexAgrees` (MCSplit, with such ids) shows that the lists of
the accounts do not suffer. It is stated about the slots as stored, not about a list read from them, so that a
gap or a slot past the count would show.

`StreamsAreSeparate` is a refinement: a step of the contract is a step of `Escrow` on the
account of one stream, or it closes one account and opens another with what is left (a split),
and the pool loses no more than that account. It does not say that the pool has no surplus:
dust that stays behind is not owed to anybody (MCClaimDust). A renewal before which nothing was withdrawn is such a step: the
account holds a full deposit before and after, and the pool gains dust. The clock of MCPair is
too short to renew; the theorem `ContractIsEscrow` covers renewals, and MCClaimDust's instance has them.

`FeedsTreasury` and the proofs of `TreasuryContract` form an assume-guarantee pair.
`TreasurySpec` is the treasury, with deposits by anybody, among others that keep to `Fed`: they record at most what they
pay, and take nothing out. The proofs show that under `TreasurySpec` the record is backed but for `unbacked`;
the run shows that the stream contract with its batches and the treasury
implement `TreasurySpec`, and `ContractFeedsTreasury` proves it for every instance. No more than that is true: a deposit that
nobody paid puts the record ahead, and fees that `withdraw` and `transfer_recipient` pay without recording leave it behind.

`StatsExact` and `PagesCoverStreams` say what the queries do: they count and list the streams that are stored. The documents promise
more, all streams ever created: see the list of differences below.

`QuotedIsPaid` is about claims that leave the stream in the same cycle, by `withdraw` or `transfer_recipient`. Claims that settle or renew it are
not compared, and `lock_until`, which stops `withdraw` and not the query, is not considered.

`SenderCannotTakeEarned` and `EarnedIsKept` except one case by name, `SplitInto`: a split whose derived id is taken overwrites the stream there, with
what its recipient had earned. The sender can bring this about by passing an id as a nonce; MCClaimNewId is the run.

`PauseFreezesStreams` lists what may happen during a pause. A stream and what it keeps in the contract stay as they are, but for
losing the renewal, until its sender's side cancels or splits it or it is archived; withdrawals, batches of them, terminations and transfers are excluded by name, whether or not
the stream is deleted by them.

### What the five refuted statements show

* `lib.rs:643` "dust is naturally absorbed into the new cycle". The new cycle
  is paid for by a full deposit; the old cycle's dust stays in the contract and
  no operation gives it back (`NothingStranded`).
* `lib.rs:532` "withdraw all tokens earned since last withdrawal". A call before
  the cliff pays nothing and moves `last_withdraw_time`: what was earned until
  then is not paid at a later withdrawal (`WithdrawPaysAllEarned`). It stays in
  the refund of a cancellation.
* `lib.rs:316` "all tokens accounted for". When `transfer_recipient` paid the
  last claim, the dust has not gone back, and `archive_stream` deletes the
  stream that would have returned it (`ArchivedIsSettled`).
* `lib.rs:955` "derived nonce ... to avoid collisions". The parent's id is also a
  nonce `create_stream` accepts, and the new id is not checked to be free
  (`NewStreamIsNew`). `NoCrossSubsidy` still holds then, as the proof shows:
  the overwritten deposit is stranded, nobody else's is spent.
* `docs/CONTRACT_SPEC.md:31` "Ledger timestamp before which no tokens are
  claimable". `batch_withdraw` computes its claims with `compute_earned` and
  does not read the cliff: a batch of one pays before it what `withdraw` does not
  (`NothingClaimedBeforeCliff`). It never pays more than the deposit.

Other places where documents and code differ, met while modelling and not made
runs:

* `docs/CONTRACT_SPEC.md:315` (start before cliff): a renewal moves the start
  and leaves the cliff behind.
* `:317` (cancellation only of active streams): cancellation and split accept paused ones.
* `:152`, `:322` and `interface.rs:90-93` ("Pauses the contract and all stream operations"): most stream operations are behind
  it, all withdrawals among them; cancellation, split, delegation and archiving are not, and the first two pay the recipient.
* `:319` (ids are "never reused"): they are hashes, and those of batches and splits may come back.
* `:302` ("a single token transfer" for a batch): one transfer per stream.
* `:266` and `interface.rs:351-352` (`get_claimable` "takes into account the cliff period, lock time", "Inactive streams
  return 0"): the query does not read `lock_until`, and for a paused stream it is what was claimable when it paused.
* `types.rs:61`, `docs/CONTRACT_SPEC.md:43`, `interface.rs:594` (`total_streams` is the "Total number of streams ever created",
  "including Cancelled and Completed"): `get_stats` skips ids whose stream is no longer stored, and a stream that is cancelled, settled or archived is deleted.
  It counts the stored streams exactly (`StatsExact`).
* `lib.rs:1091`, `interface.rs:339`, `README.md:59` (`get_all_stream_ids` pages through "all stream IDs that have ever been created"): ids of
  deleted streams are left out of the page they belong to. All stored ones are there (`PagesCoverStreams`).
* `lib.rs:1651` ("Withdraws all accumulated protocol fees") and `treasury/src/lib.rs:143`
  ("Distributes all accumulated fees"): fees that `withdraw` and `transfer_recipient` paid are
  not on the treasury's record, and neither call reaches them until somebody records them.
* `proxy/src/lib.rs:8` ("All non-admin calls are forwarded"): only `migrate` is.
* The stream limit of `lib.rs:253` is not read by a split; whitelist, minimum duration
  and creation fee are not read by `batch_create_stream`; `batch_cancel_stream` settles a paused
  stream at the ledger time, where `cancel_stream` takes the time of the pause. The recipient then gets more, never less
  (`EarnedIsKept`), and nobody else pays for it (`NoCrossSubsidy`).

### Fairness

Nothing in the contracts is scheduled: every step is a call somebody may or may
not make. Two assumptions are stated, for MCAdmin alone (`Fairness` in `ProxiedAdmin`):

* ledgers keep closing, which is what the network does: weak fairness of `AdvanceTime`;
* somebody keeps calling once a pause has expired: weak fairness of `is_paused`, which stands for any call that
  meets the gate. Every operation behind it and the query itself clear an expired pause.

Under these, `PauseLapses`: if from some time on nobody pauses, the contract ends
up running, though neither governance nor the admin lifts the pause. Without the second assumption the flag stays set, as in the code. No
other liveness is claimed: a recipient may never withdraw.

## 4. The proofs

`tlapm` checks eight modules to the last leaf. Their assumptions are the named
ASSUMEs of the modules: widths are naturals with `U64_MAX <= I128_MAX` and `U64_MAX > 0`, `None` is
no integer and no address, the contract is not a user, and inputs are within the
widths the code declares (`TreasuryAssumption`, `ProxyAssumption` and `BatchAssumption` say the same of
the treasury's splits, of upgrades and of lists). The sets of users, tokens, amounts, durations, fees
and roles are otherwise arbitrary.

**VestingProofs.** `SpecTypeOK`, `FormulasCorrect`, `CancellationConserves`,
`ClaimsFitDeposit`, `ClaimableGrows`: all five properties of MCVesting.
Agreement with the meter is not inductive by itself; the invariant `MeterInv` gives the meter in
closed form, `flow_rate * (effective_now - start_time)`, now and at the last
withdrawal, and says that no more was withdrawn than had been metered by then. It may be less: a withdrawal
before the cliff forfeits what was earned.

**AdminProofs.** `AdminTypes`, `NoLockout`, `MigrationsApplyOnce`,
`PauseLiftedOnlyByRight`, and `AuditLogRefinesTrail`: the circular buffer
implements the trail, for every capacity. The invariant `AdminInv` adds to the
stated properties `AuditShape` (the slots fill in order; until the log is full
the head is the length) and `MigrationShape` (nothing is migrated before there
is an admin, which is why `initialize` cannot undo a migration). The refinement step
shows the log after a write slot by slot: `ReadSlot` resolves the remainder of
the circular index once, and `AppendIsRecord` has one case for a log that grows
and one for a log that is full.

**StreamProofs.** `ContractTypes`, `PaysOnlyEarned`, `PaysFromOwnDeposit`,
`ContractNoLockout`: for the whole stream contract, with administration, fees and policy
interleaved. The invariant `ContractInv` has one part per component:
`AdminInv` again, the types of fees and policy, `MoneyInv` (no balance is
overdrawn), `IndexInv`, and `StreamsInv`: every stored stream is of its type and, while it is live, sound
(`ScheduleSound`), and its escrow covers what it owes. None of the three stated
properties is inductive alone: that a stream is covered needs that it pays only
what was earned, and that needs the order of its times. The argument, step by step:

* *arithmetic*: `EarnedFits` and `Payable`: what was withdrawn plus what can be claimed is
  at most what has streamed, which is at most what the schedule holds, which is at most the deposit;
  hence no product overflows (`EarnedComputed`), dust and refund are exact
  (`DustIsRest`, `RefundIsRest`), a fee is part of its claim (`FeePart`);
* *money*: `Loan` describes balances of which only the contract's may be
  negative in the middle of a step; `PayOutCosts`, `UserPays` and `ClaimCosts`
  say what each payment costs the contract;
* *streams*: `ServedGood`, `RenewedGood`, `SplitGood`, `ToppedGood`,
  `ResumedGood`, ... : each change of a record gives a good record. `ResumedGood`
  is where saturation matters: the last withdrawal was before the pause, so the start
  cannot be cut off and only the end can, which shortens the flow;
* *storage*: `PutKeeps` and `DropKeeps`: storing or deleting one stream with
  its income keeps all the others covered. They do not ask that the id be new, and so
  hold for the colliding ids of a split;
* one lemma per operation (`CreateKeeps` ... `ArchiveKeeps`), `StreamStepGated` for the pause,
  `ClockKeeps` and `WalletKeeps` for the ledger, and `NextInv` that puts them together.

**EscrowProofs.** What the steps of the stream contract do to its streams, their accounts and the pool, for
every action property of MCLife, `NoSecondPayout`, `NewStreamIsNew`, the refinement of `Escrow`, `Solvent` and `TreasuryTakesItsShare`. The proof
works with the *shape* of a step: `StreamStepEffect` shows, with one lemma per operation, that each of them
opens one stream (`Opens`), changes one (`Changes`), closes one (`Closes`), splits one (`Divides`)
or leaves all as they are (`Rests`), and what each shape says of times, claims, accounts, lists and
tokens. Every theorem is then a short argument over five shapes, and `OtherSteps` says that the clock, the
users' wallets and the administration touch no stream.

* `ClosedStreamsStayClosed`, `CancelPaysInFull`, `CliffBeforeEnd`, `QuotesArePaid`, `EarnedIsSafe`, `ContractSolvent` and `TreasuryTakesShare` hold of
  every instance, whatever nonces senders pass. A split may then overwrite a stored stream. `StreamFate` carries that as one of the
  ends a stream can meet, and `OverwrittenBySplit` shows it to be what the property excepts (`SplitInto`); a stream that
  was overwritten has a start and a last withdrawal that `QuotedIsPaid` does not take for a claim.
* `PausesOnlyDelay`, `NewStreamsAreNew` and
  `ContractIsEscrow` assume `NoncesApart`: no sender passes the id of a stream as its nonce. The
  assumption is on the callers, the code does not enforce it, and it is needed: MCClaimNewId has such a
  nonce, and a split then overwrites a stream. Under it `IdsInv` is inductive: the last part of an id is a nonce that its sender
  has used, or the id of a stream that was split and never flows again. So `create_stream`, which refuses used nonces,
  and `partial_cancel_stream`, which closes its parent, both meet an id that was never there.
* `CliffInv` (a cliff is never after the end) is what `PausesOnlyDelay` needs when a
  resumed time reaches `u64::MAX`: the end reaches it first.
* `ContractIsEscrow`: a step that serves a stream changes its account alone, and the pool
  gains or loses at least what the account does, because fees are part of claims and payments to users never bring tokens back to the contract.
* `ContractSolvent` takes a sum over a finite set apart. The sum of the library is a recursive function
  on subsets, so `SumExists` shows by a smallest counterexample (`SmallestSubset`, from well-founded induction on
  subsets) that a function with the recursion equation exists, and `SumsAgree`, `LockedPut` and `LockedDrop` that storing or
  deleting one stream adds or takes its own share. `SolvencyInv` adds that the stored streams are finitely many.
* `TreasuryTakesShare` needs the amounts themselves, not the shapes. The fee is a part of the claim that
  leaves the contract and rounds down (`FeeGain`, `ShareOfMore`: dust refunded with the claim does not raise it); only one
  stream's account falls, so an exempt recipient served is the one who claims (`ClaimShares`); a cancellation, a termination
  and a split pay past the treasury (`PaidPastTreasury`), and a creation brings the creation fee in whatever token (`ChargedTreasury`). For the other direction, `OnlyClaimsCount` shows that only
  `withdraw` and `transfer_recipient` raise the amount withdrawn of a stream that stays stored, and `FeeTaken` that the fee on the
  rise, computed with the recipient of before, has come to the treasury. The property
  is about a treasury that is no party of a stored stream and tokens in which no renewal is due: a renewal
  brings in a deposit in the step in which its claim leaves, so the fee is no share of the difference.

**IndexProofs.** `ListsAgree` and `LimitIsKept`, under `NoncesApart`. `GoodList` says that a list of an account has
the slots `0..count - 1`, each stream of the account in one of them, and nothing else; `UnindexedGood` is swap-and-pop, `IndexedGood` the
append. The invariant `ListsInv` needs for the global list that it holds the ids ever
booked, not only the stored ones. `CountIsSize` then says that a count is a cardinality, so that the
limit `create_stream` compares it with bounds the streams themselves.

The queries are loops over these lists: `StatsAreExact`, `PagesCoverAll` and `PagesStaySteady`, also under `NoncesApart`.
A loop is a recursive function of the position it has reached. That it exists, and what it has found, is shown by the smallest position at which it would
fail (`SmallestNumber`), once for all loops (`AllNumbers`, `AllSequences`). The lemmas on `Those` say that it keeps the items of the
set, in their order and each as often as it was there, that it distributes over concatenation, and that two passes are one pass with the intersection; so a page is a
cut of the slots followed by one pass. From there:

* `StatsAreExact`: after *n* slots the statistics are those of the stored ids in the first *n* slots (`StatsOfMore`); `ListsInv` makes these, in the end,
  all the stored streams, each once. The volume is a sum that saturates, and saturating after each addition
  gives the same as saturating the sum, because deposits are not negative (`VolumeIsSum`).
* `PagesCoverAll`: pages cut the numbers below the count into intervals, and a list without a gap or a double then
  gives each id on one page.
* `PagesStaySteady`: no step renumbers the global list. A step appends an id behind what was there (`GlobalListStep`), and that id is not
  one of those already on the list, so a page that reaches the old end keeps the ids that were on it.

**ProxyProofs.** `UpgradesNotLost`: an upgrade that takes effect was prepared with every
earlier one in view unless the stored version had been stored before, for every set of admins, hashes and calls under way. The invariant
`ProxyInv` says that the stored version is the last of the `layouts`, and of each call in flight that it expects the version that was
stored when it was prepared. So a call that passes the check expects the stored version: either no upgrade has come since, or one has and
the version has come back (`ComesBack`), which the property names as the only way around it. That new versions are new is not assumed,
as the code does not ask for it. The invariant also needs that
no call is prepared before there is an admin, so that `initialize` cannot give a version back.
`ProxiedIsAdmin`: administration behind the proxy implements `AdminSpec`; so every safety theorem of
AdminProofs holds there too, as `ProxiedMigrations` spells out for migrations that arrive by two ways.

**TreasuryProofs.** `TreasuryCovered` and `TreasuryPaysOneForOne`, under `TreasurySpec`: whatever others pay
and record within `Fed`, and whatever anybody records without paying. `TreasuryCovered` is `RecordedIsBacked`: recorded is at most held plus `unbacked`. `TreasuryInv` adds
that balances and `unbacked` are not
negative and the split is at most 10000. The case with an argument is `distribute`: `SplitFits` shows that the rounded-down part and the rest
are naturals with the sum `total`, `Distribution` follows the two payments, either of which may be zero or go to the treasury
itself, and `DistributeKeeps` needs the record to be cleared, because no payment leaves the
balance as it was. `TreasuryPaysOneForOne` assumes that neither the pool nor a destination is the
treasury itself: a split of which one part comes back takes more off the record than leaves.

**BatchProofs.** The protocol as a whole: the stream contract with its batches, and the treasury (`ProtocolSpec`).
About tokens: `BatchesPayOnlyEarned`, `BatchesPayFromOwnDeposit`, `ProtocolSolvent`, `BatchCancelsAll`, `ClosedStayClosedInBatches`,
`ContractFeedsTreasury` (the refinement) and, from it and `TreasuryCovered`, `FeesAreHeld`. About lists, limits and who may take what:
`BatchesKeepEarned` and `PauseFreezesBatches` and, under `NoncesApart` as well, `BatchesKeepLists` and `BatchesKeepLimit`. All assume `TreasuryApart`: the treasury contract is
no sender. It has no call that creates a stream; if it had, its deposits would lower what it holds outside its own operations. The
invariant `ProtocolInv` is `ContractInv`, `TreasuryInv`, `SolvencyInv` and `SendersApart` (no stored stream refunds the
treasury). The argument:

* *the state inside a batch*: `WorkInv` says that it is well formed, that every stream is covered by its own escrow and all of them
  together by the contract's tokens, and `FedBetween` that the treasury was told of at most what it was paid since
  the batch began. `WorkPut` and `WorkDrop` keep it when one stream is stored or deleted with its income;
* *one item*: `CreateItemKeeps`, `WithdrawItemKeeps` (one lemma per outcome: `ServeFlows`, `ServeRenews`,
  `ServeSettles`) and `CancelItemKeeps`. Each says that the item keeps `WorkInv` or clears `ok`;
* *a cancellation never reverts a batch*: `CancelPays` shows that a paused stream settled at ledger time
  stays within its deposit, `OwesWithinLocked` that what one stream owes is part of what the contract holds. So `BatchCancelsEach`, which looks
  like a statement about control flow, rests on solvency: without the funds for one item the whole batch would
  roll back;
* *the whole list*: `InTurn` is a recursive function of the position. `TurnsExist` shows that it exists, by the smallest position at which it
  would not (`SmallestNumber`), and `TurnsReach` carries what holds after *k* items from the first position to the last. What holds is
  one predicate per call, relative to the state in which the batch began: `CreatedTo` (streams are only added, and the sender's count
  has grown by *k*), `WithdrawnTo` (no stream of another recipient is touched) and `CancelledTo` (each of the first *k* ids is gone if it was a live stream
  of the sender, its recipient got what it had earned, no other stream or account changed, and the contract took in nothing). A list may name an id twice;
* *a batch as one step*: `BatchLeaves` says that a step of the batches reaches a state that one of the three describes (`Batched`), and the action properties are read off them. `BecomeKeeps`,
  `BatchStep`, `ContractStep` and `TreasuryStep` cover the disjuncts of `ProtocolNext`, `ProtocolStep` puts them together.

Lists and limits need an invariant of their own. `ListsInv` and `IdsInv` of the proofs without batches fail here:
`batch_create_stream` numbers its streams from 0 in every batch and looks no nonce up, so the id of a stream that was cancelled in the same
ledger is booked again, and the global list holds it twice. `OrderInv` is what is left:

* `PartiesInv`: the lists of senders and recipients are exact all the same, since an id is put there only when no stream is stored under it;
* `GlobalInv`: the global list has no gap and no stored stream is missing from it (it may hold an id twice, and ids that are gone);
* `FreshInv`: why a split still meets a free id. The new id holds the parent's id as its nonce. Once such an id is booked, the parent is
  never live again (`Retired`): it is stored and closed, or its start lies before the present and no batch can make it any more, because a batch puts the
  present time into its ids. A stored stream whose id holds the present time is `Young`: it has paid nothing, so `archive_stream` does not find it settled and cannot delete a closed parent before the clock moves on.
  `FreshApart` concludes that splits meet no booked id, which is all that the step lemmas of EscrowProofs and
  IndexProofs ask (`SplitsApart`), so these hold for the single calls of the protocol too.

`ClosedStayClosedInBatches` needs neither `OrderInv` nor `NoncesApart`: an account only loses tokens to a live stream stored under it.
Neither do `BatchesKeepEarned` and `PauseFreezesBatches`, which except by name the stream a split overwrites. For the pause, `PauseHolds` shows that
the gate lets nothing through while a pause is in force, `PausedStep` goes through the operations that are not behind it, and
`PausedBatch` leaves `batch_cancel_stream` as the only batch.

Only model-checked:

* `TreasuryTakesItsShare` with batches (MCFees): the theorem is about `Spec`. With renewals due nothing is stated;
* `PauseLapses` (liveness and ENABLED are out of the prover's reach), and the five refuted statements.

## 5. Not modelled, and the plan

Not modelled:

* `upgrade` of the stream contract and `upgrade_proxy` of the proxy: they replace the program
  itself, and nothing in this repository says what the new one does. The bookkeeping of the proxy around an
  upgrade is modelled.
* Metadata strings, error codes, events and getters of one field: nothing that changes state reads them.
  `interface.rs` repeats the signatures.
* Storage lifetimes. The host archives an entry whose lifetime ran out; the operations modelled here neither extend
  lifetimes nor find an entry gone, so there is no code to follow.
* Tests, benches, fuzz targets and deployment files, read only for what they state.

Next:

1. A form of `TreasuryTakesItsShare` that adds the deposits of renewed streams to what left the contract, so that it covers
   renewals, and its proof for `ProtocolSpec`.
2. A larger MCPair with renewals, if the time allows; today they are in MCLife and MCSplit.
